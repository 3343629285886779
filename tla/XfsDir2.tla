------------------------------ MODULE XfsDir2 ------------------------------
(***************************************************************************)
(* Directories (fs/xfs/xfs_dir2*.c): the four formats a directory goes     *)
(* through as it grows and shrinks - in the inode (sf), one block holding  *)
(* data and leaf, data blocks with one leaf block, data blocks with a      *)
(* btree of leaves and free-space blocks (node) - and reading it in pieces *)
(* while it changes.                                                       *)
(*                                                                         *)
(* Offsets and lengths in a data block are in units of 8 bytes, the        *)
(* alignment of its entries; sizes in the inode and in a leaf are bytes.   *)
(* A name is a number with a length and a hash; of an inode number only    *)
(* whether it needs 8 bytes is kept.  The free regions of a data block are *)
(* the gaps between its entries.  The leaves of a node directory are a     *)
(* list; XfsDaBtree models the nodes above them.                           *)
(***************************************************************************)
EXTENDS Integers, Sequences, FiniteSets, FiniteSetsExt, SequencesExt

CONSTANTS
  Names,      \* the names used, numbers above 1
  Namelen,    \* their lengths
  Hash,       \* their hash values, "." and ".." included
  BigNames,   \* names whose inode number may need 8 bytes
  DirBlk,     \* m_dirblksize, in units of 8 bytes
  DSize,      \* XFS_IFORK_DSIZE: bytes for a directory in the inode
  LeafBytes,  \* m_dirblksize of the leaf blocks, in bytes
  MaxBests,   \* XFS_DIR2_MAX_FREE_BESTS
  MaxDb,      \* bound: data blocks
  MaxRemoves, \* bound: removals in a behaviour
  Choice,     \* bound: an addition is of one of the Choice lowest absent names
  Reader      \* whether somebody reads the directory meanwhile

VARIABLES
  dir,        \* the directory
  names,      \* <<name, needs 8 bytes>> the callers entered and did not remove
  removes,    \* removals so far
  failed,     \* what the last operation returned
  reader      \* a process reading the directory in pieces

dirVars == <<dir, names, removes, failed, reader>>

Dot == 0
DotDot == 1
HdrUnits == 2                  \* sizeof(xfs_dir2_data_hdr_t)
FirstOffset == 6               \* XFS_DIR2_DATA_FIRST_OFFSET
Stale == -1                    \* XFS_DIR2_NULL_DATAPTR
NullOff == 65535               \* NULLDATAOFF
NoBlock == [ents |-> {}, best |-> <<>>]
NoFree == [bests |-> <<>>, nvalid |-> -1, nused |-> 0]
Zero == [off |-> 0, len |-> 0]
Whole == DirBlk - HdrUnits

Len8(n) == CASE n = Dot -> 1 [] n = DotDot -> 2 [] OTHER -> Namelen[n]
EntSize(n) == (Len8(n) + 11 + 7) \div 8
End(e) == e.off + EntSize(e.n)
Ok(d) == [dir |-> d, err |-> "ok"]
Err(d, e) == [dir |-> d, err |-> e]

----------------------------------------------------------------------------
(* A data block: its entries and bestfree, the three longest free regions.  *)
(* `end' is where the data ends: the block's end, or its leaf entries.      *)

Gaps(ents, end) ==
  LET F == (HdrUnits .. end - 1) \ UNION {e.off .. End(e) - 1 : e \in ents}
  IN {[off |-> a, len |-> Min({k \in a + 1 .. end : k \notin F}) - a] : a \in {x \in F : x - 1 \notin F}}

GapWith(gaps, P(_)) == LET G == {g \in gaps : P(g)} IN IF G = {} THEN Zero ELSE CHOOSE g \in G : TRUE
GapAt(ents, end, off) == GapWith(Gaps(ents, end), LAMBDA g : g.off = off)
GapTo(ents, end, off) == GapWith(Gaps(ents, end), LAMBDA g : g.off + g.len = off)

FreeFind(best, g) == \E i \in 1 .. 3 : best[i].off = g.off
FreeRemove(best, g) == Append(SelectSeq(best, LAMBDA b : b.off # g.off), Zero)

FreeInsert(best, g) ==
  IF g.len > best[1].len THEN <<g, best[1], best[2]>>
  ELSE IF g.len > best[2].len THEN <<best[1], g, best[2]>>
  ELSE IF g.len > best[3].len THEN <<best[1], best[2], g>>
  ELSE best

FreeScan(ents, end) ==
  FoldLeft(FreeInsert, <<Zero, Zero, Zero>>, SetToSortSeq(Gaps(ents, end), LAMBDA x, y : x.off < y.off))

\* bestfree is kept although it may no longer list the longest regions
MutRescan(best, ents, end, scan) == best

Rescan(best, ents, end, scan) == IF scan THEN FreeScan(ents, end) ELSE best

\* len units at off of the free region g are taken; ents and end describe the block after
UseFree(best, g, off, len, ents, end) ==
  LET front == [off |-> g.off, len |-> off - g.off]
      back == [off |-> off + len, len |-> g.off + g.len - (off + len)]
      Reinserted(b, part) == Rescan(b, ents, end, b[3] = part)
  IN IF ~FreeFind(best, g) THEN best
     ELSE IF front.len = 0 /\ back.len = 0
     THEN IF best[3].off # 0 THEN Rescan(best, ents, end, TRUE) ELSE FreeRemove(best, g)
     ELSE IF front.len = 0 THEN Reinserted(FreeInsert(FreeRemove(best, g), back), back)
     ELSE IF back.len = 0 THEN Reinserted(FreeInsert(FreeRemove(best, g), front), front)
     ELSE IF best[3].len # 0 THEN Rescan(best, ents, end, TRUE)
     ELSE FreeInsert(FreeInsert(FreeRemove(best, g), front), back)

\* len units at off become free; prev and post are the free regions next to them
Freed(best, prev, post, off, len, ents, end) ==
  LET new == [off |-> IF prev.len > 0 THEN prev.off ELSE off, len |-> prev.len + len + post.len]
      Grown(g) == IF FreeFind(best, g) THEN FreeInsert(FreeRemove(best, g), new)
                  ELSE Rescan(best, ents, end, new.len > best[3].len)
  IN IF prev.len > 0 /\ post.len > 0
     THEN IF best[3].len # 0 THEN Rescan(best, ents, end, TRUE)
          ELSE FreeInsert(FreeRemove(FreeRemove(best, post), prev), new)
     ELSE IF prev.len > 0 THEN Grown(prev)
     ELSE IF post.len > 0 THEN Grown(post)
     ELSE FreeInsert(best, new)

MakeFree(b, end, off, len, ents, newend) ==
  [ents |-> ents,
   best |-> Freed(b.best, GapTo(b.ents, end, off), IF off + len < end THEN GapAt(b.ents, end, off + len) ELSE Zero,
                  off, len, ents, newend)]

DataInit == [ents |-> {}, best |-> <<[off |-> HdrUnits, len |-> Whole], Zero, Zero>>]

Present(d) == {db \in 0 .. MaxDb : d.data[db].best # <<>>}
Missing(d) == 0 .. MaxDb \ Present(d)

\* an entry goes to the front of the longest free region of data block db
AddAt(b, g, e) == [ents |-> b.ents \cup {e}, best |-> UseFree(b.best, g, g.off, EntSize(e.n), b.ents \cup {e}, DirBlk)]
AddData(d, db, a) ==
  [d EXCEPT !.data[db] = AddAt(@, @.best[1], [n |-> a.n, off |-> @.best[1].off, big |-> a.big])]

\* freeing a block in the middle of an extent may need a block for the extent btree
MayNotShrink(blocks, b) == b - 1 \in blocks /\ b + 1 \in blocks

----------------------------------------------------------------------------
(* Leaf entries: [h, db, off], sorted by hash, removed ones left as stale *)

IsStale(e) == e.off = Stale
Live(ents) == SelectSeq(ents, LAMBDA e : ~IsStale(e))
StaleCount(ents) == Len(ents) - Len(Live(ents))
Below(ents, h) == Cardinality({i \in DOMAIN ents : ents[i].h < h})

LowStale(ents, pos) == Max({i \in 1 .. pos : IsStale(ents[i])} \cup {0})
HighStale(ents, pos) == Min({i \in pos + 1 .. Len(ents) : IsStale(ents[i])} \cup {Len(ents) + 1})

\* the entry goes after the first pos, over the stale entry `kill' if it is not 0
PutOver(ents, pos, e, kill) ==
  LET At(i) == IF i <= pos THEN ents[i] ELSE IF i = pos + 1 THEN e ELSE ents[i - 1]
      keep == SelectSeq([i \in 1 .. Len(ents) + 1 |-> i], LAMBDA i : kill = 0 \/ i # (IF kill <= pos THEN kill ELSE kill + 1))
  IN [i \in DOMAIN keep |-> At(keep[i])]

PutBlock(ents, pos, e, low, high) ==
  PutOver(ents, pos, e, IF low > 0 /\ (high > Len(ents) \/ pos - low <= high - pos) THEN low ELSE high)
PutLeaf(ents, pos, e, low, high) ==
  PutOver(ents, pos, e, IF low > 0 /\ (high > Len(ents) \/ pos - low < high - 1 - pos) THEN low ELSE high)

Without(ents, drop) == LET keep == SelectSeq([i \in 1 .. Len(ents) |-> i], LAMBDA i : i \notin drop)
                       IN [i \in DOMAIN keep |-> ents[keep[i]]]

\* all stale entries but `keep' are dropped, and the new entry takes its place
PutCompacted(ents, pos, e, keep) ==
  LET drop == {i \in DOMAIN ents : IsStale(ents[i]) /\ i # keep}
      Before(p) == Cardinality({i \in drop : i <= p})
  IN PutOver(Without(ents, drop), pos - Before(pos), e, keep - Before(keep))
CompactX1(ents, pos, e, low, high) ==
  PutCompacted(ents, pos, e, IF low > 0 /\ (high > Len(ents) \/ pos - low + 1 <= high - 1 - pos) THEN low ELSE high)

AddLeafEntry(ents, pos, e, compact) ==
  IF StaleCount(ents) = 0 THEN PutOver(ents, pos, e, 0)
  ELSE IF compact THEN CompactX1(ents, pos, e, LowStale(ents, pos), HighStale(ents, pos))
  ELSE PutLeaf(ents, pos, e, LowStale(ents, pos), HighStale(ents, pos))

BlockEnd(d) == DirBlk - 1 - Len(d.leaves[1].ents)
WithEnts(d, i, ents) == [d EXCEPT !.leaves[i].ents = ents]

----------------------------------------------------------------------------
(* In the inode: entries keep the offset they would have in a block.  An    *)
(* operation has arguments a: the name, whether its inode number needs 8    *)
(* bytes, whether blocks are reserved (args->total), and whether it only    *)
(* checks (XFS_DA_OP_JUSTCHECK).                                            *)

SfBytes(ents, i8) ==
  (IF i8 > 0 THEN 10 ELSE 6) + FoldSet(LAMBDA e, acc : acc + Len8(e.n) + 3 + (IF i8 > 0 THEN 8 ELSE 4), 0, ents)
BigCount(ents) == Cardinality({e \in ents : e.big})
Dots(parent) == {[n |-> Dot, off |-> HdrUnits, big |-> FALSE], [n |-> DotDot, off |-> HdrUnits + 2, big |-> parent]}
SfEnd(ents) == Max({FirstOffset} \cup {End(e) : e \in ents})
SfHoles(d, n) == {g.off : g \in {h \in Gaps(d.sf \cup Dots(d.parent), SfEnd(d.sf)) : h.len >= EntSize(n)}}
LeafEntries(ents) ==
  LET sorted == SetToSortSeq(ents, LAMBDA x, y : Hash[x.n] < Hash[y.n] \/ (Hash[x.n] = Hash[y.n] /\ x.off < y.off))
  IN [i \in DOMAIN sorted |-> [h |-> Hash[sorted[i].n], db |-> 0, off |-> sorted[i].off]]

SfToBlock(d) ==
  LET ents == d.sf \cup Dots(d.parent)
  IN [d EXCEPT !.fmt = "block", !.sf = {}, !.i8 = 0, !.parent = FALSE,
               !.leaves = <<[blk |-> 0, ents |-> LeafEntries(ents)]>>,
               !.data[0] = [ents |-> ents, best |-> FreeScan(ents, DirBlk - 1 - Cardinality(ents))]]

\* where the new entry would go: 0 nowhere, 1 at the end, 2 with the entries copied
SfAddnamePick(d, n, objchange) ==
  LET used == SfEnd(d.sf) + Cardinality(d.sf) + 3 + 1
  IN IF used + (IF SfHoles(d, n) # {} THEN 0 ELSE EntSize(n)) > DirBlk THEN 0
     ELSE IF objchange \/ used + EntSize(n) > DirBlk THEN 2 ELSE 1

SfAddname(d, a) ==
  LET objchange == a.big /\ d.i8 = 0
      Entry(off) == [n |-> a.n, off |-> off, big |-> a.big]
      pick == SfAddnamePick(d, a.n, objchange)
      off == IF pick = 2 /\ SfHoles(d, a.n) # {} THEN Min(SfHoles(d, a.n)) ELSE SfEnd(d.sf)
  IN IF SfBytes(d.sf \cup {Entry(0)}, IF a.big THEN 1 ELSE d.i8) > DSize \/ pick = 0
     THEN [fits |-> FALSE, dir |-> d]
     ELSE [fits |-> TRUE, dir |-> [d EXCEPT !.sf = @ \cup {Entry(off)}, !.i8 = IF a.big THEN @ + 1 ELSE @]]

SfRemovename(d, e) == [d EXCEPT !.sf = @ \ {e}, !.i8 = IF e.big THEN @ - 1 ELSE @]

\* xfs_dir2_sf_replace where the new inode number fits the inode
SfReplaced(d, e, big) ==
  LET elevated == big /\ d.i8 = 0
      i8 == IF elevated THEN 1 ELSE d.i8
  IN [d EXCEPT !.sf = IF e.n = DotDot THEN @ ELSE (@ \ {e}) \cup {[e EXCEPT !.big = big]},
               !.parent = IF e.n = DotDot THEN big ELSE @,
               !.i8 = IF e.big /\ ~big THEN i8 - 1 ELSE IF ~e.big /\ big /\ ~elevated THEN i8 + 1 ELSE i8]

\* a conversion that packs the entries instead of keeping their offsets
MutBlockToSf(d, ents) ==
  LET sorted == SetToSortSeq({e \in ents : e.n \notin {Dot, DotDot}}, LAMBDA x, y : x.off < y.off)
      At(k) == FirstOffset + FoldLeft(LAMBDA acc, e : acc + EntSize(e.n), 0, SubSeq(sorted, 1, k - 1))
      named == {[sorted[k] EXCEPT !.off = At(k)] : k \in DOMAIN sorted}
      i8 == BigCount({e \in ents : e.n # Dot})
  IN IF SfBytes(named, i8) > DSize THEN d
     ELSE [d EXCEPT !.fmt = "sf", !.sf = named, !.i8 = i8, !.parent = \E e \in ents : e.n = DotDot /\ e.big,
                    !.data[0] = NoBlock, !.leaves = <<>>]

\* sizes of a block directory as it would be in the inode
BlockToSf(d, ents) ==
  LET named == {e \in ents : e.n \notin {Dot, DotDot}}
      i8 == BigCount({e \in ents : e.n # Dot})
  IN IF SfBytes(named, i8) > DSize THEN d
     ELSE [d EXCEPT !.fmt = "sf", !.sf = named, !.i8 = i8, !.parent = \E e \in ents : e.n = DotDot /\ e.big,
                    !.data[0] = NoBlock, !.leaves = <<>>]

----------------------------------------------------------------------------
(* One block *)

\* the free region the new entry goes to, by offset (0: none), and whether the leaf is compacted first
BlockRoom(best, endgap, end, stale, len) ==
  LET compacted == endgap.len + stale - 1
  IN IF stale = 0
     THEN [compact |-> FALSE,
           off |-> IF endgap.len = 0 THEN 0
                   ELSE IF best[1].off = endgap.off
                   THEN IF best[1].len >= len + 1 THEN best[1].off ELSE IF best[2].len >= len THEN best[2].off ELSE 0
                   ELSE IF best[1].len >= len THEN best[1].off ELSE 0]
     ELSE IF best[1].len >= len THEN [compact |-> FALSE, off |-> best[1].off]
     ELSE [compact |-> TRUE,
           off |-> IF compacted < len THEN 0 ELSE IF endgap.len > 0 THEN endgap.off ELSE end]

BlockRoomFor(d, n) ==
  BlockRoom(d.data[0].best, GapTo(d.data[0].ents, BlockEnd(d), BlockEnd(d)), BlockEnd(d),
            StaleCount(d.leaves[1].ents), EntSize(n))

\* the leaf entry first, at the cost of the free region before the leaf or of a stale one
BlockLeafAdd(d, e, room, ents, end) ==
  LET pos == Below(ents, e.h)
      stale == StaleCount(ents)
      gap == GapTo(d.data[0].ents, end, end)
  IN IF stale = 0
     THEN [WithEnts(d, 1, PutOver(ents, pos, e, 0)) EXCEPT
             !.data[0].best = UseFree(@, gap, end - 1, 1, d.data[0].ents, end - 1)]
     ELSE IF room.compact
     THEN [WithEnts(d, 1, PutCompacted(ents, pos, e, Max({i \in DOMAIN ents : IsStale(ents[i])}))) EXCEPT
             !.data[0] = MakeFree(@, end, end, stale - 1, @.ents, end + stale - 1)]
     ELSE WithEnts(d, 1, PutBlock(ents, pos, e, LowStale(ents, pos), HighStale(ents, pos)))

BlockDataAdd(d, e, end) ==
  LET b == d.data[0]
  IN [d EXCEPT !.data[0] = [ents |-> b.ents \cup {e},
        best |-> UseFree(b.best, GapAt(b.ents, end, e.off), e.off, EntSize(e.n), b.ents \cup {e}, end)]]

BlockAdd(d, a, room) ==
  LET d1 == BlockLeafAdd(d, [h |-> Hash[a.n], db |-> 0, off |-> room.off], room, d.leaves[1].ents, BlockEnd(d))
  IN BlockDataAdd(d1, [n |-> a.n, off |-> room.off, big |-> a.big], BlockEnd(d1))

BlockToLeaf(d) ==
  [d EXCEPT !.fmt = "leaf", !.data[0] = MakeFree(@, BlockEnd(d), BlockEnd(d), DirBlk - BlockEnd(d), @.ents, DirBlk)]
WithBests(d) == [d EXCEPT !.bests = <<d.data[0].best[1].len>>]

\* entry e of data block db and its leaf entry in leaf i go
MakeStale(d, i, db, e) ==
  WithEnts(d, i, [k \in DOMAIN d.leaves[i].ents |->
                    LET l == d.leaves[i].ents[k] IN IF l.db = db /\ l.off = e.off THEN [l EXCEPT !.db = 0, !.off = Stale] ELSE l])
RemoveData(d, db, e, end) ==
  [d EXCEPT !.data[db] = MakeFree(@, end, e.off, EntSize(e.n), @.ents \ {e}, end)]

ToSf(d) == BlockToSf(d, d.data[0].ents)
BlockRemovename(d, e) == ToSf(RemoveData(MakeStale(d, 1, 0, e), 0, e, BlockEnd(d)))

----------------------------------------------------------------------------
(* One leaf block, with the longest free region of each data block *)

LeafRoom(d) == LeafBytes - 4 - 2 * Len(d.bests) - 16 - 8 * Len(d.leaves[1].ents)

\* the entry after which the new one goes, and a block with room among those of the same hash
SameHash(ents, h) == {i \in DOMAIN ents : ents[i].h = h}
NearRoom(ents, h, roomy) ==
  LET S == {i \in SameHash(ents, h) : ~IsStale(ents[i]) /\ ents[i].db \in roomy}
  IN IF S = {} THEN [pos |-> Below(ents, h) + Cardinality(SameHash(ents, h)), db |-> -1]
     ELSE [pos |-> Min(S) - 1, db |-> ents[Min(S)].db]

\* the first block with room, or the first hole; a second hole ends the search too
UseBlock(bests, near, len) ==
  LET nulls == {i \in DOMAIN bests : bests[i] = NullOff}
      firstNull == Min(nulls \cup {Len(bests) + 1})
      fits == {i \in DOMAIN bests : bests[i] >= len /\ i # firstNull}
  IN IF near # -1 THEN near ELSE IF fits # {} THEN Min(fits) - 1 ELSE IF nulls # {} THEN firstNull - 1 ELSE -1

LeafPlan(d, use, stale) ==
  LET need == (IF stale > 0 THEN 0 ELSE 8) + (IF use # -1 THEN 0 ELSE 2)
      db == IF use # -1 /\ d.bests[use + 1] = NullOff THEN -1 ELSE use
  IN [db |-> db, full |-> LeafRoom(d) < need /\ stale <= 1, compact |-> LeafRoom(d) < need]

GrowData(d, db) ==
  [d EXCEPT !.data[db] = DataInit,
            !.bests = IF db >= Len(@) THEN Append(@, Whole) ELSE [@ EXCEPT ![db + 1] = Whole]]
BestUpdated(d, db) == [d EXCEPT !.bests[db + 1] = d.data[db].best[1].len]
NewLeafEntry(d, db, a) == [h |-> Hash[a.n], db |-> db, off |-> d.data[db].best[1].off]

LeafEnter(d, db, a, pos, compact) ==
  BestUpdated(AddData(WithEnts(d, 1, AddLeafEntry(d.leaves[1].ents, pos, NewLeafEntry(d, db, a), compact)), db, a), db)
LeafGrow(d, db, a, pos, compact) == LeafEnter(GrowData(d, db), db, a, pos, compact)

LeafToNode(d) ==
  [d EXCEPT !.fmt = "node", !.bests = <<>>,
            !.free[0] = [bests |-> [k \in 1 .. MaxBests |-> IF k <= Len(d.bests) THEN d.bests[k] ELSE NullOff],
                         nvalid |-> Len(d.bests),
                         nused |-> Cardinality({k \in DOMAIN d.bests : d.bests[k] # NullOff})]]

\* trailing empty blocks go, then the leaf moves into the data block if it fits
RECURSIVE TrimData(_)
TrimData(d) ==
  IF Present(d) # {0} /\ Last(d.bests) = Whole
  THEN TrimData([d EXCEPT !.data[Len(d.bests) - 1] = NoBlock, !.bests = Front(@)]) ELSE d

IntoBlock(d, live, gap) ==
  LET size == 1 + Len(live)
  IN IF Present(d) # {0} \/ gap.len < size THEN d
     ELSE ToSf([d EXCEPT !.fmt = "block", !.bests = <<>>, !.leaves[1].ents = live,
                         !.data[0].best = UseFree(@, gap, DirBlk - size, size, d.data[0].ents, DirBlk - size)])
IntoOneBlock(d) == IntoBlock(d, Live(d.leaves[1].ents), GapTo(d.data[0].ents, DirBlk, DirBlk))
LeafToBlock(d) == IntoOneBlock(TrimData(d))

\* data block db is empty and given back
DropData(d, db) ==
  LET left == Max({k \in 1 .. db - 1 : d.bests[k + 1] # NullOff} \cup {0})
  IN [d EXCEPT !.data[db] = NoBlock,
               !.bests = IF db = Len(@) - 1 THEN SubSeq(@, 1, left + 1) ELSE [@ EXCEPT ![db + 1] = NullOff]]

LeafRemoved(d, db, kept) ==
  IF d.data[db].best[1].len # Whole THEN LeafToBlock(d)
  ELSE IF kept THEN d ELSE LeafToBlock(DropData(d, db))
LeafRemovename(d, db, e, kept) ==
  LeafRemoved(BestUpdated(RemoveData(MakeStale(d, 1, db, e), db, e, DirBlk), db), db, kept)

----------------------------------------------------------------------------
(* A list of leaves, and free-space blocks of MaxBests entries *)

MaxFdb == MaxDb \div MaxBests
FreeBlocks(d) == {f \in 0 .. MaxFdb : d.free[f].nvalid # -1}
Fdb(db) == db \div MaxBests
Fdindex(db) == (db % MaxBests) + 1
FreeBest(d, db) == d.free[Fdb(db)].bests[Fdindex(db)]
MaxLeafEnts == (LeafBytes - 16) \div 8
Lasthash(ents) == IF ents = <<>> THEN 0 ELSE Last(ents).h

\* the leaves xfs_da_node_lookup_int visits for a hash
FirstLeaf(d, h) == Min({i \in DOMAIN d.leaves : Lasthash(d.leaves[i].ents) >= h} \cup {Len(d.leaves)})
LastLeaf(d, h) ==
  LET i0 == FirstLeaf(d, h)
  IN Min({i \in i0 .. Len(d.leaves) : i = Len(d.leaves) \/ Lasthash(d.leaves[i].ents) # h})

\* xfs_dir2_leafn_lookup_for_addname in leaf i: where the entry goes, and the
\* free block and block found, if any; visited in turn, a later leaf forgets the block
LookupIn(d, i, h, len) ==
  LET ents == d.leaves[i].ents
      near == {ents[k].db : k \in {j \in SameHash(ents, h) : ~IsStale(ents[j])}}
  IN NearRoom(ents, h, {db \in near : FreeBest(d, db) >= len})
LastFdb(d, i, h) ==
  LET S == {k \in SameHash(d.leaves[i].ents, h) : ~IsStale(d.leaves[i].ents[k])}
  IN IF S = {} THEN -1 ELSE Fdb(d.leaves[i].ents[Max(S)].db)
LookupForAddname(d, h, len) ==
  LET i == LastLeaf(d, h)
      found == LookupIn(d, i, h, len)
      fdbs == [k \in FirstLeaf(d, h) .. i |-> IF k = i /\ found.db # -1 THEN Fdb(found.db) ELSE LastFdb(d, k, h)]
      valid == {k \in DOMAIN fdbs : fdbs[k] # -1}
  IN [leaf |-> i, pos |-> found.pos, db |-> found.db, fdb |-> IF valid = {} THEN -1 ELSE fdbs[Max(valid)]]

\* the first data block with room in the free blocks from the given one on
RoomIn(d, f, len) ==
  {MaxBests * f + k - 1 : k \in {j \in 1 .. Max({d.free[f].nvalid, 1}) :
                                   d.free[f].bests[j] # NullOff /\ d.free[f].bests[j] >= len}}
NodeRoom(d, at, len) ==
  IF at.db # -1 THEN at.db
  ELSE Min(UNION {RoomIn(d, f, len) : f \in {g \in FreeBlocks(d) : g >= at.fdb}} \cup {MaxDb + 1})

FreeInit(d, f) == IF d.free[f].nvalid # -1 THEN d
                  ELSE [d EXCEPT !.free[f] = [bests |-> [k \in 1 .. MaxBests |-> NullOff], nvalid |-> 0, nused |-> 0]]
GrowNode(d, db, f) ==
  LET k == Fdindex(db)
      fr == d.free[f]
      was == IF k > fr.nvalid THEN NullOff ELSE fr.bests[k]
  IN [d EXCEPT !.data[db] = DataInit,
               !.free[f] = [bests |-> [fr.bests EXCEPT ![k] = Whole], nvalid |-> Max({fr.nvalid, k}),
                            nused |-> IF was = NullOff THEN fr.nused + 1 ELSE fr.nused]]
FreeUpdated(d, db) == [d EXCEPT !.free[Fdb(db)].bests[Fdindex(db)] = d.data[db].best[1].len]

NewLeafBlk(d) == Min({b \in 1 .. Len(d.leaves) + 2 : \A i \in DOMAIN d.leaves : d.leaves[i].blk # b})

\* a full leaf is split and the entry goes to one half
SplitAt(ents, pos, h) ==
  LET n == Len(ents)
      mid == n \div 2
      left == n % 2 = 0 \/ h <= ents[mid + 1].h
  IN mid - (IF left THEN 0 ELSE 1)
InLeaf(n, keep, pos) == pos < keep \/ (IF keep = n - keep THEN pos <= keep ELSE keep > n - keep)
SplitLeaves(d, i, ents, pos, e, keep) ==
  LET a == SubSeq(ents, 1, keep)
      b == SubSeq(ents, keep + 1, Len(ents))
      inleaf == InLeaf(Len(ents), keep, pos)
      Half(half, p, blk) == [blk |-> blk, ents |-> AddLeafEntry(half, p, e, FALSE)]
      new == NewLeafBlk(d)
      old == IF Len(d.leaves) = 1 THEN new + 1 ELSE d.leaves[i].blk
  IN SubSeq(d.leaves, 1, i - 1)
       \o (IF inleaf THEN <<Half(a, pos, old), [blk |-> new, ents |-> b]>>
           ELSE <<[blk |-> old, ents |-> a], Half(b, pos - keep, new)>>)
       \o SubSeq(d.leaves, i + 1, Len(d.leaves))

LeafnFull(ents) == Len(ents) = MaxLeafEnts /\ StaleCount(ents) = 0
LeafnAdd(d, i, pos, e) ==
  LET ents == d.leaves[i].ents
  IN IF LeafnFull(ents) THEN [d EXCEPT !.leaves = SplitLeaves(d, i, ents, pos, e, SplitAt(ents, pos, e.h))]
     ELSE WithEnts(d, i, AddLeafEntry(ents, pos, e, Len(ents) = MaxLeafEnts /\ StaleCount(ents) > 1))

NodeEnter(d, db, a, at) == FreeUpdated(AddData(LeafnAdd(d, at.leaf, at.pos, NewLeafEntry(d, db, a)), db, a), db)
NodeGrow(d, db, a, at) == NodeEnter(GrowNode(FreeInit(d, Fdb(db)), db, Fdb(db)), db, a, at)

\* the free-space block after data block db lost an entry, or went
FreeWithout(fr, k) ==
  LET left == Max({j \in 1 .. k - 1 : fr.bests[j] # NullOff} \cup {0})
  IN IF k = fr.nvalid THEN [fr EXCEPT !.nused = @ - 1, !.nvalid = left]
     ELSE [fr EXCEPT !.nused = @ - 1, !.bests[k] = NullOff]
DropNodeData(d, db, keptfree) ==
  LET fr == FreeWithout(d.free[Fdb(db)], Fdindex(db))
  IN [d EXCEPT !.data[db] = NoBlock, !.free[Fdb(db)] = IF fr.nused = 0 /\ ~keptfree THEN NoFree ELSE fr]

LeafnRemoved(d, db, kept, keptfree) ==
  IF d.data[db].best[1].len = Whole /\ ~kept THEN DropNodeData(d, db, keptfree) ELSE FreeUpdated(d, db)

\* a leaf with few entries is joined with a neighbour; one with none is left alone
LiveIn(d, i) == Len(Live(d.leaves[i].ents))
Toosmall(d, i) == 16 + 8 * LiveIn(d, i) <= LeafBytes \div 2 /\ LiveIn(d, i) > 0
BlkOf(d, j) == IF j \in DOMAIN d.leaves THEN d.leaves[j].blk ELSE 0
JoinOrder(d, i) == IF BlkOf(d, i + 1) < BlkOf(d, i - 1) THEN <<i + 1, i - 1>> ELSE <<i - 1, i + 1>>
JoinWith(d, i) ==
  SelectSeq(JoinOrder(d, i), LAMBDA j : j \in DOMAIN d.leaves
                               /\ LeafBytes - LeafBytes \div 4 - 8 * (LiveIn(d, i) + LiveIn(d, j)) >= 0)
Unbalance(save, drop) ==
  IF save # <<>> /\ drop # <<>> /\ (drop[1].h < save[1].h \/ Last(drop).h < Last(save).h)
  THEN drop \o save ELSE save \o drop
JoinLeaves(d, save, drop) ==
  LET ents == Unbalance(Live(d.leaves[save].ents), Live(d.leaves[drop].ents))
      joined == [d EXCEPT !.leaves[save].ents = ents]
      left == SubSeq(joined.leaves, 1, drop - 1) \o SubSeq(joined.leaves, drop + 1, Len(d.leaves))
  IN [d EXCEPT !.leaves = IF Len(left) = 1 THEN <<[left[1] EXCEPT !.blk = 0]>> ELSE left]
Join(d, i) ==
  IF Len(d.leaves) = 1 \/ ~Toosmall(d, i) \/ 16 + 8 * LiveIn(d, i) >= (LeafBytes * 37) \div 100 \/ JoinWith(d, i) = <<>> THEN d
  ELSE IF BlkOf(d, JoinWith(d, i)[1]) < BlkOf(d, i) THEN JoinLeaves(d, JoinWith(d, i)[1], i)
  ELSE JoinLeaves(d, i, JoinWith(d, i)[1])

\* trailing free-space blocks with no block go; with one free block and one leaf left it may be a leaf directory
TrimFree(d) ==
  LET used == Max({f \in FreeBlocks(d) : f = 0 \/ d.free[f].nused > 0})
  IN [d EXCEPT !.free = [f \in DOMAIN @ |-> IF f > used THEN NoFree ELSE @[f]]]
IntoLeaf(d) ==
  IF Len(d.leaves) > 1 \/ FreeBlocks(d) # {0} \/ 16 + 8 * LiveIn(d, 1) + 2 * d.free[0].nvalid + 4 > LeafBytes THEN d
  ELSE LeafToBlock([d EXCEPT !.fmt = "leaf", !.bests = SubSeq(d.free[0].bests, 1, d.free[0].nvalid), !.free[0] = NoFree,
                             !.leaves[1].ents = Live(@)])
NodeToLeaf(d) == IntoLeaf(TrimFree(d))

NodeJoined(d, i) == NodeToLeaf(Join(d, i))
NodeRemovename(d, i, db, e, kept, keptfree) ==
  NodeJoined(LeafnRemoved(RemoveData(MakeStale(d, i, db, e), db, e, DirBlk), db, kept, keptfree), i)

----------------------------------------------------------------------------
(* Operations on a directory of any format *)

NodeAddname(d, a, at, room) ==
  IF room <= MaxDb
  THEN IF a.just THEN Err(d, IF LeafnFull(d.leaves[at.leaf].ents) THEN "ENOSPC" ELSE "ok")
       ELSE IF room \notin Present(d) THEN Err(d, "EFSCORRUPTED")
       ELSE IF LeafnFull(d.leaves[at.leaf].ents) /\ ~a.total THEN Err(d, "ENOSPC")
       ELSE Ok(NodeEnter(d, room, a, at))
  ELSE IF a.just \/ ~a.total THEN Err(d, "ENOSPC")
  ELSE LET db == Min(Missing(d))
       IN IF Fdb(db) \notin FreeBlocks(d) /\ Fdb(db) # Min(0 .. MaxFdb \ FreeBlocks(d)) THEN Err(d, "EFSCORRUPTED")
          ELSE Ok(NodeGrow(d, db, a, at))
NodeAdd(d, a, at) == NodeAddname(d, a, at, NodeRoom(d, at, EntSize(a.n)))
NodeCreate(d, a) == NodeAdd(d, a, LookupForAddname(d, Hash[a.n], EntSize(a.n)))

LeafAddname(d, a, pos, plan) ==
  IF plan.full THEN IF a.just \/ ~a.total THEN Err(d, "ENOSPC") ELSE NodeCreate(LeafToNode(d), a)
  ELSE IF plan.db = -1
  THEN IF a.just \/ ~a.total THEN Err(d, "ENOSPC") ELSE Ok(LeafGrow(d, Min(Missing(d)), a, pos, plan.compact))
  ELSE IF a.just THEN Ok(d) ELSE Ok(LeafEnter(d, plan.db, a, pos, plan.compact))
LeafAdd(d, a, near) ==
  LeafAddname(d, a, near.pos, LeafPlan(d, UseBlock(d.bests, near.db, EntSize(a.n)), StaleCount(d.leaves[1].ents)))
LeafCreate(d, a) ==
  LET roomy == {db \in 0 .. Len(d.bests) - 1 : d.bests[db + 1] >= EntSize(a.n)}
  IN LeafAdd(d, a, NearRoom(d.leaves[1].ents, Hash[a.n], roomy))

BlockAddname(d, a, room) ==
  IF room.off = 0 THEN IF a.just \/ ~a.total THEN Err(d, "ENOSPC") ELSE LeafCreate(WithBests(BlockToLeaf(d)), a)
  ELSE IF a.just THEN Ok(d) ELSE Ok(BlockAdd(d, a, room))
BlockCreate(d, a) == BlockAddname(d, a, BlockRoomFor(d, a.n))

SfCreate(d, a, r) ==
  IF ~r.fits THEN IF a.just \/ ~a.total THEN Err(d, "ENOSPC") ELSE BlockCreate(SfToBlock(d), a)
  ELSE IF a.just THEN Ok(d) ELSE Ok(r.dir)

Createname(d, a) ==
  CASE d.fmt = "sf" -> SfCreate(d, a, SfAddname(d, a))
    [] d.fmt = "block" -> BlockCreate(d, a)
    [] d.fmt = "leaf" -> LeafCreate(d, a)
    [] d.fmt = "node" -> NodeCreate(d, a)

\* whether the name can be added without a reservation; no inode number is given
Canenter(d, n) == Createname(d, [n |-> n, big |-> FALSE, total |-> FALSE, just |-> TRUE]).err = "ok"

\* what a lookup finds: <<leaf, data block, entry>>, leaf and block 0 in the inode
Scanned(d, h) == FirstLeaf(d, h) .. LastLeaf(d, h)
Lookup(d, n) ==
  IF d.fmt = "sf" THEN {<<0, 0, e>> : e \in {x \in d.sf \cup Dots(d.parent) : x.n = n}}
  ELSE UNION {UNION {{<<i, l.db, e>> : e \in {x \in d.data[l.db].ents : x.off = l.off /\ x.n = n}}
                       : l \in {m \in Range(d.leaves[i].ents) : m.h = Hash[n] /\ ~IsStale(m)}}
                : i \in Scanned(d, Hash[n])}

Removename(d, f, kept, keptfree) ==
  CASE d.fmt = "sf" -> SfRemovename(d, f[3])
    [] d.fmt = "block" -> BlockRemovename(d, f[3])
    [] d.fmt = "leaf" -> LeafRemovename(d, f[2], f[3], kept)
    [] d.fmt = "node" -> NodeRemovename(d, f[1], f[2], f[3], kept, keptfree)

DataReplace(d, f, big) == [d EXCEPT !.data[f[2]].ents = (@ \ {f[3]}) \cup {[f[3] EXCEPT !.big = big]}]
SfReplace(d, f, big) ==
  IF big /\ d.i8 = 0 /\ SfBytes(d.sf, 1) > DSize THEN DataReplace(SfToBlock(d), f, big) ELSE SfReplaced(d, f[3], big)
Replace(d, f, big) == IF d.fmt = "sf" THEN SfReplace(d, f, big) ELSE DataReplace(d, f, big)

----------------------------------------------------------------------------
(* Reading in pieces: the cookie of an entry is its place in the data *)

EndCookie(d) == IF d.fmt \in {"sf", "block"} THEN DirBlk ELSE DirBlk * (MaxDb + 1)
Cookies(d) ==
  IF d.fmt = "sf" THEN {<<e.off, e.n>> : e \in d.sf \cup Dots(d.parent)}
  ELSE UNION {{<<db * DirBlk + e.off, e.n>> : e \in d.data[db].ents} : db \in Present(d)}

\* one call that returns one entry: the name, and the cookie of the next call
Getdents(d, cookie) ==
  LET E == {c \in Cookies(d) : c[1] >= cookie}
      first == CHOOSE c \in E : \A x \in E : c[1] <= x[1]
  IN IF E = {} \/ (d.fmt \in {"sf", "block"} /\ cookie >= DirBlk) THEN [n |-> -1, next |-> cookie]
     ELSE [n |-> first[2], next |-> Min({x[1] : x \in E \ {first}} \cup {EndCookie(d)})]

----------------------------------------------------------------------------
NoReader == [on |-> FALSE, cookie |-> 0, owed |-> {}, seen |-> {}, twice |-> FALSE]
EmptyDir == [fmt |-> "sf", sf |-> {}, i8 |-> 0, parent |-> FALSE, data |-> [db \in 0 .. MaxDb |-> NoBlock],
             leaves |-> <<>>, bests |-> <<>>, free |-> [f \in 0 .. MaxFdb |-> NoFree]]

DirInit ==
  /\ dir = EmptyDir /\ names = {<<DotDot, FALSE>>} /\ removes = 0 /\ failed = "ok" /\ reader = NoReader

NamesIn == {x[1] : x \in names}
Absent == LET A == Names \ NamesIn IN {n \in A : Cardinality({m \in A : m < n}) < Choice}

\* xfs_create: with blocks reserved, or without after xfs_dir_canenter said it fits
Add(n, big, total) ==
  /\ failed = "ok"
  /\ ~total => Canenter(dir, n)
  /\ \E r \in {Createname(dir, [n |-> n, big |-> big, total |-> total, just |-> FALSE])} :
       /\ dir' = IF r.err = "ok" THEN r.dir ELSE dir
       /\ names' = IF r.err = "ok" THEN names \cup {<<n, big>>} ELSE names
       /\ failed' = r.err
  /\ UNCHANGED <<removes, reader>>

\* xfs_remove; giving back a block may fail for want of space when none is reserved
RemoveName(n, kept, keptfree) ==
  /\ failed = "ok" /\ removes < MaxRemoves
  /\ \E f \in Lookup(dir, n) :
       /\ kept => dir.fmt \in {"leaf", "node"} /\ MayNotShrink(Present(dir), f[2])
                  /\ dir.data[f[2]].ents = {f[3]}
       /\ keptfree => ~kept /\ dir.fmt = "node" /\ MayNotShrink(FreeBlocks(dir), Fdb(f[2]))
                      /\ dir.data[f[2]].ents = {f[3]}
       /\ dir' = Removename(dir, f, kept, keptfree)
  /\ names' = {x \in names : x[1] # n}
  /\ removes' = removes + 1
  /\ reader' = [reader EXCEPT !.owed = @ \ {n}]
  /\ UNCHANGED failed

\* xfs_rename: the entry gets another inode number
ReplaceIno(n, big) ==
  /\ failed = "ok"
  /\ \E f \in Lookup(dir, n) : f[3].big # big /\ dir' = Replace(dir, f, big)
  /\ names' = {x \in names : x[1] # n} \cup {<<n, big>>}
  /\ UNCHANGED <<removes, failed, reader>>

OpenDir ==
  /\ Reader /\ ~reader.on /\ removes = 0
  /\ reader' = [reader EXCEPT !.on = TRUE, !.owed = NamesIn \ {DotDot}]
  /\ UNCHANGED <<dir, names, removes, failed>>

Readdir ==
  /\ reader.on
  /\ \E r \in {Getdents(dir, reader.cookie)} :
       /\ r.n # -1
       /\ reader' = [reader EXCEPT !.cookie = r.next, !.seen = @ \cup {r.n}, !.twice = @ \/ r.n \in reader.seen \cap reader.owed]
  /\ UNCHANGED <<dir, names, removes, failed>>

DirNext ==
  \/ \E n \in Absent, total \in BOOLEAN : Add(n, FALSE, total)
  \/ \E n \in Absent \cap BigNames, total \in BOOLEAN : Add(n, TRUE, total)
  \/ \E n \in Names : \E kept, keptfree \in BOOLEAN : RemoveName(n, kept, keptfree)
  \/ \E n \in BigNames, big \in BOOLEAN : ReplaceIno(n, big)
  \/ OpenDir
  \/ Readdir

DirSpec == DirInit /\ [][DirNext]_dirVars

----------------------------------------------------------------------------
\* bestfree holds the three longest free regions
BestIsExact(b, end) ==
  LET G == Gaps(b.ents, end)
      listed == {b.best[i] : i \in {j \in 1 .. 3 : b.best[j].len > 0}}
  IN /\ listed \subseteq G /\ Cardinality(listed) = Min({3, Cardinality(G)})
     /\ b.best[1].len >= b.best[2].len /\ b.best[2].len >= b.best[3].len
     /\ \A g \in G \ listed : g.len <= b.best[3].len

LeafIsSorted(ents) == \A i \in 1 .. Len(ents) - 1 : ents[i].h <= ents[i + 1].h

\* A lookup of any name finds exactly the entry that was made for it, in every
\* format and after any conversion; the summaries the additions rely on (bestfree,
\* bests, the free-space blocks, the order of the leaves) are exact, so that nothing
\* is reported corrupt (xfs_dir_createname, xfs_dir_removename, xfs_dir_replace).
DirectoryIsExact ==
  /\ failed # "EFSCORRUPTED"
  /\ \A n \in Names \cup {DotDot} : {<<n, f[3].big>> : f \in Lookup(dir, n)} = {x \in names : x[1] = n}
  /\ dir.fmt = "sf" => dir.i8 = BigCount(dir.sf \cup Dots(dir.parent)) /\ SfBytes(dir.sf, dir.i8) <= DSize
  /\ dir.fmt = "block" => BestIsExact(dir.data[0], BlockEnd(dir))
  /\ dir.fmt \in {"leaf", "node"} => \A db \in Present(dir) : BestIsExact(dir.data[db], DirBlk)
  /\ dir.fmt = "leaf" => \A db \in 0 .. MaxDb :
       IF db \in Present(dir) THEN dir.bests[db + 1] = dir.data[db].best[1].len
       ELSE db < Len(dir.bests) => dir.bests[db + 1] = NullOff
  /\ dir.fmt = "node" => \A f \in FreeBlocks(dir) :
       /\ dir.free[f].nused = Cardinality({db \in Present(dir) : Fdb(db) = f})
       /\ \A k \in 1 .. dir.free[f].nvalid :
            LET db == f * MaxBests + k - 1
            IN dir.free[f].bests[k] = IF db \in Present(dir) THEN dir.data[db].best[1].len ELSE NullOff
  /\ \A i \in DOMAIN dir.leaves : LeafIsSorted(dir.leaves[i].ents)
  /\ \A i \in 1 .. Len(dir.leaves) - 1 : Lasthash(dir.leaves[i].ents) <= dir.leaves[i + 1].ents[1].h

\* A reader returns every name that is there all the time it reads, and returns it
\* once, although the directory changes its format under it (xfs_readdir).
ReaddirIsComplete ==
  /\ ~reader.twice
  /\ reader.on /\ Getdents(dir, reader.cookie).n = -1 => reader.owed \subseteq reader.seen

\* "See if this entry can be added to the directory without allocating space"
\* (xfs_dir2.c:457): an addition without blocks reserved that xfs_dir_canenter
\* allowed does not run out of space.
EnterableNameIsEntered == failed # "ENOSPC"

\* "If the block is empty, we'll simply delete it, no need to coalesce it with a
\* sibling block" (xfs_dir2_node.c:1224): no leaf of a node directory is empty.
EmptyLeafIsDeleted == dir.fmt = "node" => \A i \in DOMAIN dir.leaves : Len(dir.leaves) > 1 => LiveIn(dir, i) > 0
=============================================================================
