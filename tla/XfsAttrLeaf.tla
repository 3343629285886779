---------------------------- MODULE XfsAttrLeaf ----------------------------
(***************************************************************************)
(* How extended attributes are laid out (fs/xfs/xfs_attr_leaf.c): inline   *)
(* in the inode beside the data fork, in one leaf block, or in several     *)
(* leaves below a node.  A leaf has a table of entries that grows up, the  *)
(* names and values that grow down from the end of the block, and a map of *)
(* only three free regions; whatever the map cannot hold is found again by *)
(* compacting the block.                                                   *)
(*                                                                         *)
(* Sizes are in words of four bytes, the alignment of names; a table entry *)
(* takes two.  An attribute is a name and the size of its entry, the value *)
(* being part of it; values in blocks of their own are in XfsAttr.  Leaves *)
(* are in the order of their links; b is the block of a leaf, and the node *)
(* above them is in XfsDaBtree.  Entry indices count from 0, as in the     *)
(* code: entry i is ents[i + 1].  The index and block of the insertion     *)
(* (i, b) and of the entry it replaces (i2, b2) are those of xfs_da_args.  *)
(***************************************************************************)
EXTENDS Integers, Sequences, FiniteSets, FiniteSetsExt, SequencesExt

CONSTANTS
  Attrs,       \* the names, numbers in the order of their hashes
  AttrHash,    \* their hash values, positive
  Sizes,       \* the sizes a name with its value can have
  Blk,         \* words of a block
  Hdr,         \* words of a leaf's header
  SfEntMax,    \* the size from which an attribute is not kept inline
  Litino,      \* words of the literal area of an inode
  Attr2,       \* whether the attribute fork may move
  DataForks,   \* data forks: [format, words]
  MaxOps,      \* bound: operations
  MaxLeaves    \* bound: leaves of a fork

VARIABLES
  fork,        \* the attribute fork
  want,        \* the attributes that were set: name to size, 0 for none
  todo,        \* the operation in progress: the transaction to come next
  ops          \* how many operations were made

attrVars == <<fork, want, todo, ops>>

EntrySize == 2              \* sizeof(xfs_attr_leaf_entry_t)
SfHdr == 1
Width == 16384              \* a 16-bit count of bytes, in words
BmdrMin == 2                \* XFS_BMDR_SPACE_CALC(MINDBTPTRS), and of MINABTPTRS
MagicPct == (Blk * 37) \div 100
Maps == 1..3
NoMap == [base |-> 0, size |-> 0]

Total(S, F(_)) == FoldSet(LAMBDA x, acc : acc + F(x), 0, S)
Biggest(a, b) == IF a < b THEN b ELSE a
RoundUp(w) == (w + 1) \div 2      \* words to units of 8 bytes

----------------------------------------------------------------------------
(* One leaf *)

LeafCreate(b) ==
  [b |-> b, ents |-> <<>>, firstused |-> Blk, used |-> 0, holes |-> FALSE,
   map |-> <<[base |-> Hdr, size |-> Blk - Hdr], NoMap, NoMap>>]

TableEnd(l) == Hdr + EntrySize * Len(l.ents)
Lasthash(l) == IF l.ents = <<>> THEN 0 ELSE Last(l.ents).h

\* the index of name n in a leaf, or the index to insert it at
LookupInt(l, n, inc) ==
  LET h == AttrHash[n]
      found == {i \in DOMAIN l.ents : l.ents[i].n = n /\ l.ents[i].inc = inc}
  IN  [found |-> found # {},
       i |-> IF found # {} THEN Min(found) - 1
             ELSE Cardinality({i \in DOMAIN l.ents : l.ents[i].h <= h})]

\* the region that begins at the end of the table when the table grows
MoveTable(map, end, by) ==
  LET Cut(r) == IF r.base = end
                THEN [base |-> end + by, size |-> (r.size - by) % Width] ELSE r
  IN  <<Cut(map[1]), Cut(map[2]), Cut(map[3])>>

\* the name goes to the end of free region m; whatever region begins where
\* the table ended gives the new entry its room
AddWork(l, a, m) ==
  LET idx == l.map[m].base + l.map[m].size - a.sz
      e == [n |-> a.n, h |-> AttrHash[a.n], idx |-> idx, sz |-> a.sz, inc |-> a.ren]
  IN  [l EXCEPT !.ents = InsertAt(@, a.i + 1, e),
                !.firstused = IF idx < @ THEN idx ELSE @,
                !.used = @ + a.sz,
                !.map = MoveTable([@ EXCEPT ![m].size = @ - a.sz], TableEnd(l), EntrySize)]

\* the entries of a sequence laid out downward from offset top
Laid(ents, top) ==
  FoldLeft(LAMBDA done, e :
             Append(done, [e EXCEPT !.idx = (IF done = <<>> THEN top ELSE Last(done).idx) - e.sz]),
           <<>>, ents)

\* moves count entries of leaf s to index to of leaf d.  The map of d is made
\* new and that of s is left: its names' room is only found by compacting it.
\* The entries moved are the first or the last ones of s.
Moveents(s, from, d, to, count) ==
  IF count = 0 THEN [s |-> s, d |-> d]
  ELSE LET moved == Laid(SubSeq(s.ents, from + 1, from + count), d.firstused)
           size == Total(1..count, LAMBDA j : moved[j].sz)
           ents == SubSeq(d.ents, 1, to) \o moved \o SubSeq(d.ents, to + 1, Len(d.ents))
       IN  [s |-> [s EXCEPT !.ents = SubSeq(@, 1, from) \o SubSeq(@, from + count + 1, Len(@)),
                            !.used = @ - size, !.holes = TRUE],
            d |-> [d EXCEPT !.ents = ents, !.firstused = @ - size, !.used = @ + size,
                            !.map = <<[base |-> Hdr + EntrySize * Len(ents),
                                       size |-> d.firstused - size - Hdr
                                                - EntrySize * Len(ents)],
                                      NoMap, NoMap>>]]

Compact(l) == Moveents(l, 0, LeafCreate(l.b), 0, Len(l.ents)).d

\* the last of the free regions that has room for a name, with its entry when
\* it lies below the names; none while the table would run into the names
Fitting(l, sz) ==
  {m \in Maps : /\ TableEnd(l) + EntrySize <= l.firstused
                /\ l.map[m].size # 0
                /\ l.map[m].size >= sz + (IF l.map[m].base < l.firstused
                                          THEN EntrySize ELSE 0)}

AddCompacted(l, a) ==
  IF l.map[1].size < a.sz + EntrySize THEN [err |-> TRUE, l |-> l]
  ELSE [err |-> FALSE, l |-> AddWork(l, a, 1)]

LeafAdd(l, a) ==
  IF Fitting(l, a.sz) # {}
  THEN [err |-> FALSE, l |-> AddWork(l, a, Max(Fitting(l, a.sz)))]
  ELSE IF ~l.holes /\ Total(Maps, LAMBDA m : l.map[m].size) < a.sz
  THEN [err |-> TRUE, l |-> l]
  ELSE AddCompacted(Compact(l), a)

\* the three free regions once entry e is gone: joined to the regions before
\* and after it, or put in the place of a smaller one
FreeEntry(map, e) ==
  LET touching == {m \in Maps : map[m].base + map[m].size = e.idx}
      after == {m \in Maps \ touching : map[m].base = e.idx + e.sz}
      other == {m \in Maps \ (touching \cup after) : map[m].size < map[1].size}
      small == IF other = {} THEN 3
               ELSE Min({m \in other : \A k \in other : map[m].size <= map[k].size})
  IN  CASE touching # {} /\ after # {} ->
             [map EXCEPT ![Max(touching)].size = @ + e.sz + map[Max(after)].size,
                         ![Max(after)] = NoMap]
        [] touching # {} /\ after = {} -> [map EXCEPT ![Max(touching)].size = @ + e.sz]
        [] touching = {} /\ after # {} ->
             [map EXCEPT ![Max(after)] = [base |-> e.idx, size |-> @.size + e.sz]]
        [] OTHER -> IF map[small].size < e.sz
                    THEN [map EXCEPT ![small] = [base |-> e.idx, size |-> e.sz]]
                    ELSE map

\* takes entry i away: the table shrinks into the free region that follows it
LeafRemove(l, i) ==
  LET e == l.ents[i + 1]
      rest == RemoveAt(l.ents, i + 1)
      lowest == e.idx = l.firstused
  IN  [l EXCEPT !.ents = rest,
                !.used = @ - e.sz,
                !.map = FreeEntry(MoveTable(l.map, TableEnd(l), -EntrySize), e),
                !.firstused = IF lowest
                              THEN Min({rest[j].idx : j \in DOMAIN rest} \cup {Blk}) ELSE @,
                !.holes = @ \/ ~lowest]

Bytes(l) == Hdr + EntrySize * Len(l.ents) + l.used

----------------------------------------------------------------------------
(* Several leaves *)

At(ls, b) == CHOOSE p \in DOMAIN ls : ls[p].b = b

\* from the leaf of the hash on, while the name may still be in the next leaf
RECURSIVE LookupFrom(_, _, _, _)
LookupFrom(ls, p, n, inc) ==
  LET r == LookupInt(ls[p], n, inc)
  IN  IF ~r.found /\ Lasthash(ls[p]) = AttrHash[n] /\ p < Len(ls)
      THEN LookupFrom(ls, p + 1, n, inc)
      ELSE [found |-> r.found, i |-> r.i, p |-> p]

Lookup(ls, n, inc) ==
  LookupFrom(ls, Min({p \in DOMAIN ls : Lasthash(ls[p]) >= AttrHash[n]} \cup {Len(ls)}),
             n, inc)

\* how many entries of a full leaf stay when it is split to insert entry a,
\* and whether a stays with them: as near to half of the bytes as can be
RECURSIVE Balance(_, _, _, _, _, _)
Balance(l, a, half, count, total, delta) ==
  LET Off(t) == IF half < t THEN t - half ELSE half - t
      own == IF count = a.i THEN total + EntrySize + a.sz ELSE total
      next == own + EntrySize + l.ents[count + 1].sz
      delta1 == IF count = a.i THEN Off(own) ELSE delta
  IN  IF count = Len(l.ents) THEN [count |-> count, found |-> a.i < count]
      ELSE IF count = a.i /\ Off(own) > delta THEN [count |-> count, found |-> FALSE]
      ELSE IF Off(next) > delta1 THEN [count |-> count, found |-> a.i <= count]
      ELSE Balance(l, a, half, count + 1, next, Off(next))

FigureBalance(l, a) ==
  Balance(l, a, (EntrySize * (Len(l.ents) + 1) + l.used + a.sz) \div 2, 0, 0, Blk)

MutRebalanced(l1, l2, a, found) ==
  CASE a.i > Len(l1.ents) ->
         [a EXCEPT !.i = a.i - Len(l1.ents), !.i2 = a.i - Len(l1.ents), !.b = l2.b, !.b2 = l2.b]
    [] a.i = Len(l1.ents) -> [a EXCEPT !.i = 0, !.i2 = 0, !.b = l2.b, !.b2 = l2.b]
    [] OTHER -> [a EXCEPT !.i2 = a.i, !.b = l1.b, !.b2 = l1.b]

\* where the insertion and the entry it replaces are after the move
Rebalanced(l1, l2, a, found) ==
  CASE a.i > Len(l1.ents) ->
         [a EXCEPT !.i = a.i - Len(l1.ents), !.i2 = a.i - Len(l1.ents), !.b = l2.b, !.b2 = l2.b]
    [] a.i = Len(l1.ents) /\ found -> [a EXCEPT !.b = l1.b, !.i2 = 0, !.b2 = l2.b]
    [] a.i = Len(l1.ents) /\ ~found -> [a EXCEPT !.i = 0, !.i2 = 0, !.b = l2.b, !.b2 = l2.b]
    [] OTHER -> [a EXCEPT !.i2 = a.i, !.b = l1.b, !.b2 = l1.b]

\* the second leaf is new and empty, so entries only move to it
Rebalance(l, new, a, bal) ==
  LET r == Moveents(l, bal.count, new, 0, Len(l.ents) - bal.count)
  IN  [l1 |-> r.s, l2 |-> r.d, found |-> bal.found, a |-> Rebalanced(r.s, r.d, a, bal.found)]

\* blocks are taken at the first unused offset of the fork; 0 is the root
GrowInode(ls) == Min({b \in 1..(Len(ls) + 1) : \A p \in DOMAIN ls : ls[p].b # b})

Added(ls, p, a) ==
  LET r == LeafAdd(ls[p], a)
  IN  [err |-> r.err, p |-> p, ls |-> [ls EXCEPT ![p] = r.l],
       a |-> IF ~r.err /\ a.ren /\ a.b2 = a.b /\ a.i2 <= a.i
             THEN [a EXCEPT !.i2 = @ + 1] ELSE a]

LeafSplit(ls, p, a) ==
  LET r == Rebalance(ls[p], LeafCreate(GrowInode(ls)), a, FigureBalance(ls[p], a))
  IN  Added(InsertAt([ls EXCEPT ![p] = r.l1], p + 1, r.l2), IF r.found THEN p ELSE p + 1, r.a)

Order(l1, l2) ==
  /\ l1.ents # <<>> /\ l2.ents # <<>>
  /\ \/ l2.ents[1].h < l1.ents[1].h
     \/ Lasthash(l2) < Lasthash(l1)

\* the entries of leaf drop join those of leaf save, which is compacted when
\* it has holes
Unbalance(drop, save) ==
  LET first == IF Order(save, drop) THEN drop ELSE save
      second == IF Order(save, drop) THEN save ELSE drop
      Half(d, s) == Moveents(s, 0, d, Len(d.ents), Len(s.ents)).d
      at == IF Order(save, drop) THEN 0 ELSE Len(save.ents)
  IN  IF ~save.holes THEN Moveents(drop, 0, save, at, Len(drop.ents)).d
      ELSE Half(Half(LeafCreate(save.b), first), second)

Forw(ls, p) == IF p < Len(ls) THEN ls[p + 1].b ELSE 0
Back(ls, p) == IF p > 1 THEN ls[p - 1].b ELSE 0

\* the neighbours a leaf that is half empty can be joined to, the one of the
\* lower block first
Toosmall(ls, p) ==
  LET near == IF Forw(ls, p) < Back(ls, p) THEN <<p + 1, p - 1>> ELSE <<p - 1, p + 1>>
      Fits(q) == Blk - (Blk \div 4) - ls[p].used - ls[q].used
                 - EntrySize * (Len(ls[p].ents) + Len(ls[q].ents)) - Hdr >= 0
  IN  SelectSeq(near, LAMBDA q : q \in DOMAIN ls /\ Fits(q))

\* joins leaf p to a neighbour, keeping the block of the lower number, or
\* deletes it when it is empty
Joined(ls, p, q) ==
  LET first == IF p < q THEN p ELSE q
      merged == IF ls[q].b < ls[p].b THEN Unbalance(ls[p], ls[q]) ELSE Unbalance(ls[q], ls[p])
  IN  RemoveAt([ls EXCEPT ![first] = merged], first + 1)

Join(ls, p) ==
  CASE Bytes(ls[p]) > Blk \div 2 \/ Len(ls) = 1 -> ls
    [] ls[p].ents = <<>> /\ Len(ls) > 1 -> RemoveAt(ls, p)
    [] OTHER -> LET near == Toosmall(ls, p) IN IF near = <<>> THEN ls ELSE Joined(ls, p, near[1])

----------------------------------------------------------------------------
(* The literal area of the inode, shared with the data fork *)

\* the offset of the attribute fork, in units of 8 bytes, at which it has
\* room for so many words; 0 for none
Bytesfit(f, words) ==
  LET offset == (Litino - words) \div 2
      minoff == RoundUp(Biggest(f.dwords, BmdrMin))
      maxoff == (Litino - BmdrMin) \div 2
  IN  CASE f.dformat = "DEV" -> IF offset >= 1 THEN 1 ELSE 0
        [] f.dformat # "DEV" /\ ~Attr2 ->
             IF words <= Litino - 2 * f.forkoff THEN f.forkoff ELSE 0
        [] f.dformat = "BTREE" /\ Attr2 /\ f.forkoff # 0 ->
             IF offset < f.forkoff THEN 0 ELSE f.forkoff
        [] OTHER -> IF offset >= maxoff THEN maxoff ELSE IF offset >= minoff THEN offset ELSE 0

\* a data fork that does not fit before the new fork moves out of the inode
AddAttrfork(f, words) ==
  LET big == IF f.dformat = "EXTENTS" /\ f.dwords > Litino \div 2
             THEN [f EXCEPT !.dwords = BmdrMin] ELSE f
      fit == Bytesfit([big EXCEPT !.forkoff = IF Attr2 THEN 0 ELSE Litino], words)
      off == IF f.dformat = "DEV" THEN 1 ELSE IF fit = 0 THEN Litino \div 4 ELSE fit
  IN  [f EXCEPT !.forkoff = off,
                !.dwords = IF @ > 2 * off THEN BmdrMin ELSE @,
                !.dformat = IF f.dwords > 2 * off
                            THEN (IF @ = "LOCAL" THEN "EXTENTS" ELSE "BTREE") ELSE @]

SfWords(sf) == SfHdr + Total(DOMAIN sf, LAMBDA j : sf[j].sz)

\* the fork goes when its last attribute does
DestroyFork(f) == [f EXCEPT !.form = "none", !.sf = <<>>, !.leaves = <<>>, !.forkoff = 0]

SfRemove(f, n, adding) ==
  LET sf == SelectSeq(f.sf, LAMBDA e : e.n # n)
  IN  IF sf = <<>> /\ ~adding /\ Attr2 /\ f.dformat # "BTREE" THEN DestroyFork(f)
      ELSE [f EXCEPT !.sf = sf, !.forkoff = Bytesfit(f, SfWords(sf))]

SfToLeaf(f) ==
  LET Put(e, l) == LeafAdd(l, [n |-> e.n, sz |-> e.sz, ren |-> FALSE,
                               i |-> LookupInt(l, e.n, FALSE).i]).l
  IN  [f EXCEPT !.form = "leaf", !.sf = <<>>,
                !.leaves = <<FoldLeft(LAMBDA l, e : Put(e, l), LeafCreate(0), f.sf)>>]

\* back into the inode when the only leaf's attributes fit there
LeafToSf(f) ==
  LET ents == SelectSeq(f.leaves[1].ents, LAMBDA e : ~e.inc)
      sf == [j \in DOMAIN ents |-> [n |-> ents[j].n, sz |-> ents[j].sz]]
      off == Bytesfit(f, SfWords(sf))
  IN  IF \E j \in DOMAIN sf : sf[j].sz >= SfEntMax THEN f
      ELSE IF sf = <<>> /\ Attr2 /\ f.dformat # "BTREE" THEN DestroyFork(f)
      ELSE IF off = 0 THEN f
      ELSE [f EXCEPT !.form = "sf", !.sf = sf, !.leaves = <<>>, !.forkoff = off]

----------------------------------------------------------------------------
(* Setting and removing an attribute, one action for each transaction *)

Idle == [step |-> "idle"]
Do(step, a) == [step |-> step, a |-> a]

Args(n, sz, r, b) == [n |-> n, sz |-> sz, i |-> r.i, b |-> b, ren |-> r.found,
                      i2 |-> r.i, b2 |-> b]

\* the attribute fork is made for the first attribute; what fits is put inline
SfAddname(f, n, sz) ==
  LET off == Bytesfit(f, SfWords(f.sf) + sz)
  IN  IF sz >= SfEntMax \/ off = 0 THEN SfToLeaf(f)
      ELSE [f EXCEPT !.sf = Append(@, [n |-> n, sz |-> sz]), !.forkoff = off]

SetSf(f, n, sz) ==
  LET sf == [f EXCEPT !.form = "sf"]
  IN  SfAddname(IF \E j \in DOMAIN f.sf : f.sf[j].n = n THEN SfRemove(sf, n, TRUE) ELSE sf,
                n, sz)

AttrSet(n, sz) ==
  /\ todo.step = "idle" /\ ops < MaxOps
  /\ ops' = ops + 1
  /\ want' = [want EXCEPT ![n] = sz]
  /\ fork' = IF fork.form \in {"none", "sf"}
             THEN SetSf(IF fork.forkoff = 0 THEN AddAttrfork(fork, SfHdr + sz) ELSE fork, n, sz)
             ELSE fork
  /\ todo' = IF fork'.form = "sf" THEN Idle ELSE Do("add", [n |-> n, sz |-> sz])

\* the outcome of trying to add: a split, or the replaced entry to take away
Tried(r) ==
  /\ Len(r.ls) <= MaxLeaves
  /\ fork' = [fork EXCEPT !.leaves = r.ls]
  /\ todo' = CASE r.err -> [step |-> IF todo.step = "resplit" THEN "failed"
                                     ELSE IF todo.step = "split" THEN "resplit" ELSE "split",
                            a |-> r.a, p |-> r.p]
               [] ~r.err /\ r.a.ren -> Do("flip", r.a)
               [] ~r.err /\ ~r.a.ren -> Idle

\* a full leaf in block 0 is first moved below a node
LeafAddname ==
  /\ todo.step = "add" /\ fork.form = "leaf"
  /\ \E r \in {Added(fork.leaves, 1, Args(todo.a.n, todo.a.sz,
                                          LookupInt(fork.leaves[1], todo.a.n, FALSE), 0))} :
       IF r.err
       THEN /\ fork' = [fork EXCEPT !.form = "node", !.leaves = <<[r.ls[1] EXCEPT !.b = 1]>>]
            /\ UNCHANGED todo
       ELSE Tried(r)
  /\ UNCHANGED <<want, ops>>

NodeAddname ==
  /\ todo.step = "add" /\ fork.form = "node"
  /\ \E r \in {Lookup(fork.leaves, todo.a.n, FALSE)} :
       Tried(Added(fork.leaves, r.p, Args(todo.a.n, todo.a.sz, r, fork.leaves[r.p].b)))
  /\ UNCHANGED <<want, ops>>

\* a split that leaves no room for the entry is followed by a second one
NodeSplit ==
  /\ todo.step \in {"split", "resplit"}
  /\ \E r \in {LeafSplit(fork.leaves, todo.p, todo.a)} : Tried(r)
  /\ UNCHANGED <<want, ops>>

\* the new entry becomes visible and the one it replaces invisible
Flipflags ==
  /\ todo.step = "flip"
  /\ LET Flag(t, b, i, inc) == [t EXCEPT ![At(t, b)].ents[i + 1].inc = inc]
         ls == Flag(fork.leaves, todo.a.b, todo.a.i, FALSE)
     IN  fork' = [fork EXCEPT !.leaves = Flag(ls, todo.a.b2, todo.a.i2, TRUE)]
  /\ todo' = Do("remove", [todo.a EXCEPT !.i = todo.a.i2])
  /\ UNCHANGED <<want, ops>>

AttrRemove(n) ==
  /\ todo.step = "idle" /\ ops < MaxOps /\ want[n] # 0
  /\ ops' = ops + 1
  /\ want' = [want EXCEPT ![n] = 0]
  /\ IF fork.form = "sf"
     THEN fork' = SfRemove(fork, n, FALSE) /\ UNCHANGED todo
     ELSE /\ todo' = Do("remove", [n |-> n, ren |-> FALSE,
                                   i |-> LookupInt(fork.leaves[1], n, FALSE).i])
          /\ UNCHANGED fork

LeafRemovename ==
  /\ todo.step = "remove" /\ fork.form = "leaf"
  /\ fork' = [fork EXCEPT !.leaves = <<LeafRemove(fork.leaves[1], todo.a.i)>>]
  /\ todo' = Do("inline", todo.a)
  /\ UNCHANGED <<want, ops>>

\* the replaced entry is looked up again, as the invisible one
NodeRemovename ==
  /\ todo.step = "remove" /\ fork.form = "node"
  /\ \E r \in {Lookup(fork.leaves, todo.a.n, todo.a.ren)} :
       \E l \in {LeafRemove(fork.leaves[r.p], r.i)} :
         /\ fork' = [fork EXCEPT !.leaves[r.p] = l]
         /\ todo' = IF todo.a.ren \/ Bytes(l) < MagicPct
                    THEN [step |-> "join", a |-> todo.a, p |-> r.p] ELSE Idle
  /\ UNCHANGED <<want, ops>>

\* a tree of a single leaf becomes that leaf, at block 0
NodeJoin ==
  /\ todo.step = "join"
  /\ \E ls \in {Join(fork.leaves, todo.p)} :
       /\ fork' = IF Len(ls) = 1
                  THEN [fork EXCEPT !.form = "leaf", !.leaves = <<[ls[1] EXCEPT !.b = 0]>>]
                  ELSE [fork EXCEPT !.leaves = ls]
       /\ todo' = IF Len(ls) = 1 /\ ~todo.a.ren THEN Do("inline", todo.a) ELSE Idle
  /\ UNCHANGED <<want, ops>>

Inline ==
  /\ todo.step = "inline"
  /\ fork' = LeafToSf(fork)
  /\ todo' = Idle
  /\ UNCHANGED <<want, ops>>

AttrInit ==
  /\ \E d \in DataForks :
       fork = [form |-> "none", sf |-> <<>>, leaves |-> <<>>, forkoff |-> 0,
               dformat |-> d.format, dwords |-> d.words]
  /\ want = [n \in Attrs |-> 0]
  /\ todo = Idle
  /\ ops = 0

AttrNext == \/ \E n \in Attrs, sz \in Sizes : AttrSet(n, sz)
            \/ \E n \in Attrs : AttrRemove(n)
            \/ LeafAddname \/ NodeAddname \/ NodeSplit \/ Flipflags
            \/ LeafRemovename \/ NodeRemovename \/ NodeJoin \/ Inline

AttrSpec == AttrInit /\ [][AttrNext]_attrVars

----------------------------------------------------------------------------
(* Properties *)

\* the attributes that can be seen
Held(f) == IF f.form = "sf" THEN {<<f.sf[j].n, f.sf[j].sz>> : j \in DOMAIN f.sf}
           ELSE UNION {{<<l.ents[i].n, l.ents[i].sz>> : i \in {k \in DOMAIN l.ents : ~l.ents[k].inc}} :
                         l \in {f.leaves[p] : p \in DOMAIN f.leaves}}

\* every claim to a word of a leaf: by the table, a name or a free region
Claims(l) ==
  LET Words(from, size) == from..(from + size - 1)
  IN  {<<"table", 0, w>> : w \in Words(0, TableEnd(l))}
      \cup UNION {{<<"name", i, w>> : w \in Words(l.ents[i].idx, l.ents[i].sz)} :
                    i \in DOMAIN l.ents}
      \cup UNION {{<<"free", m, w>> : w \in Words(l.map[m].base, l.map[m].size)} : m \in Maps}

LeafIsSound(l) ==
  /\ \A m \in Maps : l.map[m].size < Blk
  /\ \E C \in {Claims(l)} : /\ Cardinality(C) = Cardinality({c[3] : c \in C})
                            /\ \A c \in C : c[3] \in 0..(Blk - 1)
  /\ \A i \in DOMAIN l.ents : /\ l.ents[i].idx >= l.firstused
                              /\ i > 1 => l.ents[i - 1].h <= l.ents[i].h
  /\ l.used = Total(DOMAIN l.ents, LAMBDA i : l.ents[i].sz)

\* Every attribute that was set can be found where its hash leads, once; no
\* name and no free region of a leaf overlaps another or the table of
\* entries; and the attribute fork and the data fork share the inode without
\* overlapping.
AttributesAreExact ==
  /\ todo.step # "failed"
  /\ todo.step = "idle" =>
       /\ Held(fork) = {<<n, want[n]>> : n \in {m \in Attrs : want[m] # 0}}
       /\ fork.form \in {"leaf", "node"} =>
            \A n \in Attrs : /\ Lookup(fork.leaves, n, FALSE).found = (want[n] # 0)
                             /\ ~Lookup(fork.leaves, n, TRUE).found
  /\ \A p \in DOMAIN fork.leaves : LeafIsSound(fork.leaves[p])
  /\ fork.forkoff # 0 => fork.dwords <= 2 * fork.forkoff
  /\ fork.form = "sf" => SfWords(fork.sf) <= Litino - 2 * fork.forkoff
=============================================================================
