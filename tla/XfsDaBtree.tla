---------------------------- MODULE XfsDaBtree ----------------------------
(***************************************************************************)
(* The btree of hash values above the leaves of a large directory or a     *)
(* large attribute fork (fs/xfs/xfs_da_btree.c): lookup along a path,      *)
(* splitting up the path, joining along a path and an alternate path, and  *)
(* moving the last block into the place of a freed one when the filesystem *)
(* has no block left to record the hole.                                   *)
(*                                                                         *)
(* A block is a level, a sequence of entries and its two neighbours.  The  *)
(* entries of a node are [h, b], those of a leaf [h, n], n the name; how a *)
(* leaf is divided when it is split is left open (XfsDir2, XfsAttr).  A    *)
(* path is a sequence of [b, i] from the root, at block 0, to a leaf.      *)
(* Indices count from 1.                                                   *)
(***************************************************************************)
EXTENDS Integers, Sequences, FiniteSets, FiniteSetsExt, SequencesExt

CONSTANTS
  Kind,       \* "dir" or "attr"
  DaNames,    \* the names, numbers from 1
  DaHash,     \* their hash values, positive
  LeafMax,    \* entries of a leaf
  NodeMax,    \* entries of a node (node_ents)
  MaxBlk,     \* bound: the highest block of the fork
  Full,       \* whether removals run without a block reserved
  AnyMove     \* whether a block may be moved whatever the path and the level

VARIABLES
  tree,       \* the blocks of the fork
  mapped,     \* the blocks that are mapped
  present,    \* the names entered and not removed
  entered,    \* how many names were entered: each is entered once, in order
  result      \* what the last operation returned

daVars == <<tree, mapped, present, entered, result>>

Stale == 0
Null == [lev |-> -1, ents |-> <<>>, forw |-> 0, back |-> 0]
Leaf(ents) == [Null EXCEPT !.lev = 0, !.ents = ents]

Lasthash(blk) == IF blk.ents = <<>> THEN 0 ELSE Last(blk.ents).h
LiveCount(blk) == Cardinality({i \in DOMAIN blk.ents : blk.ents[i].n # Stale})

----------------------------------------------------------------------------
(* Paths *)

\* the first entry whose hash is not below h, the last one if there is none
Probe(blk, h) == Min({i \in DOMAIN blk.ents : blk.ents[i].h >= h} \cup {Len(blk.ents)})

First == -1
Final == -2
Pick(blk, to) == CASE to = First -> 1 [] to = Final -> Len(blk.ents) [] OTHER -> Probe(blk, to)

\* the path below block b to its first leaf, its last leaf or the leaf of a hash
RECURSIVE Descend(_, _, _)
Descend(t, b, to) ==
  IF t[b].lev = 0 THEN <<[b |-> b, i |-> 1]>>
  ELSE LET i == Pick(t[b], to) IN <<[b |-> b, i |-> i]>> \o Descend(t, t[b].ents[i].b, to)

CanShift(t, p, forward) == IF forward THEN p.i < Len(t[p.b].ents) ELSE p.i > 1

\* xfs_da_path_shift: the path to the next or previous leaf, << >> at the end of the tree
ShiftAt(t, path, l, i, forward) ==
  SubSeq(path, 1, l - 1) \o <<[path[l] EXCEPT !.i = i]>>
    \o Descend(t, t[path[l].b].ents[i].b, IF forward THEN First ELSE Final)
PathShift(t, path, forward) ==
  LET S == {l \in 1 .. Len(path) - 1 : CanShift(t, path[l], forward)}
  IN IF S = {} THEN <<>>
     ELSE LET l == Max(S) IN SubSeq(ShiftAt(t, path, l, IF forward THEN path[l].i + 1 ELSE path[l].i - 1, forward), 1, Len(path))

\* xfs_da_node_lookup_int: on to the next leaf while the last hash of the leaf is the one looked for
RECURSIVE LookupFrom(_, _, _)
LookupFrom(t, path, n) ==
  LET leaf == t[Last(path).b]
      next == PathShift(t, path, TRUE)
  IN IF (\A i \in DOMAIN leaf.ents : leaf.ents[i].n # n) /\ Lasthash(leaf) = DaHash[n] /\ next # <<>>
     THEN LookupFrom(t, next, n) ELSE path
LookupInt(t, n) == LookupFrom(t, Descend(t, 0, DaHash[n]), n)

Found(t, path, n) == {i \in DOMAIN t[Last(path).b].ents : t[Last(path).b].ents[i].n = n}

\* the hash of the last entry of path[l] goes up the path until it is there already
RECURSIVE FixUp(_, _, _, _)
FixUp(t, path, l, hash) ==
  IF l = 0 \/ t[path[l].b].ents[path[l].i].h = hash THEN t
  ELSE LET u == [t EXCEPT ![path[l].b].ents[path[l].i].h = hash] IN FixUp(u, path, l - 1, Lasthash(u[path[l].b]))
\* the hash values above are left as they are

Fixhashpath(t, path, l) ==
  IF t[path[l].b].ents = <<>> THEN t ELSE FixUp(t, path, l - 1, Lasthash(t[path[l].b]))

----------------------------------------------------------------------------
(* Links between the blocks of a level *)

\* whether block new comes before block old
Order(old, new) ==
  old.ents # <<>> /\ new.ents # <<>> /\ (new.ents[1].h < old.ents[1].h \/ Lasthash(new) < Lasthash(old))
SetForw(t, b, f) == IF b = 0 THEN t ELSE [t EXCEPT ![b].forw = f]
SetBack(t, b, f) == IF b = 0 THEN t ELSE [t EXCEPT ![b].back = f]
BlkLink(t, old, new) ==
  IF Order(t[old], t[new])
  THEN [SetForw(t, t[old].back, new) EXCEPT ![new].forw = old, ![new].back = t[old].back, ![old].back = new]
  ELSE [SetBack(t, t[old].forw, new) EXCEPT ![new].forw = t[old].forw, ![new].back = old, ![old].forw = new]
BlkUnlink(t, drop, save) ==
  IF t[save].back = drop THEN [SetForw(t, t[drop].back, save) EXCEPT ![save].back = t[drop].back]
  ELSE [SetBack(t, t[drop].forw, save) EXCEPT ![save].forw = t[drop].forw]

----------------------------------------------------------------------------
(* Splitting.  s is the state of an operation: the blocks t, the mapped     *)
(* ones m, the path, the block `add' to be entered one level up (0: none),  *)
(* `extra' the third block of a leaf split twice, `after' where it is.      *)

Grow(m) == Min(0 .. MaxBlk \ m)
GrowInode(s, blk) == [s EXCEPT !.t[Grow(s.m)] = blk, !.m = @ \cup {Grow(s.m)}]

\* old keeps the first k entries, the rest goes to new, which is linked after it
SplitAt(t, old, new, k) ==
  BlkLink([t EXCEPT ![new].ents = SubSeq(t[old].ents, k + 1, Len(t[old].ents)), ![old].ents = SubSeq(@, 1, k)], old, new)

\* a leaf with one entry too many is split, and perhaps split again
LeafSplit(s, b, k) ==
  LET new == Grow(s.m) IN [GrowInode(s, Leaf(<<>>)) EXCEPT !.t = SplitAt([s.t EXCEPT ![new] = Leaf(<<>>)], b, new, k), !.add = new]
LeafSplitAgain(s, b, k, after) ==
  LET new == Grow(s.m)
  IN [GrowInode(s, Leaf(<<>>)) EXCEPT !.t = SplitAt([s.t EXCEPT ![new] = Leaf(<<>>)], b, new, k), !.extra = new, !.after = after]

EntryOf(t, b) == [h |-> Lasthash(t[b]), b |-> b]
\* xfs_da_node_add of one block or of two after index i
NodeAdd(s, b, i) ==
  LET one == InsertAt(s.t[b].ents, i + 1, EntryOf(s.t, s.add))
  IN [s EXCEPT !.t[b].ents = IF s.extra = 0 THEN one ELSE InsertAt(one, IF s.after THEN i + 2 ELSE i + 1, EntryOf(s.t, s.extra)),
               !.extra = 0]

\* the node path[l] takes the new blocks, split first when it is full
NodeRebalance(s, b, new, k) == [s EXCEPT !.t = SplitAt(s.t, b, new, k)]
NodeSplitAt(s, b, i, new, k) ==
  [(IF i <= k THEN NodeAdd(s, b, i) ELSE NodeAdd(s, new, i - k)) EXCEPT !.add = new]
NodeSplit(s, l) ==
  LET b == s.path[l].b
      n == Len(s.t[b].ents)
      k == n - n \div 2
      new == Grow(s.m)
  IN IF n + 1 + (IF s.extra # 0 THEN 1 ELSE 0) <= NodeMax THEN [NodeAdd(s, b, s.path[l].i) EXCEPT !.add = 0]
     ELSE NodeSplitAt(NodeRebalance(GrowInode(s, [Null EXCEPT !.lev = s.t[b].lev]), b, new, k), b, s.path[l].i, new, k)

\* the root, always block 0, is copied to a new block below a new root
NewRoot(t, old, add) ==
  [t EXCEPT ![0] = [Null EXCEPT !.lev = t[old].lev + 1, !.ents = <<EntryOf(t, old), EntryOf(t, add)>>],
            ![add].back = IF t[old].forw = add THEN old ELSE @,
            ![add].forw = IF t[old].back = add THEN old ELSE @]
RootSplit(s) ==
  LET old == Grow(s.m) IN [GrowInode(s, s.t[0]) EXCEPT !.t = NewRoot([s.t EXCEPT ![old] = s.t[0]], old, s.add), !.add = 0]

RECURSIVE SplitUp(_, _)
SplitUp(s, l) ==
  IF s.add = 0 THEN s
  ELSE IF l = 0 THEN RootSplit(s)
  ELSE LET r == NodeSplit(s, l) IN SplitUp([r EXCEPT !.t = Fixhashpath(r.t, r.path, l)], l - 1)
DaSplit(s) == SplitUp([s EXCEPT !.t = Fixhashpath(s.t, s.path, Len(s.path))], Len(s.path) - 1)

----------------------------------------------------------------------------
(* Giving a block back *)

\* the hole needs a block for the extent btree, and none is reserved
NoSpace(m, b) == Kind = "dir" /\ Full /\ b - 1 \in m /\ b + 1 \in m

\* the node at the level above the block with this last hash, and those to its right
RECURSIVE ParentAt(_, _, _, _)
ParentAt(t, par, hash, lev) ==
  LET S == {i \in DOMAIN t[par].ents : t[par].ents[i].h >= hash}
  IN IF t[par].lev <= 0 \/ S = {} THEN -1
     ELSE IF t[par].lev = lev + 1 THEN par ELSE ParentAt(t, t[par].ents[Min(S)].b, hash, lev)
RECURSIVE ParentWith(_, _, _)
ParentWith(t, par, last) ==
  IF par = -1 \/ \E i \in DOMAIN t[par].ents : t[par].ents[i].b = last THEN par
  ELSE IF t[par].forw = 0 THEN -1 ELSE ParentWith(t, t[par].forw, last)

\* xfs_da_swap_lastblock: the content of the last block replaces that of the dead one
Repointed(s, par, last, dead) ==
  IF par = -1 THEN [s EXCEPT !.err = "EFSCORRUPTED"]
  ELSE LET ents == s.t[par].ents
       IN [s EXCEPT !.t[par].ents[Min({i \in DOMAIN ents : ents[i].b = last})].b = dead, !.m = @ \ {last}]
SwapLastblock(s, last, dead) ==
  LET t == SetBack(SetForw([s.t EXCEPT ![dead] = s.t[last]], s.t[last].back, dead), s.t[last].forw, dead)
  IN IF \/ s.t[last].back # 0 /\ s.t[s.t[last].back].forw # last
        \/ s.t[last].forw # 0 /\ s.t[s.t[last].forw].back # last
     THEN [s EXCEPT !.err = "EFSCORRUPTED"]
     ELSE Repointed([s EXCEPT !.t = t], ParentWith(t, ParentAt(t, 0, Lasthash(t[dead]), t[dead].lev), last), last, dead)

Allowed(s, b, last) == AnyMove \/ (s.t[b].lev = 0 /\ \A l \in DOMAIN s.path : s.path[l].b # last)
ShrinkInode(s, b) ==
  IF NoSpace(s.m, b) /\ Allowed(s, b, Max(s.m)) THEN SwapLastblock(s, Max(s.m), b) ELSE [s EXCEPT !.m = @ \ {b}]

----------------------------------------------------------------------------
(* Joining *)

CountOf(blk) == IF blk.lev = 0 THEN LiveCount(blk) ELSE Len(blk.ents)
MaxOf(blk) == IF blk.lev = 0 THEN LeafMax ELSE NodeMax

\* the neighbours in the order they are tried, the one with the lower number first
Neighbours(blk) ==
  SelectSeq(IF blk.forw < blk.back THEN <<blk.forw, blk.back>> ELSE <<blk.back, blk.forw>>, LAMBDA b : b # 0)
Fits(t, b) ==
  SelectSeq(Neighbours(t[b]), LAMBDA j : MaxOf(t[b]) - MaxOf(t[b]) \div 4 - CountOf(t[b]) - CountOf(t[j]) >= 0)

\* xfs_da_node_toosmall and its like for leaves: 0 nothing to do, 1 join with a
\* neighbour, 2 delete; the paths to the block to drop and to the one to keep
NoJoin == [act |-> 0, drop |-> <<>>, save |-> <<>>]
Joining(path, alt, b) ==
  IF alt = <<>> THEN NoJoin
  ELSE IF Last(alt).b < b THEN [act |-> 1, drop |-> path, save |-> alt] ELSE [act |-> 1, drop |-> alt, save |-> path]
EmptyBlock(t, path, b, shifted) ==
  IF Kind = "dir" /\ t[b].lev = 0
  THEN IF shifted = <<>> THEN [act |-> 2, drop |-> path, save |-> path] ELSE NoJoin
  ELSE IF shifted = <<>> THEN NoJoin ELSE [act |-> 2, drop |-> path, save |-> shifted]
Toosmall(t, path, b) ==
  IF CountOf(t[b]) > MaxOf(t[b]) \div 2 THEN NoJoin
  ELSE IF CountOf(t[b]) = 0 THEN EmptyBlock(t, path, b, PathShift(t, path, t[b].forw # 0))
  ELSE IF Fits(t, b) = <<>> THEN NoJoin
  ELSE Joining(path, PathShift(t, path, Fits(t, b)[1] = t[b].forw), b)

Compact(blk) == IF blk.lev = 0 THEN SelectSeq(blk.ents, LAMBDA e : e.n # Stale) ELSE blk.ents
Unbalanced(d, s) ==
  IF d # <<>> /\ s # <<>> /\ (d[1].h < s[1].h \/ Last(d).h < Last(s).h) THEN d \o s ELSE s \o d
Unbalance(t, drop, save) ==
  [t EXCEPT ![save].ents = Unbalanced(Compact(t[drop]), Compact(t[save])), ![drop].ents = <<>>]

NodeRemove(s, l) == [s EXCEPT !.t[s.path[l].b].ents = RemoveAt(@, s.path[l].i)]

\* the root's only child replaces it
RootJoin(s, child) == ShrinkInode([s EXCEPT !.t[0] = s.t[child], !.path = <<>>], child)

\* the block of path[l] was made smaller; j says what becomes of it
Joined(s, j, l) ==
  LET drop == j.drop[l].b
      save == j.save[l].b
      t1 == Fixhashpath(Unbalance(s.t, drop, save), j.save, l)
  IN ShrinkInode([s EXCEPT !.t = BlkUnlink(t1, drop, save), !.path = j.drop], drop)

RECURSIVE JoinUp(_, _), JoinNode(_, _), JoinAt(_, _, _)
JoinAt(s, l, j) == IF j.act = 0 THEN s ELSE JoinNode(Joined(s, j, l), l - 1)
JoinUp(s, l) == JoinAt(s, l, Toosmall(s.t, SubSeq(s.path, 1, l), s.path[l].b))
JoinNode(s, l) ==
  IF s.err # "ok" THEN s
  ELSE LET r == NodeRemove(s, l)
           u == [r EXCEPT !.t = Fixhashpath(r.t, r.path, l)]
       IN IF l > 1 THEN JoinUp(u, l)
          ELSE IF Len(u.t[0].ents) > 1 THEN u ELSE RootJoin(u, u.t[0].ents[1].b)
DaJoin(s) == IF Len(s.path) < 2 THEN s ELSE JoinUp(s, Len(s.path))

----------------------------------------------------------------------------
(* Operations on the fork *)

Start(path) == [t |-> tree, m |-> mapped, path |-> path, add |-> 0, extra |-> 0, after |-> FALSE, err |-> "ok"]
Finish(s) ==
  /\ tree' = [b \in 0 .. MaxBlk |-> IF b \in s.m THEN s.t[b] ELSE Null]
  /\ mapped' = s.m
  /\ result' = s.err

\* the entry goes where its hash belongs, in the place of a removed one if there is one
Place(ents, h) == Cardinality({i \in DOMAIN ents : ents[i].h < h})
PutEntry(ents, n, kill) ==
  LET left == IF kill = 0 THEN ents ELSE RemoveAt(ents, kill)
  IN InsertAt(left, Place(left, DaHash[n]) + 1, [h |-> DaHash[n], n |-> n])
Put(s, n, kill) == [s EXCEPT !.t[Last(s.path).b].ents = PutEntry(@, n, kill)]
Fixed(s) == [s EXCEPT !.t = Fixhashpath(s.t, s.path, Len(s.path))]

\* xfs_attr_leaf_to_node: a full leaf at block 0 goes below a root with one entry
LeafToNode(s, b) ==
  [GrowInode(s, s.t[0]) EXCEPT
     !.t = [s.t EXCEPT ![b] = s.t[0], ![0] = [Null EXCEPT !.lev = 1, !.ents = <<[h |-> Lasthash(s.t[0]), b |-> b]>>]],
     !.path = <<[b |-> 0, i |-> 1], [b |-> b, i |-> 1]>>]
Rooted(s) == IF Kind = "attr" /\ Len(s.path) = 1 THEN LeafToNode(s, Grow(s.m)) ELSE s

StaleAt(blk) == {i \in DOMAIN blk.ents : blk.ents[i].n = Stale}

Add(n) ==
  /\ result = "ok" /\ n = entered + 1 /\ Cardinality(mapped) + 5 <= MaxBlk
  /\ \E path \in {LookupInt(tree, n)} :
       LET blk == tree[Last(path).b]
           over == Rooted(Start(path))
           b == Last(over.path).b
       IN \/ /\ Len(blk.ents) < LeafMax /\ StaleAt(blk) = {}
             /\ Finish(Fixed(Put(Start(path), n, 0)))
          \/ \E kill \in StaleAt(blk) : Finish(Fixed(Put(Start(path), n, kill)))
          \/ /\ Len(blk.ents) = LeafMax /\ StaleAt(blk) = {}
             /\ \E k \in 1 .. LeafMax : Finish(DaSplit(LeafSplit(Put(over, n, 0), b, k)))
          \/ /\ Kind = "attr" /\ Len(blk.ents) = LeafMax
             /\ \E k \in 2 .. LeafMax, j \in 1 .. LeafMax - 1 :
                  j < k /\ Finish(DaSplit(LeafSplitAgain(LeafSplit(Put(over, n, 0), b, k), b, j, FALSE)))
          \/ /\ Kind = "attr" /\ Len(blk.ents) = LeafMax
             /\ \E k \in 1 .. LeafMax - 1, j \in 1 .. LeafMax - 1 :
                  /\ k + j <= LeafMax
                  /\ \E s \in {LeafSplit(Put(over, n, 0), b, k)} : Finish(DaSplit(LeafSplitAgain(s, s.add, j, TRUE)))
  /\ present' = present \cup {n} /\ entered' = n

TakeEntry(s, i) ==
  [s EXCEPT !.t[Last(s.path).b].ents = IF Kind = "dir" THEN [@ EXCEPT ![i].n = Stale] ELSE RemoveAt(@, i)]

RemoveNm(n) ==
  /\ result = "ok" /\ n \in present
  /\ \E path \in {LookupInt(tree, n)} : \E i \in Found(tree, path, n) :
       Finish(DaJoin(Fixed(TakeEntry(Start(path), i))))
  /\ present' = present \ {n} /\ UNCHANGED entered

DaInit ==
  /\ tree = [b \in 0 .. MaxBlk |-> IF b = 0 THEN Leaf(<<>>) ELSE Null]
  /\ mapped = {0} /\ present = {} /\ entered = 0 /\ result = "ok"

DaNext == \E n \in DaNames : Add(n) \/ RemoveNm(n)

DaSpec == DaInit /\ [][DaNext]_daVars

----------------------------------------------------------------------------
RECURSIVE Below(_, _)
Below(t, b) == IF t[b].lev <= 0 THEN {b} ELSE {b} \cup UNION {Below(t, t[b].ents[i].b) : i \in DOMAIN t[b].ents}

RECURSIVE InOrder(_, _, _)
InOrder(t, b, lev) ==
  IF t[b].lev <= lev THEN <<b>> ELSE FoldLeft(LAMBDA acc, e : acc \o InOrder(t, e.b, lev), <<>>, t[b].ents)

Linked(t, s) == \A i \in DOMAIN s : t[s[i]].back = (IF i = 1 THEN 0 ELSE s[i - 1]) /\ t[s[i]].forw = (IF i = Len(s) THEN 0 ELSE s[i + 1])

\* A lookup finds every name that was entered and no other, every mapped block is in
\* the tree once, the levels are linked in order, and the hash a node has for a child
\* is that of the child's last entry (xfs_da_split, xfs_da_join, xfs_da_swap_lastblock).
HashTreeIsExact ==
  /\ result = "ok"
  /\ \A n \in DaNames : (Found(tree, LookupInt(tree, n), n) # {}) = (n \in present)
  /\ Below(tree, 0) = mapped
  /\ \A lev \in 0 .. tree[0].lev : Linked(tree, InOrder(tree, 0, lev))
  /\ \A b \in mapped : tree[b].lev > 0 => \A i \in DOMAIN tree[b].ents :
       /\ tree[tree[b].ents[i].b].lev = tree[b].lev - 1
       /\ tree[tree[b].ents[i].b].ents # <<>> => tree[b].ents[i].h = Lasthash(tree[tree[b].ents[i].b])

\* "We need to always be able to remove a btree block, even if there's no space
\* reservation because the filesystem is full" (xfs_da_btree.c:1660): moving the last
\* block does not fail, and leaves every node with blocks of the level below it.
BlockIsAlwaysRemoved ==
  /\ result = "ok"
  /\ \A b \in mapped : tree[b].lev > 0 => \A i \in DOMAIN tree[b].ents :
       tree[b].ents[i].b \in mapped /\ tree[tree[b].ents[i].b].lev = tree[b].lev - 1
===========================================================================
