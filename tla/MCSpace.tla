------------------------------ MODULE MCSpace ------------------------------
(* Small instances of the components that hand out space and inodes, map     *)
(* them and count them: the extent list, the btrees and the bmap code of a   *)
(* file, the free-space and the inode allocators, the dquots, and, as the    *)
(* constants say, the per-cpu superblock counters and the reservations of    *)
(* quota. A behaviour is one of instance `which'; counters and quota stay as *)
(* they were set up in the others, the other components are idle.            *)
EXTENDS XfsSbCounters, XfsTransDquot

VARIABLES
  which,
  fork, ref, tree, content, inode, fdblocks, file,
  ags, taken, trans, op,
  agis, icount, owned, ith, had, bs, iops,
  q, qth, qops

iextVars == <<fork, ref>>
btreeVars == <<tree, content>>
bmapVars == <<inode, fdblocks, file>>
mapVars == <<iextVars, btreeVars, bmapVars>>
allocVars == <<ags, taken, trans, op>>
iallocVars == <<agis, icount, owned, ith, had, bs, iops>>
dqVars == <<q, qth, qops>>
vars == <<which, mapVars, allocVars, iallocVars, sbVars, dqVars, tdVars>>

----------------------------------------------------------------------------
(* A file's mapping: extent lists that go from inline to linear to indirect, btrees that split and *)
(* join up to three levels, and a file of four blocks on a device of six *)
Iext == INSTANCE XfsIext WITH InlineExts <- 2, LinearExts <- 4, MaxBno <- 10, MaxDiff <- 2
Btree == INSTANCE XfsBtree WITH Blocks <- 1 .. 12, LeafMax <- 4, NodeMax <- 4, RootMax <- 2, Levels <- 4, MaxKeys <- 11
Bmap == INSTANCE XfsBmap WITH MaxOff <- 4, NBlocks <- 6, MaxExtLen <- 3, ExtMax <- 1, DMaxRecs <- 2, MaxLevels <- 2,
  sb <- fdblocks

(* Free space: two groups of six blocks besides their headers *)
Req(ty, g, b, mi, ma, al, mo, pr, ml) ==
  [type |-> ty, agno |-> g, agbno |-> b, minlen |-> mi, maxlen |-> ma, alignment |-> al, mod |-> mo, prod |-> pr,
   minleft |-> ml, slop |-> 0, total |-> 0, isfl |-> FALSE, last |-> 1]
AllocRequests ==
  {[Req("NEAR_BNO", 0, b, 2, 3, al, 0, 1, 0) EXCEPT !.last = al] : b \in {1, 4}, al \in {1, 2}}
  \cup {Req("THIS_BNO", 0, 3, 2, 4, 1, 0, 1, ml) : ml \in {0, 3}}
  \cup {Req("START_BNO", g, 3, 1, 6, 1, 0, 1, ml) : g \in {0, 1}, ml \in {0, 6}}
  \cup {Req("START_BNO", 1, 3, 2, 3, 1, 0, 1, 0), Req("FIRST_AG", 0, 0, 1, 4, 1, 0, 1, 0),
        Req("ANY_AG", 0, 0, 1, 5, 2, 0, 1, 0), Req("THIS_AG", 0, 0, 1, 9, 1, 1, 3, 0)}
Space == INSTANCE XfsAlloc WITH
  AgCount <- 2, DataBlocks <- 6, LeafRecs <- 2, MaxLevels <- 2, AgflSize <- 8, OtherFree <- {{}, {1, 2, 3}},
  FlCounts <- {0, 4, 5}, Ops <- 2, Requests <- AllocRequests, used <- taken

(* Inodes: two groups with room for a chunk or two *)
Dialloc(d, n, o) == [dir |-> d, need |-> n, okalloc |-> o]
Creates == {Dialloc(FALSE, 0, TRUE), Dialloc(TRUE, 1, TRUE), Dialloc(FALSE, 1, FALSE)}
\* chunks of four inodes between what others have allocated
Chunks == INSTANCE XfsIalloc WITH
  AgCount <- 2, MaxAgi <- 2, OkAgs <- 2, AgBlocks <- 8, StartFree <- [g \in 0 .. 1 |-> IF g = 0 THEN 2 .. 5 ELSE {2, 3, 5, 6, 7}],
  Inopblock <- 2, IallocBlocks <- 2, PerChunk <- 4, ClusterBlocks <- 2, Align <- 2, Dalign <- 0, InLevels <- 1,
  MaxIcount <- 0, Ikeep <- FALSE, Creates <- Creates, Threads <- 1 .. 2, MaxOps <- 4, Ubcount <- 0, Nirbuf <- 2,
  ags <- agis, sb <- icount, th <- ith, ops <- iops
\* bulkstat during creates and removes
Scan == INSTANCE XfsIalloc WITH
  AgCount <- 2, MaxAgi <- 2, OkAgs <- 2, AgBlocks <- 8, StartFree <- [g \in 0 .. 1 |-> 2 .. 7],
  Inopblock <- 1, IallocBlocks <- 2, PerChunk <- 2, ClusterBlocks <- 2, Align <- 2, Dalign <- 0, InLevels <- 1,
  MaxIcount <- 0, Ikeep <- FALSE, Creates <- {Dialloc(FALSE, 1, TRUE)}, Threads <- {1}, MaxOps <- 3, Ubcount <- 2, Nirbuf <- 2,
  ags <- agis, sb <- icount, th <- ith, ops <- iops
\* the ceiling of inodes
Ceiling == INSTANCE XfsIalloc WITH
  AgCount <- 2, MaxAgi <- 2, OkAgs <- 2, AgBlocks <- 8, StartFree <- [g \in 0 .. 1 |-> 2 .. 7],
  Inopblock <- 1, IallocBlocks <- 2, PerChunk <- 2, ClusterBlocks <- 2, Align <- 2, Dalign <- 0, InLevels <- 1,
  MaxIcount <- 4, Ikeep <- FALSE, Creates <- Creates, Threads <- 1 .. 2, MaxOps <- 3, Ubcount <- 0, Nirbuf <- 2,
  ags <- agis, sb <- icount, th <- ith, ops <- iops

(* Superblock counters: a transaction takes a little, or much and may use the reserve *)
MCTakes == {<<2, FALSE>>, <<5, TRUE>>}
\* two transactions while a cpu comes late or goes
CpuNext == SbNext /\ \A t \in Threads : th'[t].pc # "resblks"
\* one transaction that also changes the size of the reserve pool
PoolNext == SbNext /\ th'[2] = th[2] /\ online \subseteq online'

(* Quota: two inodes of one user and two groups, with too few dquots *)
Cached == INSTANCE XfsDquot WITH
  Inodes <- {1, 2}, Uid <- <<1, 1>>, Gid <- <<1, 2>>, Slots <- 1 .. 5, Threads <- {1, 2}, OffTypes <- {"user"},
  Gets <- {<<"user", 1>>}, Warm <- FALSE, Kinds <- {"attach", "detach", "get", "shake"}, Ndquot <- 2, MaxOps <- 3,
  th <- qth, ops <- qops
\* attached dquots, written out and turned off
QuotaOff == INSTANCE XfsDquot WITH
  Inodes <- {1, 2}, Uid <- <<1, 1>>, Gid <- <<1, 1>>, Slots <- 1 .. 5, Threads <- {1, 2}, OffTypes <- {"user"},
  Gets <- {<<"user", 1>>}, Warm <- TRUE, Kinds <- {"attach", "detach", "get", "quotaoff", "sync"}, Ndquot <- 9, MaxOps <- 3,
  th <- qth, ops <- qops
(* transactions that reserve and use quota, with limits in their way *)
MCRoot == [i |-> 1, u |-> 1, g |-> 3]
MCHard == <<4, 4, 0, 3>>
MCSoft == <<2, 0, 0, 0>>
MCIHard == <<0, 0, 2, 0>>

----------------------------------------------------------------------------
IextIdle == fork = 0 /\ ref = 0
BtreeIdle == tree = 0 /\ content = 0
BmapIdle == inode = 0 /\ fdblocks = 0 /\ file = 0
MapIdle == IextIdle /\ BtreeIdle /\ BmapIdle
AllocIdle == ags = 0 /\ taken = 0 /\ trans = 0 /\ op = 0
IallocIdle == agis = 0 /\ icount = 0 /\ owned = 0 /\ ith = 0 /\ had = 0 /\ bs = 0 /\ iops = 0
SbIdle == SbInit /\ online = Cpus
DqIdle == q = 0 /\ qth = 0 /\ qops = 0
TdIdle == TdInit

Init ==
  \/ /\ AllocIdle /\ IallocIdle /\ SbIdle /\ DqIdle /\ TdIdle
     /\ \/ which = "iext" /\ Iext!IextInit /\ BtreeIdle /\ BmapIdle
        \/ which = "btree" /\ Btree!BtreeInit /\ IextIdle /\ BmapIdle
        \/ which = "bmap" /\ Bmap!BmapInit /\ IextIdle /\ BtreeIdle
  \/ MapIdle /\ IallocIdle /\ SbIdle /\ DqIdle /\ TdIdle /\ which = "alloc" /\ Space!AllocInit
  \/ /\ MapIdle /\ AllocIdle /\ SbIdle /\ DqIdle /\ TdIdle
     /\ \/ which = "inodes" /\ Chunks!IallocInit
        \/ which = "scan" /\ Scan!IallocInit
        \/ which = "ceiling" /\ Ceiling!IallocInit
  \/ MapIdle /\ AllocIdle /\ IallocIdle /\ DqIdle /\ TdIdle /\ which \in {"cpu", "pool"} /\ SbInit
  \/ /\ MapIdle /\ AllocIdle /\ IallocIdle /\ SbIdle /\ TdIdle
     /\ \/ which = "dquots" /\ Cached!DqInit
        \/ which = "quotaoff" /\ QuotaOff!DqInit
  \/ MapIdle /\ AllocIdle /\ IallocIdle /\ SbIdle /\ DqIdle /\ which = "quota" /\ TdInit

Next ==
  /\ UNCHANGED which
  /\ \/ which = "iext" /\ Iext!IextNext /\ UNCHANGED <<btreeVars, bmapVars, allocVars, iallocVars, sbVars, dqVars, tdVars>>
     \/ which = "btree" /\ Btree!BtreeNext /\ UNCHANGED <<iextVars, bmapVars, allocVars, iallocVars, sbVars, dqVars, tdVars>>
     \/ which = "bmap" /\ Bmap!BmapNext /\ UNCHANGED <<iextVars, btreeVars, allocVars, iallocVars, sbVars, dqVars, tdVars>>
     \/ which = "alloc" /\ Space!AllocNext /\ UNCHANGED <<mapVars, iallocVars, sbVars, dqVars, tdVars>>
     \/ which = "inodes" /\ Chunks!IallocNext /\ UNCHANGED <<mapVars, allocVars, sbVars, dqVars, tdVars>>
     \/ which = "scan" /\ Scan!IallocNext /\ UNCHANGED <<mapVars, allocVars, sbVars, dqVars, tdVars>>
     \/ which = "ceiling" /\ Ceiling!IallocNext /\ UNCHANGED <<mapVars, allocVars, sbVars, dqVars, tdVars>>
     \/ which = "cpu" /\ CpuNext /\ UNCHANGED <<mapVars, allocVars, iallocVars, dqVars, tdVars>>
     \/ which = "pool" /\ PoolNext /\ UNCHANGED <<mapVars, allocVars, iallocVars, dqVars, tdVars>>
     \/ which = "dquots" /\ Cached!DqNext /\ UNCHANGED <<mapVars, allocVars, iallocVars, sbVars, tdVars>>
     \/ which = "quotaoff" /\ QuotaOff!DqNext /\ UNCHANGED <<mapVars, allocVars, iallocVars, sbVars, tdVars>>
     \/ which = "quota" /\ TdNext /\ UNCHANGED <<mapVars, allocVars, iallocVars, sbVars, dqVars>>

Spec == Init /\ [][Next]_vars

----------------------------------------------------------------------------
\* A file's blocks are where it put them: the in-core extent list is the sequence of extents
\* its callers asked for (xfs_iext_insert, xfs_iext_remove); a btree holds the keys put in, in
\* order, on well-formed blocks, and a cursor keeps its place (xfs_btree_insrec,
\* xfs_btree_delrec); and the fork maps every offset to what was written there, each block
\* being free, in the file or reserved for it (xfs_bmapi, xfs_bunmapi, xfs_bmap_add_extent).
MappingIsExact ==
  /\ which = "iext" => Iext!ExtentListIsExact
  /\ which = "btree" => Btree!BtreeIsExact /\ Btree!CursorKeepsItsPlace
  /\ which = "bmap" => Bmap!MappingIsExact /\ Bmap!DelayedSpaceIsAccounted

\* The two free-space btrees, the free list and the counts agree, and every block is
\* free, on the free list or used once; an allocation is what was asked for
\* (xfs_alloc_fixup_trees, xfs_alloc_fix_freelist, xfs_alloc_fix_minleft).
FreeSpaceIsExact == which = "alloc" => Space!FreeSpaceIsExact /\ Space!AllocationIsAsAsked

\* Inode chunks, free masks and counts agree, and no inode is given out twice
\* (xfs_dialloc, xfs_ialloc_ag_alloc, xfs_difree).
InodesAreExact ==
  /\ which = "inodes" => Chunks!InodesAreExact
  /\ which = "scan" => Scan!InodesAreExact
  /\ which = "ceiling" => Ceiling!InodesAreExact

\* No create fails while a free inode or room for a chunk is there (xfs_dialloc).
NoFalseEnospc == which = "inodes" => Chunks!NoFalseEnospc

\* A scan returns every inode that stays allocated (xfs_bulkstat).
BulkstatIsComplete == which = "scan" => Scan!BulkstatIsComplete

\* References, lists and hash chains of the dquots agree (xfs_qm_dqget, xfs_qm_dqput,
\* xfs_qm_dqattach, xfs_qm_dqpurge_int).
DquotsAreCounted ==
  /\ which = "dquots" => Cached!DquotsAreCounted
  /\ which = "quotaoff" => QuotaOff!DquotsAreCounted

\* No cycle of dquot, list and inode locks (xfs_qm_dqlookup, xfs_qm_dqreclaim_one).
DquotLocksAdvance ==
  /\ which = "dquots" => Cached!DquotLocksAdvance
  /\ which = "quotaoff" => QuotaOff!DquotLocksAdvance
=============================================================================
