----------------------------- MODULE XfsIalloc -----------------------------
(***************************************************************************)
(* The inode allocator (fs/xfs/xfs_ialloc.c) and the scans of its btrees   *)
(* (fs/xfs/xfs_itable.c).  Threads create and free inodes in interleaved   *)
(* transactions: a group is chosen from the unlocked per-AG counters, its  *)
(* AGI is locked, and a chunk of new inodes is committed in a transaction  *)
(* of its own before an inode is taken from it.  Meanwhile xfs_bulkstat    *)
(* copies records under the AGI lock and looks at the inodes without it.   *)
(*                                                                         *)
(* An inode is <<group, agino>>.  The inode btree is the function from the *)
(* first inode of a chunk to its free inodes; its blocks and the free      *)
(* list are XfsBtree's and XfsAlloc's.  An I/O error is not modelled.      *)
(***************************************************************************)
EXTENDS Integers, Sequences, FiniteSets, FiniteSetsExt, SequencesExt

CONSTANTS
  AgCount,        \* sb_agcount
  MaxAgi,         \* m_maxagi, which xfs_initialize_perag may set one past
  OkAgs,          \* ... the groups with pagi_inodeok
  AgBlocks,       \* sb_agblocks
  StartFree,      \* the free blocks of each group to begin with
  Inopblock,      \* sb_inopblock
  IallocBlocks,   \* XFS_IALLOC_BLOCKS
  PerChunk,       \* XFS_INODES_PER_CHUNK
  ClusterBlocks,  \* blocks in an inode cluster buffer
  Align,          \* sb_inoalignmt
  Dalign,         \* m_dalign when m_sinoalign is set, else 0
  InLevels,       \* XFS_IN_MAXLEVELS
  MaxIcount,      \* m_maxicount, 0 for no limit
  Ikeep,          \* XFS_MOUNT_IKEEP
  Creates,        \* the creates asked for: of a directory, with a block to go with it, with space reserved
  Threads,
  MaxOps,         \* bound: creates and frees
  Ubcount,        \* the inodes a bulkstat call has room for; 0: nobody scans
  Nirbuf          \* records bulkstat copies at a time

VARIABLES
  ags,            \* AGI, inode btree, per-AG counters and free blocks of each group
  sb,             \* sb_icount, sb_ifree, m_agirotor
  owned,          \* the inodes in use
  th,             \* the transaction of each thread
  had,            \* history: the groups with a free inode ever since the thread's create began
  bs,             \* the process that scans with xfs_bulkstat
  ops

iallocVars == <<ags, sb, owned, th, had, bs, ops>>

Groups == 0 .. AgCount - 1
NullAgino == -1
IallocInodes == IallocBlocks * Inopblock
InodeOk(g) == g < OkAgs
Root == <<0, IallocInodes>>     \* the headers of the group are in the blocks before it
Idle == [pc |-> "idle", need |-> 0, okalloc |-> FALSE, parent |-> Root, agno |-> 0,
         start |-> 0, pass |-> 1, icount |-> 0, ifree |-> 0, ino |-> Root, blocks |-> {}]

----------------------------------------------------------------------------
(* The chunks of a group *)

InChunk(s) == s .. s + PerChunk - 1
AgbnoOf(agino) == agino \div Inopblock
Starts(ag) == DOMAIN ag.recs
FreeIn(ag) == UNION {ag.recs[s] : s \in Starts(ag)}
LookupLe(ag, agino) == {s \in Starts(ag) : s <= agino}      \* its maximum is the record found
AllocatedIn(ag) == UNION {InChunk(s) \ ag.recs[s] : s \in Starts(ag)}
Unset(f, k) == [x \in DOMAIN f \ {k} |-> f[x]]

\* xfs_ialloc_read_agi: the first reader of the AGI fills in the in-core counters
Locked(ag, t) == [ag EXCEPT !.lock = t, !.init = TRUE, !.pfree = IF ag.init THEN @ ELSE ag.freecount]
Released(ag) == [ag EXCEPT !.lock = 0]

\* what xfs_alloc_vextent needs of the group's free space before it touches anything
Run(b, n) == b .. b + n - 1
Longest(free) == Max({0} \cup {n \in 1 .. AgBlocks : \E b \in free : Run(b, n) \subseteq free})
Fits(ag, align) == /\ Longest(ag.free) >= IallocBlocks + align - 1
                   /\ Cardinality(ag.free) >= IallocBlocks + InLevels - 1

ClusterAlignment == IF Align >= ClusterBlocks THEN Align ELSE 1
\* next to the last chunk; else aligned to the stripe; else aligned to the cluster
NextTo(ag) == AgbnoOf(ag.newino) + IallocBlocks
ContiguousOk(ag) == /\ ag.newino # NullAgino
                    /\ NextTo(ag) < AgBlocks
                    /\ Fits(ag, ClusterAlignment)
                    /\ Run(NextTo(ag), IallocBlocks) \subseteq ag.free
AlignedRuns(ag, align) ==
  IF ~Fits(ag, align) THEN {}
  ELSE {b \in ag.free : b % align = 0 /\ Run(b, IallocBlocks) \subseteq ag.free}
ChunkPlaces(ag) ==
  IF ContiguousOk(ag) THEN {NextTo(ag)}
  ELSE IF Dalign > 0 /\ AlignedRuns(ag, Dalign) # {} THEN AlignedRuns(ag, Dalign)
  ELSE AlignedRuns(ag, ClusterAlignment)

\* xfs_ialloc_ag_alloc: the free extent becomes inodes, with a record per PerChunk of them
NewStarts(b) == {b * Inopblock + k * PerChunk : k \in 0 .. (IallocInodes \div PerChunk) - 1}
WithChunk(ag, b) ==
  [ag EXCEPT !.free = @ \ Run(b, IallocBlocks),
             !.recs = [s \in Starts(ag) \cup NewStarts(b) |-> IF s \in Starts(ag) THEN ag.recs[s] ELSE InChunk(s)],
             !.bufs = @ \cup {b + j * ClusterBlocks : j \in 0 .. (IallocBlocks \div ClusterBlocks) - 1},
             !.count = @ + IallocInodes, !.freecount = @ + IallocInodes, !.pfree = @ + IallocInodes,
             !.newino = b * Inopblock]

\* the record xfs_dialloc takes an inode from: the parent's chunk or the nearest with a
\* free inode, the one above on a tie; in another group the newest chunk, else the first
LeftOf(ag, p) == {s \in LookupLe(ag, p) : ag.recs[s] # {}}
RightOf(ag, p) == {s \in Starts(ag) : s > p /\ ag.recs[s] # {}}
Nearest(ag, p) ==
  LET l == LeftOf(ag, p)  r == RightOf(ag, p)
  IN IF r = {} THEN Max(l) ELSE IF l = {} THEN Min(r)
     ELSE IF Max(l) = Max(LookupLe(ag, p)) \/ p - (Max(l) + PerChunk - 1) < Min(r) - p THEN Max(l) ELSE Min(r)
ChooseRec(ag, g, parent) ==
  IF parent[1] = g THEN Nearest(ag, parent[2])
  ELSE IF ag.newino \in Starts(ag) /\ ag.recs[ag.newino] # {} THEN ag.newino
  ELSE Min({s \in Starts(ag) : ag.recs[s] # {}})

Taken(ag, s, i) == [ag EXCEPT !.recs[s] = @ \ {i}, !.freecount = @ - 1, !.pfree = @ - 1]

\* xfs_difree
DeletesChunk(ag, s, i) == ~Ikeep /\ Cardinality(ag.recs[s] \cup {i}) = IallocInodes
MutGivenBack(ag, s, i) ==
  IF DeletesChunk(ag, s, i)
  THEN [ag EXCEPT !.recs = Unset(@, s), !.count = @ - IallocInodes, !.freecount = @ - IallocInodes,
                  !.pfree = @ - IallocInodes, !.bufs = @ \ Run(AgbnoOf(s), IallocBlocks)]
  ELSE [ag EXCEPT !.recs[s] = @ \cup {i}, !.freecount = @ + 1, !.pfree = @ + 1]
GivenBack(ag, s, i) ==
  IF DeletesChunk(ag, s, i)
  THEN [ag EXCEPT !.recs = Unset(@, s), !.count = @ - IallocInodes, !.freecount = @ - (IallocInodes - 1),
                  !.pfree = @ - (IallocInodes - 1), !.bufs = @ \ Run(AgbnoOf(s), IallocBlocks)]
  ELSE [ag EXCEPT !.recs[s] = @ \cup {i}, !.freecount = @ + 1, !.pfree = @ + 1]

\* xfs_imap: the cluster buffer of an inode and the inode's index in it
ChunkAgbno(ag, agino) ==
  IF Align >= ClusterBlocks THEN AgbnoOf(agino) - (AgbnoOf(agino) % Align)
  ELSE AgbnoOf(Max(LookupLe(ag, agino)))
ClusterOf(b, chunk) == chunk + ((b - chunk) \div ClusterBlocks) * ClusterBlocks
Imap(ag, agino) ==
  IF ClusterBlocks = 1 THEN <<AgbnoOf(agino), agino % Inopblock>>
  ELSE LET c == ClusterOf(AgbnoOf(agino), ChunkAgbno(ag, agino))
       IN <<c, (AgbnoOf(agino) - c) * Inopblock + (agino % Inopblock)>>

----------------------------------------------------------------------------
(* xfs_dir_ialloc, xfs_ialloc and xfs_dialloc *)

Now(t, rec) == th' = [th EXCEPT ![t] = rec]
Busy(i) == \E u \in Threads : th[u].pc # "idle" /\ (th[u].ino = i \/ th[u].parent = i)

\* the histories are kept by every step
Follow ==
  /\ had' = [t \in Threads |-> {g \in had[t] : ags'[g].freecount > 0}]
FollowScan == bs' = [bs EXCEPT !.must = @ \cap owned']
InFlight == {th[t].ino : t \in {u \in Threads : th[u].pc \in {"commit", "difree"}}}

NextRotor(r) == (r + 1) % MaxAgi

Create(t) ==
  /\ th[t].pc = "idle" /\ ops < MaxOps
  /\ \E p \in owned \ InFlight, c \in Creates :
       LET g == IF c.dir THEN sb.rotor ELSE IF p[1] >= MaxAgi THEN 0 ELSE p[1]
       IN /\ Now(t, [Idle EXCEPT !.pc = "select", !.need = c.need, !.okalloc = c.okalloc, !.parent = p,
                                 !.agno = g, !.start = g])
          /\ sb' = IF c.dir THEN [sb EXCEPT !.rotor = NextRotor(@)] ELSE sb
  /\ ops' = ops + 1
  /\ had' = [had EXCEPT ![t] = {g \in Groups : InodeOk(g) /\ ags[g].freecount > 0}]
  /\ UNCHANGED <<ags, owned, bs>>

\* to the next group; at the end of the first pass a second one that waits for the AGFs
Onward(r) ==
  LET g == (r.agno + 1) % MaxAgi
  IN IF g # r.start THEN [r EXCEPT !.agno = g]
     ELSE IF r.pass = 1 THEN [r EXCEPT !.agno = g, !.pass = 2] ELSE [r EXCEPT !.pc = "empty"]

HasRoom(ag, r) == /\ r.okalloc
                  /\ Cardinality(ag.free) >= r.need + IallocBlocks
                  /\ Longest(ag.free) >= IallocBlocks

\* the ceiling on the number of inodes; sb_icount is what committed transactions made it
Full == MaxIcount > 0 /\ sb.icount + IallocInodes > MaxIcount
Entered(r) == [r EXCEPT !.pc = "dialloc", !.start = r.agno, !.okalloc = @ /\ ~Full]

NeedsAgi(g) == ~ags[g].init \/ (InodeOk(g) /\ ags[g].pfree = 0 /\ ~ags[g].finit)

\* xfs_ialloc_ag_select where a counter must be read in, under the AGI lock
SelectLocked(t) ==
  LET r == th[t]  g == r.agno  ag == Locked(ags[g], t)
  IN /\ r.pc = "select" /\ NeedsAgi(g) /\ ags[g].lock = 0
     /\ \E gotAgf \in IF r.pass = 1 THEN BOOLEAN ELSE {TRUE} :
          LET pagf == ag.finit \/ (InodeOk(g) /\ ag.pfree = 0 /\ gotAgf)
              good == InodeOk(g) /\ (ag.pfree > 0 \/ (pagf /\ HasRoom(ag, r)))
          IN /\ ags' = [ags EXCEPT ![g] = [(IF good THEN ag ELSE Released(ag)) EXCEPT !.finit = pagf]]
             /\ Now(t, IF good THEN Entered(r) ELSE Onward(r))
     /\ sb' = IF InodeOk(g) THEN sb ELSE [sb EXCEPT !.rotor = NextRotor(@)]
     /\ Follow /\ UNCHANGED <<owned, bs, ops>>

\* ... and where the unlocked counters are enough
SelectLook(t) ==
  LET r == th[t]  g == r.agno
  IN /\ r.pc = "select" /\ ~NeedsAgi(g)
     /\ Now(t, IF InodeOk(g) /\ (ags[g].pfree > 0 \/ HasRoom(ags[g], r)) THEN [r EXCEPT !.pc = "readagi"]
               ELSE Onward(r))
     /\ sb' = IF InodeOk(g) THEN sb ELSE [sb EXCEPT !.rotor = NextRotor(@)]
     /\ UNCHANGED <<ags, owned, had, bs, ops>>

ReadAgi(t) ==
  LET r == th[t]
  IN /\ r.pc = "readagi" /\ ags[r.agno].lock = 0
     /\ ags' = [ags EXCEPT ![r.agno] = Locked(@, t)]
     /\ Now(t, Entered(r))
     /\ Follow /\ UNCHANGED <<sb, owned, bs, ops>>

\* a group with a free inode
Dialloc(t) ==
  LET r == th[t]  g == r.agno  ag == ags[g]
  IN /\ r.pc = "dialloc" /\ ag.freecount > 0
     /\ \E s \in {ChooseRec(ag, g, r.parent)} : \E i \in {Min(ag.recs[s])} :
          /\ ags' = [ags EXCEPT ![g] = Taken(ag, s, i)]
          /\ owned' = owned \cup {<<g, i>>}
          /\ Now(t, [r EXCEPT !.pc = "commit", !.ifree = -1, !.ino = <<g, i>>])
     /\ Follow /\ FollowScan /\ UNCHANGED <<sb, ops>>

\* a new chunk; the caller commits it and comes back with the AGI still locked
AgAlloc(t) ==
  LET r == th[t]  g == r.agno  ag == ags[g]
  IN /\ r.pc = "dialloc" /\ ag.freecount = 0 /\ r.okalloc /\ ~Full
     /\ \E b \in ChunkPlaces(ag) : ags' = [ags EXCEPT ![g] = WithChunk(ag, b)]
     /\ Now(t, [r EXCEPT !.pc = "roll", !.icount = IallocInodes, !.ifree = IallocInodes])
     /\ Follow /\ UNCHANGED <<sb, owned, bs, ops>>

\* xfs_ialloc_ag_alloc finds the ceiling reached: ENOSPC ends the search
CeilingHit(t) ==
  LET r == th[t]
  IN /\ r.pc = "dialloc" /\ ags[r.agno].freecount = 0 /\ r.okalloc /\ Full
     /\ ags' = [ags EXCEPT ![r.agno] = Released(@)]
     /\ Now(t, [r EXCEPT !.pc = "empty"])
     /\ Follow /\ UNCHANGED <<sb, owned, bs, ops>>

MutTagno(r) == LET g == (r.agno + 1) % AgCount
               IN IF g = 0 THEN [r EXCEPT !.pc = "empty"] ELSE [r EXCEPT !.pc = "next", !.agno = g]
Tagno(r) == LET g == (r.agno + 1) % AgCount
            IN IF g = r.start THEN [r EXCEPT !.pc = "empty"] ELSE [r EXCEPT !.pc = "next", !.agno = g]

GiveUpAg(t) ==
  LET r == th[t]
  IN /\ r.pc = "dialloc" /\ ags[r.agno].freecount = 0
     /\ ~r.okalloc \/ (~Full /\ ChunkPlaces(ags[r.agno]) = {})
     /\ ags' = [ags EXCEPT ![r.agno] = Released(@)]
     /\ Now(t, Tagno(r))
     /\ Follow /\ UNCHANGED <<sb, owned, bs, ops>>

NextAg(t) ==
  LET r == th[t]  g == r.agno
  IN /\ r.pc = "next"
     /\ InodeOk(g) => ags[g].lock = 0
     /\ ags' = IF InodeOk(g) THEN [ags EXCEPT ![g] = Locked(@, t)] ELSE ags
     /\ Now(t, IF InodeOk(g) THEN [r EXCEPT !.pc = "dialloc"] ELSE Tagno(r))
     /\ Follow /\ UNCHANGED <<sb, owned, bs, ops>>

Counted(r) == [sb EXCEPT !.icount = @ + r.icount, !.ifree = @ + r.ifree]

\* the transaction with the new chunk commits; xfs_dialloc is called again with the AGI
Roll(t) ==
  LET r == th[t]
  IN /\ r.pc = "roll"
     /\ sb' = Counted(r)
     /\ Now(t, [r EXCEPT !.pc = "dialloc", !.start = r.agno, !.icount = 0, !.ifree = 0])
     /\ UNCHANGED <<ags, owned, had, bs, ops>>

\* the transaction commits, and xfs_bmap_finish frees the blocks of a deleted chunk
Commit(t) ==
  LET r == th[t]  g == r.ino[1]
  IN /\ r.pc = "commit"
     /\ sb' = Counted(r)
     /\ ags' = [ags EXCEPT ![g] = [Released(@) EXCEPT !.free = @ \cup r.blocks]]
     /\ Now(t, Idle)
     /\ Follow /\ UNCHANGED <<owned, bs, ops>>

NoInode(t) ==
  /\ th[t].pc = "empty"
  /\ Now(t, Idle)
  /\ UNCHANGED <<ags, sb, owned, had, bs, ops>>

Free(t) ==
  /\ th[t].pc = "idle" /\ ops < MaxOps
  /\ \E i \in owned \ {Root} : /\ ~Busy(i)
                               /\ Now(t, [Idle EXCEPT !.pc = "difree", !.ino = i])
                               /\ bs' = [bs EXCEPT !.must = @ \ {i}]
  /\ ops' = ops + 1
  /\ UNCHANGED <<ags, sb, owned, had>>

Difree(t) ==
  LET r == th[t]  g == r.ino[1]  i == r.ino[2]
  IN /\ r.pc = "difree" /\ ags[g].lock = 0
     /\ \E s \in {Max(LookupLe(ags[g], i))} :
          /\ ags' = [ags EXCEPT ![g] = GivenBack(Locked(@, t), s, i)]
          /\ Now(t, IF DeletesChunk(ags[g], s, i)
                    THEN [r EXCEPT !.pc = "commit", !.icount = -IallocInodes, !.ifree = -(IallocInodes - 1),
                                   !.blocks = Run(AgbnoOf(s), IallocBlocks)]
                    ELSE [r EXCEPT !.pc = "commit", !.ifree = 1])
     /\ owned' = owned \ {r.ino}
     /\ Follow /\ FollowScan /\ UNCHANGED <<sb, ops>>

\* the rest of the file system takes and returns blocks (external)
UseSpace(g) ==
  /\ ops < MaxOps
  /\ \E b \in ags[g].free : ags' = [ags EXCEPT ![g].free = @ \ {b}]
  /\ ops' = ops + 1
  /\ UNCHANGED <<sb, owned, th, had, bs>>

----------------------------------------------------------------------------
(* xfs_bulkstat, called until it is done *)

\* the records copied from a group: the rest of the chunk of the last inode seen, then whole chunks
Rest(ag, agino) ==
  LET s == Max(LookupLe(ag, agino))  before == s .. agino
  IN IF LookupLe(ag, agino) # {} /\ \E i \in InChunk(s) : i > agino /\ i \notin ag.recs[s]
     THEN <<[start |-> s, free |-> ag.recs[s] \cup before, count |-> Cardinality(ag.recs[s] \cup before)]>>
     ELSE <<>>
MutAfter(ag, agino) ==
  SetToSortSeq({s \in Starts(ag) : s > agino + 1}, <)
After(ag, agino) ==
  SetToSortSeq(IF agino > 0 /\ LookupLe(ag, agino) # {} THEN {s \in Starts(ag) : s > Max(LookupLe(ag, agino))}
               ELSE Starts(ag), <)
Copy(acc, s, ag) ==
  IF Len(acc.irb) >= Nirbuf \/ acc.icount >= Ubcount THEN [acc EXCEPT !.endOfAg = FALSE]
  ELSE IF Cardinality(ag.recs[s]) = PerChunk THEN acc
  ELSE [acc EXCEPT !.irb = Append(@, [start |-> s, free |-> ag.recs[s], count |-> Cardinality(ag.recs[s])]),
                   !.icount = @ + PerChunk - Cardinality(ag.recs[s])]
Began(rest) == [irb |-> rest, icount |-> IF rest = <<>> THEN 0 ELSE PerChunk - rest[1].count, endOfAg |-> TRUE]
\* the copy stops once the room is used up, before it knows whether the group is at its end
Stopped(acc) == [acc EXCEPT !.endOfAg = @ /\ Len(acc.irb) < Nirbuf /\ acc.icount < Ubcount]
Collected(ag, agino) ==
  Stopped(FoldLeft(LAMBDA acc, s : Copy(acc, s, ag), Began(IF agino > 0 THEN Rest(ag, agino) ELSE <<>>),
                   After(ag, agino)))

NoScan == [pc |-> "idle", agno |-> 0, agino |-> 0, last |-> <<0, 0>>, irb |-> <<>>, idx |-> 0, endOfAg |-> FALSE,
           left |-> 0, seen |-> <<>>, must |-> {}]

Bulkstat ==
  /\ bs.pc = "idle" /\ Ubcount > 0
  /\ bs' = [NoScan EXCEPT !.pc = "agi", !.left = Ubcount, !.must = owned \ InFlight]
  /\ UNCHANGED <<ags, sb, owned, th, had, ops>>

BulkstatAgi ==
  /\ bs.pc = "agi" /\ ags[bs.agno].lock = 0
  /\ ags' = [ags EXCEPT ![bs.agno] = Released(Locked(@, 0))]
  /\ \E c \in {Collected(ags[bs.agno], bs.agino)} :
       bs' = [bs EXCEPT !.pc = "fmt", !.irb = c.irb, !.endOfAg = c.endOfAg, !.idx = 0]
  /\ UNCHANGED <<sb, owned, th, had, ops>>

\* the record is used up once all its allocated inodes were looked at
UsedUp == bs.irb # <<>> /\ bs.left > 0 /\ Head(bs.irb).count >= PerChunk
MoreToDo == bs.irb # <<>> /\ bs.left > 0 /\ Head(bs.irb).count < PerChunk
Here == <<bs.agno, Head(bs.irb).start + bs.idx>>

BulkstatNext ==
  /\ bs.pc = "fmt" /\ UsedUp
  /\ bs' = [bs EXCEPT !.irb = Tail(@), !.idx = 0]
  /\ UNCHANGED <<ags, sb, owned, th, had, ops>>

BulkstatSkip ==
  /\ bs.pc = "fmt" /\ MoreToDo /\ Here[2] \in Head(bs.irb).free
  /\ bs' = [bs EXCEPT !.idx = @ + 1, !.last = Here]
  /\ UNCHANGED <<ags, sb, owned, th, had, ops>>

\* xfs_bulkstat_one_iget: an inode in the middle of its create or free is found or not
BulkstatOne ==
  /\ bs.pc = "fmt" /\ MoreToDo /\ Here[2] \notin Head(bs.irb).free
  /\ \E found \in IF Here \in InFlight THEN BOOLEAN ELSE {Here \in owned} :
       bs' = [bs EXCEPT !.idx = @ + 1, !.last = Here, !.irb = [@ EXCEPT ![1].count = @ + 1],
                        !.seen = IF found THEN Append(@, Here) ELSE @, !.left = IF found THEN @ - 1 ELSE @]
  /\ UNCHANGED <<ags, sb, owned, th, had, ops>>

\* on to the rest of the group, to the next group, or back to the caller, who calls again
BulkstatOn ==
  /\ bs.pc = "fmt" /\ (bs.irb = <<>> \/ bs.left = 0)
  /\ bs' = IF bs.left > 0 /\ bs.endOfAg
           THEN [bs EXCEPT !.agno = @ + 1, !.agino = 0, !.pc = IF bs.agno + 1 = AgCount THEN "done" ELSE "agi"]
           ELSE [bs EXCEPT !.pc = "agi", !.agno = bs.last[1], !.agino = bs.last[2],
                           !.left = IF @ = 0 THEN Ubcount ELSE @]
  /\ UNCHANGED <<ags, sb, owned, th, had, ops>>

BulkstatDone ==
  /\ bs.pc = "done"
  /\ bs' = NoScan
  /\ UNCHANGED <<ags, sb, owned, th, had, ops>>

----------------------------------------------------------------------------
EmptyAg(free) == [free |-> free \ Run(0, IallocBlocks), recs |-> <<>>, bufs |-> {}, count |-> 0, freecount |-> 0, newino |-> NullAgino,
                  init |-> FALSE, pfree |-> 0, finit |-> FALSE, lock |-> 0]
\* the chunk of the root inode is there from the start
RootAg(ag) == [WithChunk(ag, IallocBlocks) EXCEPT !.recs[IallocInodes] = @ \ {IallocInodes},
                                                  !.freecount = @ - 1, !.pfree = 0]

IallocInit ==
  /\ ags = [g \in Groups |-> IF g = 0 THEN RootAg(EmptyAg(StartFree[0])) ELSE EmptyAg(StartFree[g])]
  /\ sb = [icount |-> IallocInodes, ifree |-> IallocInodes - 1, rotor |-> 0]
  /\ owned = {Root} /\ ops = 0 /\ bs = NoScan
  /\ th = [t \in Threads |-> Idle] /\ had = [t \in Threads |-> {}]

Thread(t) == \/ Create(t) \/ SelectLocked(t) \/ SelectLook(t) \/ ReadAgi(t) \/ Dialloc(t) \/ AgAlloc(t)
             \/ CeilingHit(t) \/ GiveUpAg(t) \/ NextAg(t) \/ Roll(t) \/ Commit(t) \/ NoInode(t)
             \/ Free(t) \/ Difree(t)
IallocNext == \/ \E t \in Threads : Thread(t)
              \/ \E g \in Groups : UseSpace(g)
              \/ Bulkstat \/ BulkstatAgi \/ BulkstatNext \/ BulkstatSkip \/ BulkstatOne \/ BulkstatOn \/ BulkstatDone
IallocSpec == IallocInit /\ [][IallocNext]_iallocVars

----------------------------------------------------------------------------
(* The counters of each group and the records agree, no block is an inode's and free, *)
(* the superblock counts what is committed, and the inodes in use are those that are  *)
(* not free in a record: none is given out twice or lost.                             *)
Pending(f) == MapThenSumSet(LAMBDA t : th[t][f], Threads)
TotalOf(f) == MapThenSumSet(LAMBDA g : ags[g][f], Groups)

RecordsAgree(ag) ==
  /\ ag.count = PerChunk * Cardinality(Starts(ag))
  /\ ag.freecount = Cardinality(FreeIn(ag))
  /\ ag.init => ag.pfree = ag.freecount
  /\ \A s, u \in Starts(ag) : s # u => InChunk(s) \cap InChunk(u) = {}
  /\ \A s \in Starts(ag) : ag.recs[s] \subseteq InChunk(s) /\ {AgbnoOf(i) : i \in InChunk(s)} \cap ag.free = {}

\* xfs_imap finds every inode in a cluster buffer that xfs_ialloc_ag_alloc initialised
MappedRight(ag) == \A s \in Starts(ag) : \A i \in InChunk(s) :
  \E m \in {Imap(ag, i)} : m[1] \in ag.bufs /\ m[1] * Inopblock + m[2] = i /\ m[2] < ClusterBlocks * Inopblock

InodesAreExact ==
  /\ \A g \in Groups : RecordsAgree(ags[g]) /\ MappedRight(ags[g])
  /\ owned = UNION {{<<g, i>> : i \in AllocatedIn(ags[g])} : g \in Groups}
  /\ sb.icount + Pending("icount") = TotalOf("count")
  /\ sb.ifree + Pending("ifree") = TotalOf("freecount")

\* A create that reports that there is no inode was right: no group had a free inode all the
\* while it looked (xfs_ialloc_ag_select, xfs_dialloc; unlocked counters and AGIs locked in turn).
NoFalseEnospc == \A t \in Threads : th[t].pc = "empty" => had[t] = {}

\* xfs_bulkstat reports, in order and once, every inode in use from its beginning to its end,
\* whatever is created and freed between its calls and behind the copied records.
BulkstatIsComplete ==
  /\ bs.pc = "done" => bs.must \subseteq ToSet(bs.seen)
  /\ \A j \in 1 .. Len(bs.seen) - 1 :
       \/ bs.seen[j][1] < bs.seen[j + 1][1]
       \/ bs.seen[j][1] = bs.seen[j + 1][1] /\ bs.seen[j][2] < bs.seen[j + 1][2]

\* The ceiling holds: "Locking will ensure that we don't have two callers in here at one time"
\* (xfs_ialloc_ag_alloc), so the check of sb_icount is good until the chunk is counted in it.
IcountBelowCeiling == MaxIcount > 0 => sb.icount <= MaxIcount
=============================================================================
