------------------------- MODULE XfsInodeCacheProofs -------------------------
(***************************************************************************)
(* While none of the four windows of XfsInodeCache has been hit, xfs_iget, *)
(* the VFS, xfs_sync_inodes and reclaim agree on the in-core inode         *)
(* (fs/xfs/xfs_iget.c, linux-2.6/xfs_sync.c), for any number of threads.   *)
(*                                                                         *)
(* InodeIsShared is not inductive: it says what a thread has when it has   *)
(* the inode, not what keeps the others away meanwhile. The parts below    *)
(* add that: which flags and which state of the Linux inode go with which  *)
(* place in the code, who else may be there, and that a thread that missed *)
(* is alone with an empty tree.                                            *)
(***************************************************************************)
EXTENDS XfsInodeCache, FiniteSetTheorems, TLAPS

Threads == Users \cup Walkers
Places == {0} \cup Objs
Flags == {"NEW", "RECLAIMABLE", "RECLAIM"}
Inode == [state : {"unused", "core", "freed"}, flags : SUBSET Flags, count : Int,
          vfs : {"clear", "new", "ok", "freeing"}, mode : {"used", "free"}, nlink : Int,
          dirty : BOOLEAN, dying : BOOLEAN]
\* places in the code: with pag_ici_lock held shared, and with a reference to the inode
Reads == {"hit", "wait", "live", "init", "new", "clear"}
Has == {"wait", "live", "init", "new", "clear", "got", "setup", "use", "sync"}
Stages == {"idle", "again", "hit", "miss", "insert", "noent", "dup", "found"} \cup Has

\* the types, pag_ici_lock and the inode each place in the code has
ThreadsOK ==
  /\ tree \in Places /\ pc \in [Threads -> Stages] /\ ip \in [Threads -> Places]
  /\ readers \subseteq Threads /\ \A t \in Threads : t \in readers <=> pc[t] \in Reads
  /\ \A t \in Threads : pc[t] \notin {"idle", "found", "sync"} => t \in Users
  /\ \A t \in Threads : pc[t] \in {"found", "sync"} => t \in Walkers
  /\ \A t \in Threads : pc[t] \notin {"idle", "again", "miss"} => ip[t] # 0
  /\ create \in [Users -> BOOLEAN]
  /\ ondisk \in {"used", "free"}
ObjsOK == obj \in [Objs -> Inode]

\* the tree's inode is the one whoever has looked it up works on
PlacesOK ==
  /\ tree # 0 => obj[tree].state = "core"
  /\ \A t \in Threads : pc[t] \in Reads \cup Has \cup {"found"} => tree # 0 /\ ip[t] = tree

\* a thread that missed is alone, and an inode not in the tree is the one it has read in
MissesOK ==
  /\ \A u \in Users : Missing(u) => tree = 0 /\ pc[u] # "dup"
  /\ \A u, v \in Users : Missing(u) /\ Missing(v) => u = v
  /\ \A u \in Users : pc[u] \in {"insert", "noent"} => ip[u] \in Objs /\
        LET o == obj[ip[u]] IN o.state = "core" /\ o.flags = {} /\ o.count = 1 /\ o.vfs = "clear" /\ ~o.dying
  /\ \A o \in Objs : obj[o].state = "core" => o = tree \/ \E u \in Users : pc[u] \in {"insert", "noent"} /\ ip[u] = o

\* the Linux inode's count is the number of threads that have it
CountOK == tree # 0 => obj[tree].count = Cardinality({t \in Threads : pc[t] \in Has})

\* what is being torn down, or about to be, nobody has; what the VFS has let go is found again
ReclaimOK == \A o \in Objs : o = tree =>
  /\ "RECLAIM" \in obj[o].flags => "RECLAIMABLE" \in obj[o].flags /\ \A t \in Threads : pc[t] \notin Reads
  /\ "RECLAIMABLE" \in obj[o].flags =>
       obj[o].vfs = "clear" /\ \A t \in Threads : pc[t] \in Has => pc[t] \in {"init", "new"}
  /\ obj[o].dying =>
       "RECLAIMABLE" \in obj[o].flags /\ "RECLAIM" \notin obj[o].flags /\ \A t \in Threads : pc[t] \notin Has
  /\ obj[o].vfs = "freeing" => \A t \in Threads : pc[t] \notin Has
  /\ obj[o].vfs = "clear" /\ (\A t \in Threads : pc[t] \notin Has) =>
       /\ "RECLAIMABLE" \in obj[o].flags
       /\ obj[o].dying \/ tag \/ "RECLAIM" \in obj[o].flags

\* the inode is set up by one thread
AloneOK == \A o \in Objs : o = tree =>
  /\ obj[o].vfs = "clear" => \A s, t \in Threads : pc[s] \in Has /\ pc[t] \in Has => s = t
  /\ \A s, t \in Threads : pc[s] = "setup" /\ pc[t] = "setup" => s = t

\* how far an inode is set up at each place in the code
StagesOK == \A o \in Objs : o = tree =>
  /\ obj[o].vfs = "ok" => "NEW" \notin obj[o].flags
  /\ obj[o].vfs \in {"new", "ok"} => obj[o].mode = "used"
  /\ \A t \in Threads :
       /\ pc[t] \in {"init", "new"} => "RECLAIMABLE" \in obj[o].flags
       /\ pc[t] \in {"new", "clear"} => "NEW" \in obj[o].flags
       /\ pc[t] \in {"init", "new", "clear"} => obj[o].vfs = "clear"
       /\ pc[t] = "got" => (obj[o].vfs = "clear" <=> "NEW" \in obj[o].flags)
       /\ pc[t] = "setup" => obj[o].vfs = "new"
       /\ pc[t] \in {"live", "use"} => "NEW" \notin obj[o].flags /\ obj[o].vfs # "clear"
       /\ pc[t] \in {"wait", "sync"} => obj[o].vfs # "clear"

----------------------------------------------------------------------------
\* What the actions with several outcomes do to the inode in the tree.
SameBut(o) == \A p \in Objs : p # o => obj'[p] = obj[p]
Counted(o) == /\ obj'[o].state = obj[o].state /\ obj'[o].flags = obj[o].flags /\ obj'[o].vfs = obj[o].vfs
              /\ obj'[o].mode = obj[o].mode /\ obj'[o].dying = obj[o].dying
Steps(t, p) == pc' = [pc EXCEPT ![t] = p]

Recycled(u) ==
  /\ tree \in Objs /\ ip[u] = tree /\ pc[u] = "hit" /\ "RECLAIMABLE" \in obj[tree].flags
  /\ ~obj[tree].dying /\ \A v \in Users : pc[v] \notin {"init", "new", "clear"}
  /\ tree' = tree /\ tag' = tag /\ ip' = ip /\ SameBut(tree) /\ Counted(tree)
  /\ \/ Steps(u, "idle") /\ obj'[tree].count = obj[tree].count
     \/ Steps(u, "init") /\ obj'[tree].count = 1

Igrabbed(u) ==
  /\ tree \in Objs /\ ip[u] = tree /\ pc[u] = "hit" /\ "RECLAIMABLE" \notin obj[tree].flags
  /\ tree' = tree /\ tag' = tag /\ ip' = ip /\ SameBut(tree) /\ Counted(tree)
  /\ \/ Steps(u, "again") /\ obj'[tree].count = obj[tree].count
     \/ /\ obj[tree].vfs \notin {"clear", "freeing"} /\ obj'[tree].count = obj[tree].count + 1
        /\ \/ "NEW" \in obj[tree].flags /\ Steps(u, "wait")
           \/ "NEW" \notin obj[tree].flags /\ Steps(u, "live")

Lived(u) ==
  /\ tree \in Objs /\ ip[u] = tree /\ pc[u] = "live"
  /\ tree' = tree /\ tag' = tag /\ ip' = ip /\ SameBut(tree) /\ Counted(tree)
  /\ \/ Steps(u, "idle") /\ obj'[tree].count = obj[tree].count - 1
     \/ Steps(u, "got") /\ obj'[tree].count = obj[tree].count

Inserted(u) ==
  /\ tree = 0 /\ ip[u] \in Objs /\ tree' = ip[u] /\ pc[u] = "insert" /\ readers = {}
  /\ tag' = tag /\ ip' = ip /\ Steps(u, "got") /\ SameBut(ip[u])
  /\ obj'[ip[u]] = [obj[ip[u]] EXCEPT !.flags = {"NEW"}]

WasSetUp(u) ==
  /\ tree \in Objs /\ ip[u] = tree /\ pc[u] = "got"
  /\ tree' = tree /\ tag' = tag /\ ip' = ip /\ SameBut(tree)
  /\ obj'[tree].state = obj[tree].state /\ obj'[tree].flags = obj[tree].flags
  /\ obj'[tree].dying = obj[tree].dying /\ obj'[tree].count = obj[tree].count
  /\ \/ /\ "NEW" \in obj[tree].flags /\ Steps(u, "setup")
        /\ obj'[tree].vfs = "new" /\ obj'[tree].mode = "used"
     \/ /\ "NEW" \notin obj[tree].flags /\ Steps(u, "use")
        /\ obj'[tree].vfs = obj[tree].vfs /\ obj'[tree].mode = obj[tree].mode

SetupEnded(u) ==
  /\ tree \in Objs /\ ip[u] = tree /\ pc[u] = "setup"
  /\ tree' = tree /\ tag' = tag /\ ip' = ip /\ SameBut(tree)
  /\ obj'[tree].state = obj[tree].state /\ obj'[tree].mode = obj[tree].mode
  /\ obj'[tree].dying = obj[tree].dying /\ obj'[tree].count = obj[tree].count
  /\ \/ /\ pc' = pc /\ obj'[tree].flags = obj[tree].flags \ {"NEW"} /\ obj'[tree].vfs = obj[tree].vfs
     \/ /\ "NEW" \notin obj[tree].flags /\ Steps(u, "use")
        /\ obj'[tree].vfs = "ok" /\ obj'[tree].flags = obj[tree].flags

Claimed(w) ==
  /\ tree \in Objs /\ ip[w] = tree /\ pc[w] = "found" /\ readers = {}
  /\ tree' = tree /\ tag' = tag /\ ip' = ip /\ Steps(w, "idle") /\ SameBut(tree)
  /\ obj'[tree].state = obj[tree].state /\ obj'[tree].vfs = obj[tree].vfs
  /\ obj'[tree].mode = obj[tree].mode
  /\ obj'[tree].dying = obj[tree].dying /\ obj'[tree].count = obj[tree].count
  /\ \/ obj'[tree].flags = obj[tree].flags
     \/ /\ obj'[tree].flags = obj[tree].flags \cup {"RECLAIM"}
        /\ "RECLAIMABLE" \in obj[tree].flags /\ ~obj[tree].dying

\* xfs_iget_cache_hit with XFS_IRECLAIMABLE: the only one, and nobody has the inode.
LEMMA RecycleDoes ==
  ASSUME ThreadsOK, ObjsOK, PlacesOK, NEW u \in Users, Recycle(u), raced' = {}
  PROVE  Recycled(u)
<1>1. tree \in Objs /\ ip[u] = tree /\ pc[u] = "hit" /\ "RECLAIMABLE" \in obj[tree].flags
  BY DEF ThreadsOK, PlacesOK, Recycle, Threads, Reads, Places
<1>2. ~obj[tree].dying /\ \A v \in Users : pc[v] \notin {"init", "new", "clear"}
  <2>1. /\ (IF \E v \in Users : pc[v] \in {"init", "new", "clear"} THEN {"recycle"} ELSE {}) = {}
        /\ (IF obj[tree].dying THEN {"clean"} ELSE {}) = {}
    BY <1>1 DEF Recycle
  <2> QED BY <2>1
<1>3. tree' = tree /\ tag' = tag /\ ip' = ip
  BY DEF Recycle
<1>4. CASE obj' = obj /\ Steps(u, "idle")
  BY <1>1, <1>2, <1>3, <1>4 DEF Recycled, SameBut, Counted
<1>5. CASE obj' = [obj EXCEPT ![tree].count = 1] /\ Steps(u, "init")
  <2>1. SameBut(tree) /\ Counted(tree) /\ obj'[tree].count = 1
    BY <1>1, <1>5 DEF SameBut, Counted, ObjsOK, Inode
  <2> QED BY <1>1, <1>2, <1>3, <1>5, <2>1 DEF Recycled
<1> QED BY <1>1, <1>4, <1>5 DEF Recycle, Enoent, Go, Steps

\* xfs_iget_cache_hit otherwise: igrab takes a reference or the lookup starts again.
LEMMA IgrabDoes ==
  ASSUME ThreadsOK, ObjsOK, PlacesOK, NEW u \in Users, Igrab(u)
  PROVE  Igrabbed(u)
<1>1. tree \in Objs /\ ip[u] = tree /\ pc[u] = "hit" /\ "RECLAIMABLE" \notin obj[tree].flags
  BY DEF ThreadsOK, PlacesOK, Igrab, Threads, Reads, Places
<1>3. tree' = tree /\ tag' = tag /\ ip' = ip
  BY DEF Igrab
<1>4. CASE obj' = obj /\ Steps(u, "again")
  BY <1>1, <1>3, <1>4 DEF Igrabbed, SameBut, Counted
<1>5. CASE /\ obj[tree].vfs \notin {"clear", "freeing"}
           /\ obj' = [obj EXCEPT ![tree].count = @ + 1]
           /\ Steps(u, IF "NEW" \in obj[tree].flags THEN "wait" ELSE "live")
  <2>1. SameBut(tree) /\ Counted(tree) /\ obj'[tree].count = obj[tree].count + 1
    BY <1>1, <1>5 DEF SameBut, Counted, ObjsOK, Inode
  <2>2. \/ "NEW" \in obj[tree].flags /\ Steps(u, "wait")
        \/ "NEW" \notin obj[tree].flags /\ Steps(u, "live")
    BY <1>5
  <2> QED BY <1>1, <1>3, <1>5, <2>1, <2>2 DEF Igrabbed
<1> QED BY <1>1, <1>4, <1>5 DEF Igrab, Grabbed, Go, Steps

\* xfs_iget_cache_hit after igrab.
LEMMA LiveDoes ==
  ASSUME ThreadsOK, ObjsOK, PlacesOK, NEW u \in Users, Live(u)
  PROVE  Lived(u)
<1>1. tree \in Objs /\ ip[u] = tree /\ pc[u] = "live"
  BY DEF ThreadsOK, PlacesOK, Live, Threads, Reads, Places
<1>3. tree' = tree /\ tag' = tag /\ ip' = ip
  BY DEF Live
<1>4. CASE obj' = obj /\ Steps(u, "got")
  BY <1>1, <1>3, <1>4 DEF Lived, SameBut, Counted
<1>5. CASE obj' = [obj EXCEPT ![tree].count = @ - 1] /\ Steps(u, "idle")
  <2>1. SameBut(tree) /\ Counted(tree) /\ obj'[tree].count = obj[tree].count - 1
    BY <1>1, <1>5 DEF SameBut, Counted, ObjsOK, Inode
  <2> QED BY <1>1, <1>3, <1>5, <2>1 DEF Lived
<1> QED BY <1>1, <1>4, <1>5 DEF Live, Enoent, Go, Steps

\* xfs_iget_cache_miss finds the tree still empty.
LEMMA InsertDoes ==
  ASSUME ThreadsOK, ObjsOK, MissesOK, NEW u \in Users, Insert(u)
  PROVE  Inserted(u)
<1>1. tree = 0 /\ ip[u] \in Objs /\ pc[u] = "insert" /\ obj[ip[u]].flags = {}
  BY DEF MissesOK, Missing, Insert
<1>2. /\ tree' = ip[u] /\ Steps(u, "got") /\ tag' = tag /\ ip' = ip /\ readers = {}
      /\ obj' = [obj EXCEPT ![ip[u]].flags = @ \cup {"NEW"}]
  BY <1>1 DEF Insert, Set, Go, Steps
<1>3. {} \cup {"NEW"} = {"NEW"}
  OBVIOUS
<1>4. SameBut(ip[u]) /\ obj'[ip[u]] = [obj[ip[u]] EXCEPT !.flags = {"NEW"}]
  BY <1>1, <1>2, <1>3 DEF SameBut, ObjsOK
<1> QED BY <1>1, <1>2, <1>4 DEF Inserted

\* xfs_setup_inode, by the thread that finds XFS_INEW.
LEMMA SetupInodeDoes ==
  ASSUME ThreadsOK, ObjsOK, PlacesOK, NEW u \in Users, SetupInode(u)
  PROVE  WasSetUp(u)
<1>1. tree \in Objs /\ ip[u] = tree /\ pc[u] = "got"
  BY DEF ThreadsOK, PlacesOK, SetupInode, Threads, Has, Places
<1>3. tree' = tree /\ tag' = tag /\ ip' = ip
  BY DEF SetupInode
<1>4. CASE "NEW" \notin obj[tree].flags /\ obj' = obj /\ Steps(u, "use")
  BY <1>1, <1>3, <1>4 DEF WasSetUp, SameBut
<1>5. CASE /\ "NEW" \in obj[tree].flags /\ Steps(u, "setup")
           /\ obj' = [obj EXCEPT ![tree].vfs = "new", ![tree].mode = "used", ![tree].dirty = @ \/ create[u],
                                 ![tree].nlink = IF create[u] THEN 1 ELSE @]
  <2>1. /\ SameBut(tree) /\ obj'[tree].vfs = "new" /\ obj'[tree].mode = "used"
        /\ obj'[tree].state = obj[tree].state /\ obj'[tree].flags = obj[tree].flags
        /\ obj'[tree].dying = obj[tree].dying /\ obj'[tree].count = obj[tree].count
    BY <1>1, <1>5 DEF SameBut, ObjsOK, Inode
  <2> QED BY <1>1, <1>3, <1>5, <2>1 DEF WasSetUp
<1> QED BY <1>1, <1>4, <1>5 DEF SetupInode, Go, Steps

\* The end of xfs_setup_inode.
LEMMA SetupDoneDoes ==
  ASSUME ThreadsOK, ObjsOK, PlacesOK, NEW u \in Users, SetupDone(u)
  PROVE  SetupEnded(u)
<1>1. tree \in Objs /\ ip[u] = tree /\ pc[u] = "setup"
  BY DEF ThreadsOK, PlacesOK, SetupDone, Threads, Has, Places
<1>3. tree' = tree /\ tag' = tag /\ ip' = ip
  BY DEF SetupDone
<1>4. CASE obj' = [obj EXCEPT ![tree].flags = @ \ {"NEW"}] /\ pc' = pc
  <2>1. /\ SameBut(tree) /\ obj'[tree].flags = obj[tree].flags \ {"NEW"} /\ obj'[tree].vfs = obj[tree].vfs
        /\ obj'[tree].state = obj[tree].state /\ obj'[tree].mode = obj[tree].mode
        /\ obj'[tree].dying = obj[tree].dying /\ obj'[tree].count = obj[tree].count
    BY <1>1, <1>4 DEF SameBut, ObjsOK, Inode
  <2> QED BY <1>1, <1>3, <1>4, <2>1 DEF SetupEnded
<1>5. CASE "NEW" \notin obj[tree].flags /\ obj' = [obj EXCEPT ![tree].vfs = "ok"] /\ Steps(u, "use")
  <2>1. /\ SameBut(tree) /\ obj'[tree].flags = obj[tree].flags /\ obj'[tree].vfs = "ok"
        /\ obj'[tree].state = obj[tree].state /\ obj'[tree].mode = obj[tree].mode
        /\ obj'[tree].dying = obj[tree].dying /\ obj'[tree].count = obj[tree].count
    BY <1>1, <1>5 DEF SameBut, ObjsOK, Inode
  <2> QED BY <1>1, <1>3, <1>5, <2>1 DEF SetupEnded
<1> QED BY <1>1, <1>4, <1>5 DEF SetupDone, Go, Steps

\* xfs_reclaim_inode for a walker takes the inode only when it is still reclaimable.
LEMMA ReclaimInodeDoes ==
  ASSUME ThreadsOK, ObjsOK, PlacesOK, NEW w \in Walkers, ReclaimInode(w), raced' = {}
  PROVE  Claimed(w)
<1>1. tree \in Objs /\ ip[w] = tree /\ pc[w] = "found" /\ readers = {}
  BY DEF ThreadsOK, PlacesOK, ReclaimInode, Threads, Places
<1>2. ~obj[tree].dying
  BY <1>1 DEF ReclaimInode, Hit
<1>3. tree' = tree /\ tag' = tag /\ ip' = ip /\ Steps(w, "idle")
  BY DEF ReclaimInode, Go, Steps
<1>4. CASE obj' = obj
  BY <1>1, <1>3, <1>4 DEF Claimed, SameBut
<1>5. CASE "RECLAIMABLE" \in obj[tree].flags /\ obj' = [obj EXCEPT ![tree].flags = @ \cup {"RECLAIM"}]
  <2>1. /\ SameBut(tree) /\ obj'[tree].flags = obj[tree].flags \cup {"RECLAIM"} /\ obj'[tree].vfs = obj[tree].vfs
        /\ obj'[tree].state = obj[tree].state /\ obj'[tree].mode = obj[tree].mode
        /\ obj'[tree].dying = obj[tree].dying /\ obj'[tree].count = obj[tree].count
    BY <1>1, <1>5 DEF SameBut, ObjsOK, Inode
  <2> QED BY <1>1, <1>2, <1>3, <1>5, <2>1 DEF Claimed
<1> QED BY <1>1, <1>4, <1>5 DEF ReclaimInode, Set

\* Another inode of the type in one place.
LEMMA Changed ==
  ASSUME ObjsOK, NEW o, NEW r, o \in Objs => r \in Inode, obj' = [obj EXCEPT ![o] = r]
  PROVE  ObjsOK'
BY DEF ObjsOK

\* With a count of zero nobody has the inode.
LEMMA NobodyHasIt ==
  ASSUME CountOK, tree # 0, obj[tree].count = 0
  PROVE  \A t \in Threads : pc[t] \notin Has
<1> DEFINE H == {t \in Threads : pc[t] \in Has}
<1>1. IsFiniteSet(H)
  BY CacheAssumption, FS_Union, FS_Subset DEF Threads
<1>2. Cardinality(H) = 0
  BY DEF CountOK
<1>3. H = {}
  BY <1>1, <1>2, FS_EmptySet
<1> QED BY <1>3

\* no thread gets or drops the inode
HoldersStay == \A t \in Threads : pc'[t] \in Has <=> pc[t] \in Has

\* The count stays with those it counts.
LEMMA SameHolders ==
  ASSUME CountOK, tree' = tree, tree # 0 => obj'[tree].count = obj[tree].count, HoldersStay
  PROVE  CountOK'
<1> DEFINE H == {t \in Threads : pc[t] \in Has}
<1>1. H' = H
  BY DEF HoldersStay
<1> QED BY <1>1 DEF CountOK

\* igrab.
LEMMA OneComes ==
  ASSUME ThreadsOK, CountOK, tree' = tree, tree # 0, obj'[tree].count = obj[tree].count + 1,
         NEW u \in Threads, NEW p \in Has, pc[u] \notin Has, Steps(u, p)
  PROVE  CountOK'
<1> DEFINE H == {t \in Threads : pc[t] \in Has}
<1>1. IsFiniteSet(H)
  BY CacheAssumption, FS_Union, FS_Subset DEF Threads
<1>2. H' = H \cup {u} /\ u \notin H
  BY DEF ThreadsOK, Steps
<1>3. Cardinality(H') = Cardinality(H) + 1
  BY <1>1, <1>2, FS_AddElement
<1> QED BY <1>3 DEF CountOK

\* iput.
LEMMA OneLeaves ==
  ASSUME ThreadsOK, CountOK, tree' = tree, tree # 0, obj'[tree].count = obj[tree].count - 1,
         NEW u \in Threads, NEW p \in Stages \ Has, pc[u] \in Has, Steps(u, p)
  PROVE  CountOK'
<1> DEFINE H == {t \in Threads : pc[t] \in Has}
<1>1. IsFiniteSet(H)
  BY CacheAssumption, FS_Union, FS_Subset DEF Threads
<1>2. H' = H \ {u} /\ u \in H
  BY DEF ThreadsOK, Steps
<1>3. Cardinality(H') = Cardinality(H) - 1
  BY <1>1, <1>2, FS_RemoveElement
<1> QED BY <1>3 DEF CountOK

\* The first reference.
LEMMA FirstComes ==
  ASSUME ThreadsOK, tree' # 0, obj'[tree'].count = 1, \A t \in Threads : pc[t] \notin Has,
         NEW u \in Threads, NEW p \in Has, Steps(u, p)
  PROVE  CountOK'
<1> DEFINE H == {t \in Threads : pc[t] \in Has}
<1>1. H' = {u}
  BY DEF ThreadsOK, Steps
<1>2. Cardinality(H') = 1
  BY <1>1, FS_Singleton
<1> QED BY <1>2 DEF CountOK

\* An empty tree counts nothing.
LEMMA TreeEmpties == ASSUME tree' = 0 PROVE CountOK'
BY DEF CountOK

\* Every step counts the references.
LEMMA CountOKStep ==
  ASSUME ThreadsOK, ObjsOK, PlacesOK, MissesOK, CountOK, ReclaimOK, CacheNext, raced' = {}
  PROVE  CountOK'
<1>1. ASSUME NEW u \in Users, Iget(u) PROVE CountOK'
  <2>1. HoldersStay
    BY <1>1 DEF Iget, HoldersStay, Has, Go
  <2>2. tree' = tree /\ (tree # 0 => obj'[tree].count = obj[tree].count)
    BY <1>1 DEF Iget, ThreadsOK, ObjsOK, Inode, Places
  <2> QED BY <2>1, <2>2, SameHolders
<1>2. ASSUME NEW u \in Users, Lookup(u) PROVE CountOK'
  <2>1. HoldersStay
    BY <1>2 DEF Lookup, HoldersStay, ThreadsOK, Has, Go
  <2>2. tree' = tree /\ (tree # 0 => obj'[tree].count = obj[tree].count)
    BY <1>2 DEF Lookup, ThreadsOK, ObjsOK, Inode, Places
  <2> QED BY <2>1, <2>2, SameHolders
<1>3. ASSUME NEW u \in Users, Recycle(u) PROVE CountOK'
  <2>1. Recycled(u)
    BY <1>3, RecycleDoes
  <2>2. u \in Threads /\ tree # 0 /\ tree' = tree /\ "init" \in Has
    BY <2>1 DEF Recycled, Threads, Objs, Has
  <2>3. CASE Steps(u, "idle") /\ obj'[tree].count = obj[tree].count
    <3>1. HoldersStay
      BY <2>1, <2>3 DEF Recycled, HoldersStay, Steps, ThreadsOK, Has
    <3> QED BY <2>2, <2>3, <3>1, SameHolders
  <2>4. CASE Steps(u, "init") /\ obj'[tree].count = 1
    <3>1. \A t \in Threads : pc[t] \notin Has
      BY <2>1 DEF Recycled, ReclaimOK, ThreadsOK
    <3> QED BY <2>2, <2>4, <3>1, FirstComes
  <2> QED BY <2>1, <2>3, <2>4 DEF Recycled
<1>4. ASSUME NEW u \in Users, SetNew(u) PROVE CountOK'
  <2>1. HoldersStay
    BY <1>4 DEF SetNew, HoldersStay, Has, Go
  <2>2. tree' = tree /\ (tree # 0 => obj'[tree].count = obj[tree].count)
    BY <1>4 DEF SetNew, Set
  <2> QED BY <2>1, <2>2, SameHolders
<1>5. ASSUME NEW u \in Users, ClearReclaimable(u) PROVE CountOK'
  <2>1. HoldersStay
    BY <1>5 DEF ClearReclaimable, HoldersStay, Has, Go
  <2>2. tree' = tree /\ (tree # 0 => obj'[tree].count = obj[tree].count)
    BY <1>5 DEF ClearReclaimable, ThreadsOK, ObjsOK, Inode, Places
  <2> QED BY <2>1, <2>2, SameHolders
<1>6. ASSUME NEW u \in Users, ClearTag(u) PROVE CountOK'
  <2>1. HoldersStay
    BY <1>6 DEF ClearTag, HoldersStay, Has, Go
  <2>2. tree' = tree /\ (tree # 0 => obj'[tree].count = obj[tree].count)
    BY <1>6 DEF ClearTag, ThreadsOK, ObjsOK, Inode, Places
  <2> QED BY <2>1, <2>2, SameHolders
<1>7. ASSUME NEW u \in Users, Igrab(u) PROVE CountOK'
  <2>1. Igrabbed(u)
    BY <1>7, IgrabDoes
  <2>2. u \in Threads /\ tree # 0 /\ tree' = tree /\ pc[u] \notin Has /\ "wait" \in Has /\ "live" \in Has
    BY <2>1 DEF Igrabbed, Threads, Objs, Has
  <2>3. CASE Steps(u, "again") /\ obj'[tree].count = obj[tree].count
    <3>1. HoldersStay
      BY <2>1, <2>3 DEF Igrabbed, HoldersStay, Steps, ThreadsOK, Has
    <3> QED BY <2>2, <2>3, <3>1, SameHolders
  <2>4. CASE obj'[tree].count = obj[tree].count + 1 /\ (Steps(u, "wait") \/ Steps(u, "live"))
    <3>1. CASE Steps(u, "wait")
      BY <2>2, <2>4, <3>1, OneComes
    <3>2. CASE Steps(u, "live")
      BY <2>2, <2>4, <3>2, OneComes
    <3> QED BY <2>4, <3>1, <3>2
  <2> QED BY <2>1, <2>3, <2>4 DEF Igrabbed
<1>8. ASSUME NEW u \in Users, WaitOnInode(u) PROVE CountOK'
  <2>1. HoldersStay
    BY <1>8 DEF WaitOnInode, HoldersStay, Has, Go
  <2>2. tree' = tree /\ (tree # 0 => obj'[tree].count = obj[tree].count)
    BY <1>8 DEF WaitOnInode, ThreadsOK, ObjsOK, Inode, Places
  <2> QED BY <2>1, <2>2, SameHolders
<1>9. ASSUME NEW u \in Users, Live(u) PROVE CountOK'
  <2>1. Lived(u)
    BY <1>9, LiveDoes
  <2>2. u \in Threads /\ tree # 0 /\ tree' = tree /\ pc[u] \in Has /\ "idle" \in Stages \ Has
    BY <2>1 DEF Lived, Threads, Objs, Has, Stages
  <2>3. CASE Steps(u, "got") /\ obj'[tree].count = obj[tree].count
    <3>1. HoldersStay
      BY <2>1, <2>3 DEF Lived, HoldersStay, Steps, ThreadsOK, Has
    <3> QED BY <2>2, <2>3, <3>1, SameHolders
  <2>4. CASE obj'[tree].count = obj[tree].count - 1 /\ Steps(u, "idle")
    BY <2>2, <2>4, OneLeaves
  <2> QED BY <2>1, <2>3, <2>4 DEF Lived
<1>10. ASSUME NEW u \in Users, Read(u) PROVE CountOK'
  <2>1. HoldersStay
    BY <1>10 DEF Read, HoldersStay, ThreadsOK, Has, Go
  <2>2. tree' = tree /\ (tree # 0 => obj'[tree].count = obj[tree].count)
    BY <1>10 DEF Read, PlacesOK, ObjsOK, Inode
  <2> QED BY <2>1, <2>2, SameHolders
<1>11. ASSUME NEW u \in Users, Insert(u) PROVE CountOK'
  <2>1. Inserted(u)
    BY <1>11, InsertDoes
  <2>2. tree' # 0 /\ Steps(u, "got") /\ u \in Threads /\ "got" \in Has
    BY <2>1 DEF Inserted, Objs, Threads, Has
  <2>3. \A t \in Threads : pc[t] \notin Has
    BY <2>1 DEF Inserted, PlacesOK
  <2>4. obj'[tree'].count = 1
    BY <2>1 DEF Inserted, MissesOK, ObjsOK, Inode
  <2> QED BY <2>2, <2>3, <2>4, FirstComes
<1>12. ASSUME NEW u \in Users, DestroyInode(u) PROVE CountOK'
  BY <1>12, TreeEmpties DEF DestroyInode
<1>13. ASSUME NEW u \in Users, SetupInode(u) PROVE CountOK'
  <2>1. WasSetUp(u)
    BY <1>13, SetupInodeDoes
  <2>2. HoldersStay
    BY <2>1 DEF WasSetUp, HoldersStay, Steps, ThreadsOK, Has
  <2> QED BY <2>1, <2>2, SameHolders DEF WasSetUp
<1>14. ASSUME NEW u \in Users, SetupDone(u) PROVE CountOK'
  <2>1. SetupEnded(u)
    BY <1>14, SetupDoneDoes
  <2>2. HoldersStay
    BY <2>1 DEF SetupEnded, HoldersStay, Steps, ThreadsOK, Has
  <2> QED BY <2>1, <2>2, SameHolders DEF SetupEnded
<1>15. ASSUME NEW u \in Users, Modify(u) PROVE CountOK'
  <2>1. HoldersStay
    BY <1>15 DEF Modify, HoldersStay, ThreadsOK, Threads, Has
  <2>2. tree' = tree /\ (tree # 0 => obj'[tree].count = obj[tree].count)
    BY <1>15 DEF Modify, ThreadsOK, ObjsOK, Inode, Places
  <2> QED BY <2>1, <2>2, SameHolders
<1>16. ASSUME NEW u \in Users, Irele(u) PROVE CountOK'
  <2>1. u \in Threads /\ tree # 0 /\ ip[u] = tree /\ tree \in Objs /\ pc[u] \in Has /\ "idle" \in Stages \ Has
    BY <1>16 DEF Irele, PlacesOK, ThreadsOK, Threads, Places, Has, Stages
  <2>2. tree' = tree /\ Steps(u, "idle") /\ obj' = [obj EXCEPT ![tree].count = @ - 1]
    BY <1>16, <2>1 DEF Irele, Go, Steps
  <2>3. obj'[tree].count = obj[tree].count - 1
    BY <2>1, <2>2 DEF ObjsOK, Inode
  <2> QED BY <2>1, <2>2, <2>3, OneLeaves
<1>17. ASSUME NEW o \in Objs, ClearInode(o) PROVE CountOK'
  <2>1. HoldersStay
    BY <1>17 DEF ClearInode, HoldersStay, ThreadsOK, Threads, Has
  <2>2. tree' = tree /\ (tree # 0 => obj'[tree].count = obj[tree].count)
    BY <1>17 DEF ClearInode, ThreadsOK, ObjsOK, Inode, Places
  <2> QED BY <2>1, <2>2, SameHolders
<1>18. ASSUME NEW o \in Objs, DestroyVfs(o) PROVE CountOK'
  <2>1. HoldersStay
    BY <1>18 DEF DestroyVfs, HoldersStay, ThreadsOK, Threads, Has
  <2>2. tree' = tree /\ (tree # 0 => obj'[tree].count = obj[tree].count)
    BY <1>18 DEF DestroyVfs, ThreadsOK, ObjsOK, Inode, Places
  <2> QED BY <2>1, <2>2, SameHolders
<1>19. ASSUME NEW o \in Objs, ReclaimClean(o) PROVE CountOK'
  <2>1. HoldersStay
    BY <1>19 DEF ReclaimClean, HoldersStay, ThreadsOK, Threads, Has
  <2>2. tree' = tree /\ (tree # 0 => obj'[tree].count = obj[tree].count)
    BY <1>19 DEF ReclaimClean, ThreadsOK, ObjsOK, Inode, Places, Mark
  <2> QED BY <2>1, <2>2, SameHolders
<1>20. ASSUME NEW o \in Objs, Ireclaim(o) PROVE CountOK'
  BY <1>20, TreeEmpties DEF Ireclaim
<1>21. ASSUME NEW w \in Walkers, FindTagged(w) PROVE CountOK'
  <2>1. HoldersStay
    BY <1>21 DEF FindTagged, HoldersStay, Has, Go
  <2>2. tree' = tree /\ (tree # 0 => obj'[tree].count = obj[tree].count)
    BY <1>21 DEF FindTagged, ThreadsOK, ObjsOK, Inode, Places
  <2> QED BY <2>1, <2>2, SameHolders
<1>22. ASSUME NEW w \in Walkers, ReclaimInode(w) PROVE CountOK'
  <2>1. Claimed(w)
    BY <1>22, ReclaimInodeDoes
  <2>2. HoldersStay
    BY <2>1 DEF Claimed, HoldersStay, Steps, ThreadsOK, Has
  <2> QED BY <2>1, <2>2, SameHolders DEF Claimed
<1>23. ASSUME NEW w \in Walkers, SyncGrab(w) PROVE CountOK'
  <2>1. w \in Threads /\ tree # 0 /\ tree \in Objs /\ pc[w] \notin Has /\ "sync" \in Has
    BY <1>23 DEF SyncGrab, ThreadsOK, Threads, Places, Has
  <2>2. tree' = tree /\ Steps(w, "sync") /\ obj' = [obj EXCEPT ![tree].count = @ + 1]
    BY <1>23 DEF SyncGrab, Go, Steps
  <2>3. obj'[tree].count = obj[tree].count + 1
    BY <2>1, <2>2 DEF ObjsOK, Inode
  <2> QED BY <2>1, <2>2, <2>3, OneComes
<1>24. ASSUME NEW w \in Walkers, SyncInode(w) PROVE CountOK'
  <2>1. w \in Threads /\ tree # 0 /\ ip[w] = tree /\ tree \in Objs /\ pc[w] \in Has /\ "idle" \in Stages \ Has
    BY <1>24 DEF SyncInode, PlacesOK, ThreadsOK, Threads, Places, Has, Stages
  <2>2. tree' = tree /\ Steps(w, "idle")
    BY <1>24 DEF SyncInode, Go, Steps
  <2>3. obj'[tree].count = obj[tree].count - 1
    BY <1>24, <2>1 DEF SyncInode, ObjsOK, Inode
  <2> QED BY <2>1, <2>2, <2>3, OneLeaves
<1> QED
  BY <1>1, <1>2, <1>3, <1>4, <1>5, <1>6, <1>7, <1>8, <1>9, <1>10, <1>11, <1>12, <1>13, <1>14, <1>15, <1>16,
     <1>17, <1>18, <1>19, <1>20, <1>21, <1>22, <1>23, <1>24 DEF CacheNext, Caller, Core, Walk

\* Every step keeps the threads where their place in the code says.
LEMMA ThreadsOKStep ==
  ASSUME ThreadsOK, ObjsOK, CacheNext
  PROVE  ThreadsOK'
<1>1. ASSUME NEW u \in Users, Iget(u) PROVE ThreadsOK'
  BY <1>1 DEF ThreadsOK, Threads, Places, Objs, Stages, Reads, Has, Go, Iget
<1>2. ASSUME NEW u \in Users, Lookup(u) PROVE ThreadsOK'
  BY <1>2 DEF ThreadsOK, Threads, Stages, Reads, Go, Lookup
<1>3. ASSUME NEW u \in Users, Recycle(u) PROVE ThreadsOK'
  BY <1>3 DEF ThreadsOK, Threads, Places, Objs, Stages, Reads, Has, Go, Unlock, Enoent, Recycle
<1>4. ASSUME NEW u \in Users, SetNew(u) PROVE ThreadsOK'
  BY <1>4 DEF ThreadsOK, Threads, Stages, Reads, Has, Go, SetNew
<1>5. ASSUME NEW u \in Users, ClearReclaimable(u) PROVE ThreadsOK'
  BY <1>5 DEF ThreadsOK, Threads, Stages, Reads, Has, Go, ClearReclaimable
<1>6. ASSUME NEW u \in Users, ClearTag(u) PROVE ThreadsOK'
  BY <1>6 DEF ThreadsOK, Threads, Stages, Reads, Has, Go, Unlock, ClearTag
<1>7. ASSUME NEW u \in Users, Igrab(u) PROVE ThreadsOK'
  BY <1>7 DEF ThreadsOK, Stages, Reads, Has, Go, Unlock, Igrab
<1>8. ASSUME NEW u \in Users, WaitOnInode(u) PROVE ThreadsOK'
  BY <1>8 DEF ThreadsOK, Threads, Stages, Reads, Has, Go, WaitOnInode
<1>9. ASSUME NEW u \in Users, Live(u) PROVE ThreadsOK'
  BY <1>9 DEF ThreadsOK, Threads, Places, Objs, Stages, Reads, Has, Go, Unlock, Enoent, Live
<1>10. ASSUME NEW u \in Users, Read(u) PROVE ThreadsOK'
  BY <1>10 DEF ThreadsOK, Threads, Places, Objs, Stages, Reads, Go, Read
<1>11. ASSUME NEW u \in Users, Insert(u) PROVE ThreadsOK'
  BY <1>11 DEF ThreadsOK, Threads, Stages, Reads, Has, Go, Insert
<1>12. ASSUME NEW u \in Users, DestroyInode(u) PROVE ThreadsOK'
  BY <1>12 DEF ThreadsOK, Threads, Places, Stages, Reads, Go, DestroyInode
<1>13. ASSUME NEW u \in Users, SetupInode(u) PROVE ThreadsOK'
  BY <1>13 DEF ThreadsOK, Stages, Reads, Has, Go, SetupInode
<1>14. ASSUME NEW u \in Users, SetupDone(u) PROVE ThreadsOK'
  BY <1>14 DEF ThreadsOK, Threads, Places, Objs, Stages, Reads, Has, Go, SetupDone
<1>15. ASSUME NEW u \in Users, Modify(u) PROVE ThreadsOK'
  BY <1>15 DEF ThreadsOK, Modify
<1>16. ASSUME NEW u \in Users, Irele(u) PROVE ThreadsOK'
  BY <1>16 DEF ThreadsOK, Threads, Stages, Reads, Go, Irele
<1>17. ASSUME NEW o \in Objs, ClearInode(o) PROVE ThreadsOK'
  BY <1>17 DEF ThreadsOK, ClearInode
<1>18. ASSUME NEW o \in Objs, DestroyVfs(o) PROVE ThreadsOK'
  BY <1>18 DEF ThreadsOK, DestroyVfs
<1>19. ASSUME NEW o \in Objs, ReclaimClean(o) PROVE ThreadsOK'
  BY <1>19 DEF ThreadsOK, ReclaimClean
<1>20. ASSUME NEW o \in Objs, Ireclaim(o) PROVE ThreadsOK'
  <2>1. ondisk' \in {"used", "free"}
    BY <1>20 DEF Ireclaim, ThreadsOK, ObjsOK, Inode
  <2>2. tree' = 0 /\ UNCHANGED <<pc, ip, create, readers>>
    BY <1>20 DEF Ireclaim
  <2> QED BY <2>1, <2>2 DEF ThreadsOK, Places
<1>21. ASSUME NEW w \in Walkers, FindTagged(w) PROVE ThreadsOK'
  BY <1>21 DEF ThreadsOK, Threads, Stages, Reads, Go, FindTagged
<1>22. ASSUME NEW w \in Walkers, ReclaimInode(w) PROVE ThreadsOK'
  BY <1>22 DEF ThreadsOK, Threads, Stages, Reads, Go, ReclaimInode
<1>23. ASSUME NEW w \in Walkers, SyncGrab(w) PROVE ThreadsOK'
  BY <1>23 DEF ThreadsOK, Threads, Stages, Reads, Has, Go, SyncGrab
<1>24. ASSUME NEW w \in Walkers, SyncInode(w) PROVE ThreadsOK'
  <2>1. obj[ip[w]].mode \in {"used", "free"}
    BY <1>24 DEF SyncInode, ThreadsOK, ObjsOK, Inode, Places, Threads
  <2>2. ondisk' \in {"used", "free"}
    BY <1>24, <2>1 DEF SyncInode, ThreadsOK
  <2> QED BY <1>24, <2>2 DEF SyncInode, Go, ThreadsOK, Threads, Stages, Reads
<1> QED
  BY <1>1, <1>2, <1>3, <1>4, <1>5, <1>6, <1>7, <1>8, <1>9, <1>10, <1>11, <1>12, <1>13, <1>14, <1>15, <1>16,
     <1>17, <1>18, <1>19, <1>20, <1>21, <1>22, <1>23, <1>24 DEF CacheNext, Caller, Core, Walk

\* Every step keeps the in-core inodes of their type.
LEMMA ObjsOKStep ==
  ASSUME ThreadsOK, ObjsOK, CacheNext
  PROVE  ObjsOK'
<1>1. ASSUME NEW u \in Users, Iget(u) PROVE ObjsOK'
  BY <1>1 DEF ObjsOK, Iget
<1>2. ASSUME NEW u \in Users, Lookup(u) PROVE ObjsOK'
  BY <1>2 DEF ObjsOK, Lookup
<1>3. ASSUME NEW u \in Users, Recycle(u) PROVE ObjsOK'
  BY <1>3 DEF ObjsOK, Inode, Recycle
<1>4. ASSUME NEW u \in Users, SetNew(u) PROVE ObjsOK'
  <2>1. ip[u] \in Objs => [obj[ip[u]] EXCEPT !.flags = @ \cup {"NEW"}] \in Inode
    BY DEF ObjsOK, Inode, Flags
  <2> QED BY <1>4, <2>1, Changed DEF SetNew, Set
<1>5. ASSUME NEW u \in Users, ClearReclaimable(u) PROVE ObjsOK'
  <2>1. ip[u] \in Objs => [obj[ip[u]] EXCEPT !.flags = @ \ {"RECLAIMABLE"}] \in Inode
    BY DEF ObjsOK, Inode, Flags
  <2> QED BY <1>5, <2>1, Changed DEF ClearReclaimable
<1>6. ASSUME NEW u \in Users, ClearTag(u) PROVE ObjsOK'
  BY <1>6 DEF ObjsOK, ClearTag
<1>7. ASSUME NEW u \in Users, Igrab(u) PROVE ObjsOK'
  BY <1>7 DEF ObjsOK, Inode, Igrab
<1>8. ASSUME NEW u \in Users, WaitOnInode(u) PROVE ObjsOK'
  BY <1>8 DEF ObjsOK, WaitOnInode
<1>9. ASSUME NEW u \in Users, Live(u) PROVE ObjsOK'
  BY <1>9 DEF ObjsOK, Inode, Live
<1>10. ASSUME NEW u \in Users, Read(u) PROVE ObjsOK'
  <2>1. PICK o \in Objs :
          obj' = [obj EXCEPT ![o] = [NoObj EXCEPT !.state = "core", !.count = 1, !.mode = ondisk,
                                                  !.nlink = IF ondisk = "used" THEN 1 ELSE 0]]
    BY <1>10 DEF Read
  <2>2. 1 \in Int /\ (IF ondisk = "used" THEN 1 ELSE 0) \in Int /\ NoObj \in Inode
    BY DEF NoObj, Inode, Flags
  <2>3. [NoObj EXCEPT !.state = "core", !.count = 1, !.mode = ondisk,
                      !.nlink = IF ondisk = "used" THEN 1 ELSE 0] \in Inode
    BY <2>2 DEF Inode, ThreadsOK
  <2> QED BY <2>1, <2>3, Changed
<1>11. ASSUME NEW u \in Users, Insert(u) PROVE ObjsOK'
  BY <1>11 DEF ObjsOK, Inode, Flags, Set, Insert
<1>12. ASSUME NEW u \in Users, DestroyInode(u) PROVE ObjsOK'
  <2>1. NoObj \in Inode
    BY DEF NoObj, Inode, Flags
  <2> QED BY <1>12, <2>1, Changed DEF DestroyInode
<1>13. ASSUME NEW u \in Users, SetupInode(u) PROVE ObjsOK'
  BY <1>13 DEF ObjsOK, Inode, SetupInode
<1>14. ASSUME NEW u \in Users, SetupDone(u) PROVE ObjsOK'
  BY <1>14 DEF ObjsOK, Inode, SetupDone
<1>15. ASSUME NEW u \in Users, Modify(u) PROVE ObjsOK'
  <2>1. PICK n \in {0, 1} : obj' = [obj EXCEPT ![ip[u]].dirty = TRUE, ![ip[u]].nlink = n]
    BY <1>15 DEF Modify
  <2>2. obj' = [obj EXCEPT ![ip[u]] = [obj[ip[u]] EXCEPT !.dirty = TRUE, !.nlink = n]]
    BY <2>1 DEF ObjsOK, Inode
  <2>3. n \in Int
    OBVIOUS
  <2>4. ip[u] \in Objs => [obj[ip[u]] EXCEPT !.dirty = TRUE, !.nlink = n] \in Inode
    BY <2>3 DEF ObjsOK, Inode
  <2> QED BY <2>2, <2>4, Changed
<1>16. ASSUME NEW u \in Users, Irele(u) PROVE ObjsOK'
  <2>1. ip[u] \in Objs => [obj[ip[u]] EXCEPT !.count = @ - 1] \in Inode
    BY DEF ObjsOK, Inode, Flags
  <2> QED BY <1>16, <2>1, Changed DEF Irele
<1>17. ASSUME NEW o \in Objs, ClearInode(o) PROVE ObjsOK'
  <2> DEFINE dirty == obj[o].dirty \/ (obj[o].nlink = 0 /\ obj[o].mode # "free")
             mode == IF obj[o].nlink = 0 THEN "free" ELSE obj[o].mode
             r == [obj[o] EXCEPT !.vfs = "freeing", !.mode = mode, !.dirty = dirty]
  <2>1. dirty \in BOOLEAN /\ mode \in {"used", "free"}
    BY DEF ObjsOK, Inode
  <2>2. obj' = [obj EXCEPT ![o] = r]
    BY <1>17 DEF ClearInode, ObjsOK, Inode
  <2>3. r \in Inode
    <3> HIDE DEF dirty, mode
    <3> QED BY <2>1 DEF ObjsOK, Inode
  <2> QED BY <2>2, <2>3, Changed
<1>18. ASSUME NEW o \in Objs, DestroyVfs(o) PROVE ObjsOK'
  BY <1>18 DEF ObjsOK, Inode, DestroyVfs
<1>19. ASSUME NEW o \in Objs, ReclaimClean(o) PROVE ObjsOK'
  <2>1. /\ [obj[o] EXCEPT !.flags = @ \cup {"RECLAIM"}, !.dying = FALSE] \in Inode
        /\ [obj[o] EXCEPT !.dying = FALSE] \in Inode
    BY DEF ObjsOK, Inode, Flags
  <2>2. \/ obj' = [obj EXCEPT ![o] = [obj[o] EXCEPT !.flags = @ \cup {"RECLAIM"}, !.dying = FALSE]]
        \/ obj' = [obj EXCEPT ![o] = [obj[o] EXCEPT !.dying = FALSE]]
    BY <1>19 DEF ReclaimClean, Mark, ObjsOK, Inode
  <2> QED BY <2>1, <2>2, Changed
<1>20. ASSUME NEW o \in Objs, Ireclaim(o) PROVE ObjsOK'
  BY <1>20 DEF ObjsOK, Inode, NoObj, Ireclaim
<1>21. ASSUME NEW w \in Walkers, FindTagged(w) PROVE ObjsOK'
  BY <1>21 DEF ObjsOK, FindTagged
<1>22. ASSUME NEW w \in Walkers, ReclaimInode(w) PROVE ObjsOK'
  BY <1>22 DEF ObjsOK, Inode, Flags, Set, ReclaimInode
<1>23. ASSUME NEW w \in Walkers, SyncGrab(w) PROVE ObjsOK'
  <2>1. tree \in Objs => [obj[tree] EXCEPT !.count = @ + 1] \in Inode
    BY DEF ObjsOK, Inode
  <2> QED BY <1>23, <2>1, Changed DEF SyncGrab
<1>24. ASSUME NEW w \in Walkers, SyncInode(w) PROVE ObjsOK'
  <2> DEFINE dirty == obj[ip[w]].dirty /\ "NEW" \in obj[ip[w]].flags
             count == obj[ip[w]].count - 1
  <2>1. dirty \in BOOLEAN
    OBVIOUS
  <2>2. ip[w] \in Objs => count \in Int
    BY DEF ObjsOK, Inode
  <2>3. obj' = [obj EXCEPT ![ip[w]] = [obj[ip[w]] EXCEPT !.count = count, !.dirty = dirty]]
    BY <1>24 DEF SyncInode, ObjsOK, Inode
  <2>4. ip[w] \in Objs => [obj[ip[w]] EXCEPT !.count = count, !.dirty = dirty] \in Inode
    <3> HIDE DEF dirty, count
    <3> QED BY <2>1, <2>2 DEF ObjsOK, Inode
  <2> QED BY <2>3, <2>4, Changed
<1> QED
  BY <1>1, <1>2, <1>3, <1>4, <1>5, <1>6, <1>7, <1>8, <1>9, <1>10, <1>11, <1>12, <1>13, <1>14, <1>15, <1>16,
     <1>17, <1>18, <1>19, <1>20, <1>21, <1>22, <1>23, <1>24 DEF CacheNext, Caller, Core, Walk

\* Every step keeps the tree's inode the one its users work on: it leaves the tree only without users.
LEMMA PlacesOKStep ==
  ASSUME ThreadsOK, ObjsOK, PlacesOK, MissesOK, ReclaimOK, CacheNext, raced' = {}
  PROVE  PlacesOK'
<1>1. ASSUME NEW u \in Users, Iget(u) PROVE PlacesOK'
  BY <1>1 DEF PlacesOK, Reads, Has, Go, Iget
<1>2. ASSUME NEW u \in Users, Lookup(u) PROVE PlacesOK'
  BY <1>2 DEF PlacesOK, ThreadsOK, Reads, Has, Go, Lookup
<1>3. ASSUME NEW u \in Users, Recycle(u) PROVE PlacesOK'
  <2>1. Recycled(u)
    BY <1>3, RecycleDoes
  <2> QED BY <2>1 DEF PlacesOK, ThreadsOK, Steps, Counted, Recycled
<1>4. ASSUME NEW u \in Users, SetNew(u) PROVE PlacesOK'
  BY <1>4 DEF PlacesOK, Has, Go, Set, SetNew
<1>5. ASSUME NEW u \in Users, ClearReclaimable(u) PROVE PlacesOK'
  BY <1>5 DEF PlacesOK, Has, Go, ClearReclaimable
<1>6. ASSUME NEW u \in Users, ClearTag(u) PROVE PlacesOK'
  BY <1>6 DEF PlacesOK, Has, Go, ClearTag
<1>7. ASSUME NEW u \in Users, Igrab(u) PROVE PlacesOK'
  <2>1. Igrabbed(u)
    BY <1>7, IgrabDoes
  <2> QED BY <2>1 DEF PlacesOK, ThreadsOK, Steps, Counted, Igrabbed
<1>8. ASSUME NEW u \in Users, WaitOnInode(u) PROVE PlacesOK'
  BY <1>8 DEF PlacesOK, Has, Go, WaitOnInode
<1>9. ASSUME NEW u \in Users, Live(u) PROVE PlacesOK'
  <2>1. Lived(u)
    BY <1>9, LiveDoes
  <2> QED BY <2>1 DEF PlacesOK, ThreadsOK, Steps, Counted, Lived
<1>10. ASSUME NEW u \in Users, Read(u) PROVE PlacesOK'
  BY <1>10 DEF PlacesOK, Reads, Has, Go, Read
<1>11. ASSUME NEW u \in Users, Insert(u) PROVE PlacesOK'
  <2>1. Inserted(u)
    BY <1>11, InsertDoes
  <2> QED BY <2>1 DEF PlacesOK, MissesOK, ThreadsOK, Steps, Inserted
<1>12. ASSUME NEW u \in Users, DestroyInode(u) PROVE PlacesOK'
  BY <1>12 DEF PlacesOK, MissesOK, Reads, Has, Missing, Go, DestroyInode
<1>13. ASSUME NEW u \in Users, SetupInode(u) PROVE PlacesOK'
  <2>1. WasSetUp(u)
    BY <1>13, SetupInodeDoes
  <2> QED BY <2>1 DEF PlacesOK, ThreadsOK, Steps, WasSetUp
<1>14. ASSUME NEW u \in Users, SetupDone(u) PROVE PlacesOK'
  <2>1. SetupEnded(u)
    BY <1>14, SetupDoneDoes
  <2> QED BY <2>1 DEF PlacesOK, ThreadsOK, Steps, SetupEnded
<1>15. ASSUME NEW u \in Users, Modify(u) PROVE PlacesOK'
  BY <1>15 DEF PlacesOK, ThreadsOK, ObjsOK, Places, Modify
<1>16. ASSUME NEW u \in Users, Irele(u) PROVE PlacesOK'
  BY <1>16 DEF PlacesOK, Has, Go, Irele
<1>17. ASSUME NEW o \in Objs, ClearInode(o) PROVE PlacesOK'
  BY <1>17 DEF PlacesOK, MissesOK, ObjsOK, ClearInode
<1>18. ASSUME NEW o \in Objs, DestroyVfs(o) PROVE PlacesOK'
  BY <1>18 DEF ObjsOK, Inode, DestroyVfs
<1>19. ASSUME NEW o \in Objs, ReclaimClean(o) PROVE PlacesOK'
  BY <1>19 DEF PlacesOK, MissesOK, ObjsOK, Inode, Mark, ReclaimClean
<1>20. ASSUME NEW o \in Objs, Ireclaim(o) PROVE PlacesOK'
  <2>1. o = tree /\ readers = {} /\ tree \in Objs
    BY <1>20 DEF Ireclaim, MissesOK, ThreadsOK, Places
  <2>2. \A t \in Threads : pc[t] \notin Reads \cup Has
    BY <1>20, <2>1 DEF Ireclaim, ReclaimOK, ThreadsOK, Reads, Has
  <2>3. \A t \in Threads : pc[t] = "found" => t \notin Walkers
    BY <1>20, <2>1 DEF Ireclaim, Hit, PlacesOK, Threads
  <2> QED BY <1>20, <2>2, <2>3 DEF Ireclaim, PlacesOK, Threads, ThreadsOK
<1>21. ASSUME NEW w \in Walkers, FindTagged(w) PROVE PlacesOK'
  BY <1>21 DEF PlacesOK, ThreadsOK, Go, FindTagged
<1>22. ASSUME NEW w \in Walkers, ReclaimInode(w) PROVE PlacesOK'
  <2>1. Claimed(w)
    BY <1>22, ReclaimInodeDoes
  <2> QED BY <2>1 DEF PlacesOK, Steps, Claimed
<1>23. ASSUME NEW w \in Walkers, SyncGrab(w) PROVE PlacesOK'
  BY <1>23 DEF PlacesOK, ThreadsOK, Go, SyncGrab
<1>24. ASSUME NEW w \in Walkers, SyncInode(w) PROVE PlacesOK'
  BY <1>24 DEF PlacesOK, ThreadsOK, ObjsOK, Places, Has, Go, SyncInode
<1> QED
  BY <1>1, <1>2, <1>3, <1>4, <1>5, <1>6, <1>7, <1>8, <1>9, <1>10, <1>11, <1>12, <1>13, <1>14, <1>15, <1>16,
     <1>17, <1>18, <1>19, <1>20, <1>21, <1>22, <1>23, <1>24 DEF CacheNext, Caller, Core, Walk

\* Every step keeps a thread that missed alone.
LEMMA MissesOKStep ==
  ASSUME ThreadsOK, ObjsOK, PlacesOK, MissesOK, ReclaimOK, CacheNext, raced' = {}
  PROVE  MissesOK'
<1>1. ASSUME NEW u \in Users, Iget(u) PROVE MissesOK'
  BY <1>1 DEF MissesOK, Missing, Go, Iget
<1>2. ASSUME NEW u \in Users, Lookup(u) PROVE MissesOK'
  <2>1. tree = 0 => \A v \in Users : ~Missing(v)
    BY <1>2 DEF Lookup, Hit
  <2>2. tree' = tree /\ obj' = obj
    BY <1>2 DEF Lookup
  <2>3. CASE tree = 0 /\ pc' = [pc EXCEPT ![u] = "miss"] /\ ip' = ip
    BY <2>1, <2>2, <2>3 DEF MissesOK, Missing, ThreadsOK, Threads
  <2>4. CASE tree # 0 /\ pc' = [pc EXCEPT ![u] = "hit"] /\ ip' = [ip EXCEPT ![u] = tree]
    BY <2>2, <2>4 DEF MissesOK, Missing, ThreadsOK, Threads
  <2> QED BY <1>2, <2>3, <2>4 DEF Lookup, Go
<1>3. ASSUME NEW u \in Users, Recycle(u) PROVE MissesOK'
  <2>1. Recycled(u)
    BY <1>3, RecycleDoes
  <2> QED BY <2>1 DEF MissesOK, ThreadsOK, Threads, Missing, Steps, SameBut, Recycled
<1>4. ASSUME NEW u \in Users, SetNew(u) PROVE MissesOK'
  BY <1>4 DEF PlacesOK, MissesOK, Threads, Has, Missing, Go, Set, SetNew
<1>5. ASSUME NEW u \in Users, ClearReclaimable(u) PROVE MissesOK'
  BY <1>5 DEF MissesOK, Missing, Go, ClearReclaimable
<1>6. ASSUME NEW u \in Users, ClearTag(u) PROVE MissesOK'
  BY <1>6 DEF MissesOK, Missing, Go, ClearTag
<1>7. ASSUME NEW u \in Users, Igrab(u) PROVE MissesOK'
  <2>1. Igrabbed(u)
    BY <1>7, IgrabDoes
  <2> QED BY <2>1 DEF MissesOK, ThreadsOK, Threads, Missing, Steps, SameBut, Igrabbed
<1>8. ASSUME NEW u \in Users, WaitOnInode(u) PROVE MissesOK'
  BY <1>8 DEF MissesOK, Missing, Go, WaitOnInode
<1>9. ASSUME NEW u \in Users, Live(u) PROVE MissesOK'
  <2>1. Lived(u)
    BY <1>9, LiveDoes
  <2> QED BY <2>1 DEF MissesOK, ThreadsOK, Threads, Missing, Steps, SameBut, Lived
<1>10. ASSUME NEW u \in Users, Read(u) PROVE MissesOK'
  BY <1>10 DEF MissesOK, ThreadsOK, ObjsOK, Threads, Missing, Go, NoObj, Read
<1>11. ASSUME NEW u \in Users, Insert(u) PROVE MissesOK'
  <2>1. Inserted(u)
    BY <1>11, InsertDoes
  <2> QED BY <2>1 DEF MissesOK, ThreadsOK, Threads, Objs, Missing, Steps, SameBut, Inserted
<1>12. ASSUME NEW u \in Users, DestroyInode(u) PROVE MissesOK'
  BY <1>12 DEF MissesOK, ThreadsOK, ObjsOK, Threads, Missing, Go, NoObj, DestroyInode
<1>13. ASSUME NEW u \in Users, SetupInode(u) PROVE MissesOK'
  <2>1. WasSetUp(u)
    BY <1>13, SetupInodeDoes
  <2> QED BY <2>1 DEF MissesOK, ThreadsOK, Threads, Missing, Steps, SameBut, WasSetUp
<1>14. ASSUME NEW u \in Users, SetupDone(u) PROVE MissesOK'
  <2>1. SetupEnded(u)
    BY <1>14, SetupDoneDoes
  <2> QED BY <2>1 DEF MissesOK, ThreadsOK, Threads, Missing, Steps, SameBut, SetupEnded
<1>15. ASSUME NEW u \in Users, Modify(u) PROVE MissesOK'
  BY <1>15 DEF MissesOK, ObjsOK, Missing, Modify
<1>16. ASSUME NEW u \in Users, Irele(u) PROVE MissesOK'
  BY <1>16 DEF PlacesOK, MissesOK, Threads, Has, Missing, Go, Irele
<1>17. ASSUME NEW o \in Objs, ClearInode(o) PROVE MissesOK'
  BY <1>17 DEF MissesOK, ObjsOK, Missing, ClearInode
<1>18. ASSUME NEW o \in Objs, DestroyVfs(o) PROVE MissesOK'
  BY <1>18 DEF ObjsOK, Inode, DestroyVfs
<1>19. ASSUME NEW o \in Objs, ReclaimClean(o) PROVE MissesOK'
  BY <1>19 DEF MissesOK, ObjsOK, Missing, Mark, ReclaimClean
<1>20. ASSUME NEW o \in Objs, Ireclaim(o) PROVE MissesOK'
  BY <1>20 DEF MissesOK, ObjsOK, Missing, NoObj, Ireclaim
<1>21. ASSUME NEW w \in Walkers, FindTagged(w) PROVE MissesOK'
  BY <1>21 DEF MissesOK, Missing, Go, FindTagged
<1>22. ASSUME NEW w \in Walkers, ReclaimInode(w) PROVE MissesOK'
  <2>1. Claimed(w)
    BY <1>22, ReclaimInodeDoes
  <2> QED BY <2>1 DEF MissesOK, Missing, Steps, SameBut, Claimed
<1>23. ASSUME NEW w \in Walkers, SyncGrab(w) PROVE MissesOK'
  BY <1>23 DEF MissesOK, Missing, Go, SyncGrab
<1>24. ASSUME NEW w \in Walkers, SyncInode(w) PROVE MissesOK'
  BY <1>24 DEF PlacesOK, MissesOK, ObjsOK, Threads, Has, Missing, Go, SyncInode
<1> QED
  BY <1>1, <1>2, <1>3, <1>4, <1>5, <1>6, <1>7, <1>8, <1>9, <1>10, <1>11, <1>12, <1>13, <1>14, <1>15, <1>16,
     <1>17, <1>18, <1>19, <1>20, <1>21, <1>22, <1>23, <1>24 DEF CacheNext, Caller, Core, Walk

\* Every step keeps reclaim and the users of the inode apart.
LEMMA ReclaimOKStep ==
  ASSUME ThreadsOK, ObjsOK, PlacesOK, MissesOK, CountOK, ReclaimOK, AloneOK, StagesOK, CacheNext, raced' = {}
  PROVE  ReclaimOK'
<1>1. ASSUME NEW u \in Users, Iget(u) PROVE ReclaimOK'
  BY <1>1 DEF ReclaimOK, Reads, Has, Go, Iget
<1>2. ASSUME NEW u \in Users, Lookup(u) PROVE ReclaimOK'
  BY <1>2 DEF ReclaimOK, ThreadsOK, Reads, Has, Go, Lookup
<1>3. ASSUME NEW u \in Users, Recycle(u) PROVE ReclaimOK'
  <2>1. Recycled(u)
    BY <1>3, RecycleDoes
  <2> QED BY <2>1 DEF ReclaimOK, ThreadsOK, Reads, Has, Steps, Counted, Recycled
<1>4. ASSUME NEW u \in Users, SetNew(u) PROVE ReclaimOK'
  BY <1>4 DEF ReclaimOK, Reads, Has, Go, Set, SetNew
<1>5. ASSUME NEW u \in Users, ClearReclaimable(u) PROVE ReclaimOK'
  BY <1>5 DEF PlacesOK, ReclaimOK, ObjsOK, Threads, Reads, Has, Go, ClearReclaimable
<1>6. ASSUME NEW u \in Users, ClearTag(u) PROVE ReclaimOK'
  BY <1>6 DEF ReclaimOK, Threads, Has, Go, ClearTag
<1>7. ASSUME NEW u \in Users, Igrab(u) PROVE ReclaimOK'
  <2>1. Igrabbed(u)
    BY <1>7, IgrabDoes
  <2> QED BY <2>1 DEF ReclaimOK, ThreadsOK, Has, Steps, Counted, Igrabbed
<1>8. ASSUME NEW u \in Users, WaitOnInode(u) PROVE ReclaimOK'
  BY <1>8 DEF ReclaimOK, Has, Go, WaitOnInode
<1>9. ASSUME NEW u \in Users, Live(u) PROVE ReclaimOK'
  <2>1. Lived(u)
    BY <1>9, LiveDoes
  <2> QED BY <2>1 DEF ReclaimOK, StagesOK, ThreadsOK, Has, Steps, Counted, Lived
<1>10. ASSUME NEW u \in Users, Read(u) PROVE ReclaimOK'
  BY <1>10 DEF MissesOK, ReclaimOK, Objs, Missing, Read
<1>11. ASSUME NEW u \in Users, Insert(u) PROVE ReclaimOK'
  <2>1. Inserted(u)
    BY <1>11, InsertDoes
  <2> QED BY <2>1 DEF MissesOK, ReclaimOK, ThreadsOK, ObjsOK, Inode, Threads, Has, Steps, Inserted
<1>12. ASSUME NEW u \in Users, DestroyInode(u) PROVE ReclaimOK'
  BY <1>12 DEF ReclaimOK, Objs, DestroyInode
<1>13. ASSUME NEW u \in Users, SetupInode(u) PROVE ReclaimOK'
  <2>1. WasSetUp(u)
    BY <1>13, SetupInodeDoes
  <2> QED BY <2>1 DEF ReclaimOK, StagesOK, Threads, Has, WasSetUp
<1>14. ASSUME NEW u \in Users, SetupDone(u) PROVE ReclaimOK'
  <2>1. SetupEnded(u)
    BY <1>14, SetupDoneDoes
  <2> QED BY <2>1 DEF ReclaimOK, StagesOK, Threads, SetupEnded
<1>15. ASSUME NEW u \in Users, Modify(u) PROVE ReclaimOK'
  BY <1>15 DEF ReclaimOK, ObjsOK, Modify
<1>16. ASSUME NEW u \in Users, Irele(u) PROVE ReclaimOK'
  BY <1>16 DEF ReclaimOK, StagesOK, Has, Go, Irele
<1>17. ASSUME NEW o \in Objs, ClearInode(o) PROVE ReclaimOK'
  <2>1. ASSUME o = tree PROVE \A t \in Threads : pc[t] \notin Has
    <3>1. tree # 0 /\ obj[tree].count = 0
      BY <1>17, <2>1 DEF ClearInode, Objs
    <3> QED BY <3>1, NobodyHasIt
  <2> QED BY <1>17, <2>1 DEF ReclaimOK, ClearInode, ObjsOK, Inode
<1>18. ASSUME NEW o \in Objs, DestroyVfs(o) PROVE ReclaimOK'
  BY <1>18 DEF ObjsOK, Inode, DestroyVfs
<1>19. ASSUME NEW o \in Objs, ReclaimClean(o) PROVE ReclaimOK'
  BY <1>19 DEF ReclaimOK, ObjsOK, Inode, Mark, ReclaimClean
<1>20. ASSUME NEW o \in Objs, Ireclaim(o) PROVE ReclaimOK'
  BY <1>20 DEF ReclaimOK, Objs, Ireclaim
<1>21. ASSUME NEW w \in Walkers, FindTagged(w) PROVE ReclaimOK'
  BY <1>21 DEF ReclaimOK, Has, Go, FindTagged
<1>22. ASSUME NEW w \in Walkers, ReclaimInode(w) PROVE ReclaimOK'
  <2>1. Claimed(w)
    BY <1>22, ReclaimInodeDoes
  <2> QED BY <2>1 DEF ReclaimOK, ThreadsOK, Reads, Has, Steps, Claimed
<1>23. ASSUME NEW w \in Walkers, SyncGrab(w) PROVE ReclaimOK'
  BY <1>23 DEF ReclaimOK, Grabbed, SyncGrab
<1>24. ASSUME NEW w \in Walkers, SyncInode(w) PROVE ReclaimOK'
  BY <1>24 DEF ReclaimOK, StagesOK, ObjsOK, Has, Go, SyncInode
<1> QED
  BY <1>1, <1>2, <1>3, <1>4, <1>5, <1>6, <1>7, <1>8, <1>9, <1>10, <1>11, <1>12, <1>13, <1>14, <1>15, <1>16,
     <1>17, <1>18, <1>19, <1>20, <1>21, <1>22, <1>23, <1>24 DEF CacheNext, Caller, Core, Walk

\* Every step keeps the thread that sets the inode up alone.
LEMMA AloneOKStep ==
  ASSUME ThreadsOK, ObjsOK, PlacesOK, MissesOK, ReclaimOK, AloneOK, StagesOK, CacheNext, raced' = {}
  PROVE  AloneOK'
<1>1. ASSUME NEW u \in Users, Iget(u) PROVE AloneOK'
  BY <1>1 DEF AloneOK, Has, Go, Iget
<1>2. ASSUME NEW u \in Users, Lookup(u) PROVE AloneOK'
  BY <1>2 DEF AloneOK, ThreadsOK, Has, Go, Lookup
<1>3. ASSUME NEW u \in Users, Recycle(u) PROVE AloneOK'
  <2>1. Recycled(u)
    BY <1>3, RecycleDoes
  <2> QED BY <2>1 DEF ReclaimOK, AloneOK, ThreadsOK, Steps, Recycled
<1>4. ASSUME NEW u \in Users, SetNew(u) PROVE AloneOK'
  BY <1>4 DEF AloneOK, Has, Go, Set, SetNew
<1>5. ASSUME NEW u \in Users, ClearReclaimable(u) PROVE AloneOK'
  BY <1>5 DEF AloneOK, Has, Go, ClearReclaimable
<1>6. ASSUME NEW u \in Users, ClearTag(u) PROVE AloneOK'
  BY <1>6 DEF AloneOK, Has, Go, ClearTag
<1>7. ASSUME NEW u \in Users, Igrab(u) PROVE AloneOK'
  <2>1. Igrabbed(u)
    BY <1>7, IgrabDoes
  <2> QED BY <2>1 DEF AloneOK, ThreadsOK, Has, Steps, Counted, Igrabbed
<1>8. ASSUME NEW u \in Users, WaitOnInode(u) PROVE AloneOK'
  BY <1>8 DEF AloneOK, Has, Go, WaitOnInode
<1>9. ASSUME NEW u \in Users, Live(u) PROVE AloneOK'
  <2>1. Lived(u)
    BY <1>9, LiveDoes
  <2> QED BY <2>1 DEF AloneOK, StagesOK, ThreadsOK, Steps, Counted, Lived
<1>10. ASSUME NEW u \in Users, Read(u) PROVE AloneOK'
  BY <1>10 DEF PlacesOK, AloneOK, Has, Go, Read
<1>11. ASSUME NEW u \in Users, Insert(u) PROVE AloneOK'
  <2>1. Inserted(u)
    BY <1>11, InsertDoes
  <2> QED BY <2>1 DEF PlacesOK, AloneOK, Has, Steps, Inserted
<1>12. ASSUME NEW u \in Users, DestroyInode(u) PROVE AloneOK'
  BY <1>12 DEF MissesOK, AloneOK, Has, Missing, Go, DestroyInode
<1>13. ASSUME NEW u \in Users, SetupInode(u) PROVE AloneOK'
  <2>1. WasSetUp(u)
    BY <1>13, SetupInodeDoes
  <2> QED BY <2>1 DEF AloneOK, StagesOK, ThreadsOK, Steps, WasSetUp
<1>14. ASSUME NEW u \in Users, SetupDone(u) PROVE AloneOK'
  <2>1. SetupEnded(u)
    BY <1>14, SetupDoneDoes
  <2> QED BY <2>1 DEF AloneOK, ThreadsOK, Steps, SetupEnded
<1>15. ASSUME NEW u \in Users, Modify(u) PROVE AloneOK'
  BY <1>15 DEF AloneOK, ObjsOK, Modify
<1>16. ASSUME NEW u \in Users, Irele(u) PROVE AloneOK'
  BY <1>16 DEF AloneOK, Has, Go, Irele
<1>17. ASSUME NEW o \in Objs, ClearInode(o) PROVE AloneOK'
  BY <1>17 DEF AloneOK, ObjsOK, ClearInode
<1>18. ASSUME NEW o \in Objs, DestroyVfs(o) PROVE AloneOK'
  BY <1>18 DEF ObjsOK, Inode, DestroyVfs
<1>19. ASSUME NEW o \in Objs, ReclaimClean(o) PROVE AloneOK'
  BY <1>19 DEF MissesOK, ReclaimOK, AloneOK, ReclaimClean
<1>20. ASSUME NEW o \in Objs, Ireclaim(o) PROVE AloneOK'
  BY <1>20 DEF MissesOK, ReclaimOK, AloneOK, Ireclaim
<1>21. ASSUME NEW w \in Walkers, FindTagged(w) PROVE AloneOK'
  BY <1>21 DEF AloneOK, Has, Go, FindTagged
<1>22. ASSUME NEW w \in Walkers, ReclaimInode(w) PROVE AloneOK'
  <2>1. Claimed(w)
    BY <1>22, ReclaimInodeDoes
  <2> QED BY <2>1 DEF AloneOK, Has, Steps, Claimed
<1>23. ASSUME NEW w \in Walkers, SyncGrab(w) PROVE AloneOK'
  BY <1>23 DEF AloneOK, Go, Grabbed, SyncGrab
<1>24. ASSUME NEW w \in Walkers, SyncInode(w) PROVE AloneOK'
  BY <1>24 DEF AloneOK, StagesOK, ObjsOK, Go, SyncInode
<1> QED
  BY <1>1, <1>2, <1>3, <1>4, <1>5, <1>6, <1>7, <1>8, <1>9, <1>10, <1>11, <1>12, <1>13, <1>14, <1>15, <1>16,
     <1>17, <1>18, <1>19, <1>20, <1>21, <1>22, <1>23, <1>24 DEF CacheNext, Caller, Core, Walk

\* Every step keeps the flags and the Linux inode in step with the places in the code.
LEMMA StagesOKStep ==
  ASSUME ThreadsOK, ObjsOK, PlacesOK, MissesOK, ReclaimOK, AloneOK, StagesOK, CacheNext, raced' = {}
  PROVE  StagesOK'
<1>1. ASSUME NEW u \in Users, Iget(u) PROVE StagesOK'
  BY <1>1 DEF StagesOK, Go, Iget
<1>2. ASSUME NEW u \in Users, Lookup(u) PROVE StagesOK'
  BY <1>2 DEF StagesOK, ThreadsOK, Go, Lookup
<1>3. ASSUME NEW u \in Users, Recycle(u) PROVE StagesOK'
  <2>1. Recycled(u)
    BY <1>3, RecycleDoes
  <2> QED BY <2>1 DEF ReclaimOK, StagesOK, ThreadsOK, Steps, Counted, Recycled
<1>4. ASSUME NEW u \in Users, SetNew(u) PROVE StagesOK'
  BY <1>4 DEF PlacesOK, StagesOK, ObjsOK, Threads, Has, Go, Set, SetNew
<1>5. ASSUME NEW u \in Users, ClearReclaimable(u) PROVE StagesOK'
  BY <1>5 DEF AloneOK, StagesOK, ThreadsOK, Threads, Has, Go, ClearReclaimable
<1>6. ASSUME NEW u \in Users, ClearTag(u) PROVE StagesOK'
  BY <1>6 DEF StagesOK, Go, ClearTag
<1>7. ASSUME NEW u \in Users, Igrab(u) PROVE StagesOK'
  <2>1. Igrabbed(u)
    BY <1>7, IgrabDoes
  <2> QED BY <2>1 DEF StagesOK, ThreadsOK, Steps, Counted, Igrabbed
<1>8. ASSUME NEW u \in Users, WaitOnInode(u) PROVE StagesOK'
  BY <1>8 DEF PlacesOK, StagesOK, Has, Go, WaitOnInode
<1>9. ASSUME NEW u \in Users, Live(u) PROVE StagesOK'
  <2>1. Lived(u)
    BY <1>9, LiveDoes
  <2> QED BY <2>1 DEF StagesOK, ThreadsOK, Steps, Counted, Lived
<1>10. ASSUME NEW u \in Users, Read(u) PROVE StagesOK'
  BY <1>10 DEF PlacesOK, StagesOK, Has, Go, NoObj, Read
<1>11. ASSUME NEW u \in Users, Insert(u) PROVE StagesOK'
  <2>1. Inserted(u)
    BY <1>11, InsertDoes
  <2> QED BY <2>1 DEF PlacesOK, MissesOK, StagesOK, ObjsOK, Inode, Has, Steps, Inserted
<1>12. ASSUME NEW u \in Users, DestroyInode(u) PROVE StagesOK'
  BY <1>12 DEF StagesOK, Objs, DestroyInode
<1>13. ASSUME NEW u \in Users, SetupInode(u) PROVE StagesOK'
  <2>1. WasSetUp(u)
    BY <1>13, SetupInodeDoes
  <2> QED BY <2>1 DEF AloneOK, StagesOK, ThreadsOK, Threads, Has, Steps, WasSetUp
<1>14. ASSUME NEW u \in Users, SetupDone(u) PROVE StagesOK'
  <2>1. SetupEnded(u)
    BY <1>14, SetupDoneDoes
  <2> QED BY <2>1 DEF AloneOK, StagesOK, ThreadsOK, Threads, Steps, SetupEnded
<1>15. ASSUME NEW u \in Users, Modify(u) PROVE StagesOK'
  BY <1>15 DEF StagesOK, ObjsOK, Modify
<1>16. ASSUME NEW u \in Users, Irele(u) PROVE StagesOK'
  BY <1>16 DEF StagesOK, Go, Irele
<1>17. ASSUME NEW o \in Objs, ClearInode(o) PROVE StagesOK'
  BY <1>17 DEF StagesOK, ObjsOK, ClearInode
<1>18. ASSUME NEW o \in Objs, DestroyVfs(o) PROVE StagesOK'
  BY <1>18 DEF ObjsOK, Inode, DestroyVfs
<1>19. ASSUME NEW o \in Objs, ReclaimClean(o) PROVE StagesOK'
  BY <1>19 DEF StagesOK, ObjsOK, Inode, Mark, ReclaimClean
<1>20. ASSUME NEW o \in Objs, Ireclaim(o) PROVE StagesOK'
  BY <1>20 DEF StagesOK, Objs, Ireclaim
<1>21. ASSUME NEW w \in Walkers, FindTagged(w) PROVE StagesOK'
  BY <1>21 DEF StagesOK, Go, FindTagged
<1>22. ASSUME NEW w \in Walkers, ReclaimInode(w) PROVE StagesOK'
  <2>1. Claimed(w)
    BY <1>22, ReclaimInodeDoes
  <2> QED BY <2>1 DEF StagesOK, Steps, Claimed
<1>23. ASSUME NEW w \in Walkers, SyncGrab(w) PROVE StagesOK'
  BY <1>23 DEF StagesOK, Go, Grabbed, SyncGrab
<1>24. ASSUME NEW w \in Walkers, SyncInode(w) PROVE StagesOK'
  BY <1>24 DEF StagesOK, ObjsOK, Go, SyncInode
<1> QED
  BY <1>1, <1>2, <1>3, <1>4, <1>5, <1>6, <1>7, <1>8, <1>9, <1>10, <1>11, <1>12, <1>13, <1>14, <1>15, <1>16,
     <1>17, <1>18, <1>19, <1>20, <1>21, <1>22, <1>23, <1>24 DEF CacheNext, Caller, Core, Walk

----------------------------------------------------------------------------
TypeCorrect == ThreadsOK /\ ObjsOK
Agreed == ~panic /\ PlacesOK /\ MissesOK /\ CountOK /\ ReclaimOK /\ AloneOK /\ StagesOK
CacheAgrees == TypeCorrect /\ (raced = {} => Agreed)

\* A window that has been hit stays on record.
LEMMA RacesStay == ASSUME CacheNext PROVE raced \subseteq raced'
<1>1. ASSUME NEW u \in Users, Caller(u) PROVE raced \subseteq raced'
  BY <1>1 DEF Caller, Iget, Lookup, Hit, Recycle, SetNew, ClearReclaimable, ClearTag, Igrab, WaitOnInode, Live,
              Read, Insert, DestroyInode, SetupInode, SetupDone, Modify, Irele
<1>2. ASSUME NEW o \in Objs, Core(o) PROVE raced \subseteq raced'
  BY <1>2 DEF Core, ClearInode, DestroyVfs, ReclaimClean, Ireclaim, Hit
<1>3. ASSUME NEW w \in Walkers, Walk(w) PROVE raced \subseteq raced'
  BY <1>3 DEF Walk, FindTagged, ReclaimInode, SyncGrab, SyncInode, Hit
<1> QED BY <1>1, <1>2, <1>3 DEF CacheNext

\* xfs_reclaim finds the inode as it left it: xfs_fs_destroy_inode does not panic.
LEMMA NoPanic ==
  ASSUME ThreadsOK, PlacesOK, MissesOK, ReclaimOK, ~panic, CacheNext
  PROVE  ~panic'
<1>1. ASSUME NEW u \in Users, Caller(u) PROVE ~panic'
  BY <1>1 DEF Caller, Iget, Lookup, Recycle, SetNew, ClearReclaimable, ClearTag, Igrab, WaitOnInode, Live,
              Read, Insert, DestroyInode, SetupInode, SetupDone, Modify, Irele
<1>2. ASSUME NEW o \in Objs, Core(o) PROVE ~panic'
  <2>1. ASSUME ReclaimClean(o) PROVE ~panic'
    <3>1. o = tree
      BY <2>1 DEF ReclaimClean, MissesOK
    <3>2. "RECLAIMABLE" \in obj[o].flags /\ "RECLAIM" \notin obj[o].flags
      BY <2>1, <3>1 DEF ReclaimClean, ReclaimOK
    <3> QED BY <2>1, <3>2 DEF ReclaimClean
  <2> QED BY <1>2, <2>1 DEF Core, ClearInode, DestroyVfs, Ireclaim
<1>3. ASSUME NEW w \in Walkers, Walk(w) PROVE ~panic'
  BY <1>3 DEF Walk, FindTagged, ReclaimInode, SyncGrab, SyncInode
<1> QED BY <1>1, <1>2, <1>3 DEF CacheNext

\* An empty cache.
LEMMA AgreesInit == CacheInit => CacheAgrees
<1> SUFFICES ASSUME CacheInit PROVE CacheAgrees
  OBVIOUS
<1>1. ThreadsOK
  BY DEF CacheInit, ThreadsOK, Threads, Places, Stages, Reads
<1>2. ObjsOK
  <2>1. 0 \in Int /\ {} \subseteq Flags
    OBVIOUS
  <2>2. NoObj \in Inode
    BY <2>1 DEF NoObj, Inode
  <2>3. [NoObj EXCEPT !.state = "unused"] \in Inode
    BY <2>2 DEF Inode
  <2> QED BY <2>3 DEF CacheInit, ObjsOK
<1>3. ~panic /\ PlacesOK /\ CountOK /\ ReclaimOK /\ AloneOK /\ StagesOK
  <2>1. tree = 0 /\ ~panic /\ \A t \in Threads : pc[t] = "idle"
    BY DEF CacheInit, Threads
  <2> QED BY <2>1 DEF PlacesOK, CountOK, ReclaimOK, AloneOK, StagesOK, Reads, Has, Objs
<1>4. MissesOK
  BY DEF CacheInit, MissesOK, Missing, NoObj
<1> QED BY <1>1, <1>2, <1>3, <1>4 DEF CacheAgrees, TypeCorrect, Agreed

\* Every step keeps what the threads agree on.
LEMMA AgreesStep ==
  ASSUME CacheAgrees, [CacheNext]_cacheVars PROVE CacheAgrees'
<1>1. CASE UNCHANGED cacheVars
  <2>1. TypeCorrect'
    BY <1>1 DEF CacheAgrees, TypeCorrect, ThreadsOK, ObjsOK, cacheVars
  <2>2. ASSUME raced' = {} PROVE Agreed'
    BY <1>1, <2>2 DEF CacheAgrees, Agreed, PlacesOK, MissesOK, Missing, CountOK, ReclaimOK, AloneOK, StagesOK,
       cacheVars
  <2> QED BY <2>1, <2>2 DEF CacheAgrees
<1>2. CASE CacheNext
  <2>1. TypeCorrect'
    BY <1>2, ThreadsOKStep, ObjsOKStep DEF CacheAgrees, TypeCorrect
  <2>2. ASSUME raced' = {} PROVE Agreed'
    <3>1. ThreadsOK /\ ObjsOK /\ Agreed
      BY <1>2, <2>2, RacesStay DEF CacheAgrees, TypeCorrect
    <3>2. PlacesOK' /\ MissesOK'
      BY <1>2, <2>2, <3>1, PlacesOKStep, MissesOKStep DEF Agreed
    <3>3. CountOK' /\ ReclaimOK'
      BY <1>2, <2>2, <3>1, CountOKStep, ReclaimOKStep DEF Agreed
    <3>4. AloneOK' /\ StagesOK'
      BY <1>2, <2>2, <3>1, AloneOKStep, StagesOKStep DEF Agreed
    <3>5. ~panic'
      BY <1>2, <3>1, NoPanic DEF Agreed
    <3> QED BY <3>2, <3>3, <3>4, <3>5 DEF Agreed
  <2> QED BY <2>1, <2>2 DEF CacheAgrees
<1> QED BY <1>1, <1>2

\* Every reachable state of the inode cache is of its type, whatever races.
THEOREM CacheTypes == CacheSpec => []TypeCorrect
<1>1. CacheAgrees => TypeCorrect
  BY DEF CacheAgrees
<1> QED BY <1>1, AgreesInit, AgreesStep, PTL DEF CacheSpec

\* The inductive invariant: outside the windows, the place in the code of each thread and the state of
\* the in-core inode, its Linux inode and the tree agree.
THEOREM CacheIsAgreedOn == CacheSpec => []CacheAgrees
BY AgreesInit, AgreesStep, PTL DEF CacheSpec

\* Who has the inode has the one in the tree, counted and set up.
LEMMA AgreedIsUnique == ASSUME ThreadsOK, ObjsOK, Agreed PROVE Unique
<1> SUFFICES ASSUME NEW t \in Threads, Holds(t)
             PROVE  /\ ip[t] = tree
                    /\ obj[tree].count = Cardinality(Held(tree))
                    /\ "RECLAIM" \notin obj[tree].flags
                    /\ pc[t] = "use" =>
                         obj[tree].vfs \in {"new", "ok"} /\ "NEW" \notin obj[tree].flags /\ obj[tree].mode = "used"
  BY DEF Unique, Threads
<1>1. \A s \in Threads : Holds(s) <=> pc[s] \in Has
  BY DEF Holds, Has
<1>2. ip[t] = tree /\ tree # 0 /\ tree \in Objs
  BY <1>1 DEF Agreed, PlacesOK, ThreadsOK, Places
<1>3. Held(tree) = {s \in Threads : pc[s] \in Has}
  BY <1>1 DEF Held, Threads, Agreed, PlacesOK
<1>4. obj[tree].count = Cardinality(Held(tree))
  BY <1>2, <1>3 DEF Agreed, CountOK
<1>5. "RECLAIM" \notin obj[tree].flags
  BY <1>1, <1>2 DEF Agreed, ReclaimOK, Has, Reads
<1>6. ASSUME pc[t] = "use"
      PROVE  obj[tree].vfs \in {"new", "ok"} /\ "NEW" \notin obj[tree].flags /\ obj[tree].mode = "used"
  <2>1. obj[tree].vfs # "clear" /\ "NEW" \notin obj[tree].flags
    BY <1>2, <1>6 DEF Agreed, StagesOK
  <2>2. obj[tree].vfs # "freeing"
    BY <1>2, <1>6 DEF Agreed, ReclaimOK, Has
  <2>3. obj[tree].vfs \in {"new", "ok"}
    <3>1. obj[tree].vfs \in {"clear", "new", "ok", "freeing"}
      BY <1>2 DEF ObjsOK, Inode
    <3> QED BY <2>1, <2>2, <3>1
  <2> QED BY <1>2, <2>1, <2>3 DEF Agreed, StagesOK
<1> QED BY <1>2, <1>4, <1>5, <1>6

\* What the VFS has let go is found again.
LEMMA AgreedIsReclaimed == ASSUME ThreadsOK, Agreed PROVE Reclaimed
<1>1. ASSUME NEW o \in Objs, obj[o].state = "core", obj[o].vfs = "clear", ~obj[o].dying, Held(o) = {}
      PROVE  \/ tree = o /\ (tag \/ "RECLAIM" \in obj[o].flags) /\ "RECLAIMABLE" \in obj[o].flags
             \/ \E u \in Users : Missing(u) /\ ip[u] = o
  <2>1. CASE o = tree
    <3>1. \A t \in Threads : pc[t] \notin Has
      BY <1>1, <2>1 DEF Held, Holds, Has, Threads, Agreed, PlacesOK
    <3> QED BY <1>1, <2>1, <3>1 DEF Agreed, ReclaimOK
  <2>2. CASE o # tree
    BY <1>1, <2>2 DEF Agreed, MissesOK, Missing
  <2> QED BY <2>1, <2>2
<1>2. ASSUME NEW w \in Walkers, pc[w] = "found" PROVE obj[ip[w]].state = "core"
  BY <1>2 DEF Agreed, PlacesOK, Threads
<1> QED BY <1>1, <1>2 DEF Reclaimed

\* Outside the windows xfs_iget gives every thread the one in-core inode, which is torn down only when
\* nobody has it and never lost, and xfs_reclaim never fails.
THEOREM OneInodeIsShared == CacheSpec => []InodeIsShared
<1>1. CacheAgrees => InodeIsShared
  BY AgreedIsUnique, AgreedIsReclaimed DEF CacheAgrees, TypeCorrect, InodeIsShared, Sound, Agreed
<1> QED BY <1>1, CacheIsAgreedOn, PTL

==============================================================================
