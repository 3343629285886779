---------------------------- MODULE XfsInodeCache ----------------------------
(***************************************************************************)
(* The cache of in-core inodes (fs/xfs/xfs_iget.c, the reclaim part of     *)
(* linux-2.6/xfs_sync.c, xfs_reclaim in xfs_vnodeops.c): threads look up   *)
(* one inode number in the radix tree of its allocation group, use and     *)
(* drop the inode, while the VFS forgets it, xfs_sync_inodes walks and     *)
(* xfs_reclaim_inodes tears down what is dirty and forgotten.              *)
(*                                                                         *)
(* pag_ici_lock is a reader/writer lock: lookups hold it shared through    *)
(* several steps, the write-locked regions are one step. Four windows in   *)
(* which the code goes wrong are recorded in raced:                        *)
(*   "miss"     two threads miss at the same time,                         *)
(*   "recycle"  two threads recycle a reclaimable inode at the same time,  *)
(*   "clean"    a lookup comes between the two steps of xfs_reclaim,       *)
(*   "walk"     the inode goes, or is torn down a second time, between its *)
(*              being found and being reclaimed.                           *)
(***************************************************************************)
EXTENDS Integers, FiniteSets

CONSTANTS
  Users,     \* threads that call xfs_iget
  Walkers,   \* callers of xfs_reclaim_inodes
  MaxObjs    \* bound: in-core inodes allocated

\* threads are finitely many
ASSUME CacheAssumption == IsFiniteSet(Users) /\ IsFiniteSet(Walkers) /\ MaxObjs \in Nat

VARIABLES
  tree, tag,  \* the radix tree's slot and its XFS_ICI_RECLAIM_TAG
  obj,        \* in-core inodes
  pc, ip,     \* threads
  create,     \* XFS_IGET_CREATE
  readers,    \* of pag_ici_lock
  ondisk,     \* the inode in place: "used", "free"
  panic,      \* xfs_fs_destroy_inode: cannot reclaim
  raced       \* the windows above that have been hit

cacheVars == <<tree, tag, obj, pc, ip, create, readers, ondisk, panic, raced>>

Objs == 1 .. MaxObjs
NoObj == [state |-> "freed", flags |-> {}, count |-> 0, vfs |-> "clear", mode |-> "free", nlink |-> 0, dirty |-> FALSE,
          dying |-> FALSE]
Set(o, f) == obj' = [obj EXCEPT ![o].flags = @ \cup {f}]
Missing(u) == pc[u] \in {"miss", "insert", "noent", "dup"}
Hit(race, p) == raced' = IF p THEN raced \cup {race} ELSE raced
Go(u, p) == pc' = [pc EXCEPT ![u] = p]
Unlock(u) == readers' = readers \ {u}

----------------------------------------------------------------------------
(* xfs_iget, xfs_iget_cache_hit *)

\* XFS_IGET_CREATE is for an inode that is free in the inode btree
FreeInode == (IF tree # 0 THEN obj[tree].mode ELSE ondisk) = "free"
Iget(u) ==
  /\ pc[u] = "idle"
  /\ \E c \in {FALSE} \cup {FreeInode /\ \A v \in Users : ~create[v]} : create' = [create EXCEPT ![u] = c]
  /\ Go(u, "again")
  /\ UNCHANGED <<tree, tag, obj, ip, readers, ondisk, panic, raced>>

\* an inode that is being set up or torn down is looked up again later
Lookup(u) ==
  /\ pc[u] = "again"
  /\ Hit("miss", tree = 0 /\ \E v \in Users : Missing(v))
  /\ \/ tree = 0 /\ Go(u, "miss") /\ UNCHANGED <<ip, readers>>
     \/ /\ tree # 0 /\ obj[tree].flags \cap {"NEW", "RECLAIM"} = {}
        /\ readers' = readers \cup {u} /\ ip' = [ip EXCEPT ![u] = tree] /\ Go(u, "hit")
  /\ UNCHANGED <<tree, tag, obj, create, ondisk, panic>>

Enoent(u) == Go(u, "idle") /\ Unlock(u) /\ create' = [create EXCEPT ![u] = FALSE]
\* the Linux inode has been destroyed: set it up again (inode_init_always)
Recycle(u) ==
  LET o == ip[u]
  IN /\ pc[u] = "hit" /\ "RECLAIMABLE" \in obj[o].flags
     /\ raced' = raced \cup (IF \E v \in Users : pc[v] \in {"init", "new", "clear"} THEN {"recycle"} ELSE {})
                        \cup (IF obj[o].dying THEN {"clean"} ELSE {})
     /\ \/ obj[o].mode = "free" /\ ~create[u] /\ Enoent(u) /\ UNCHANGED obj
        \/ /\ obj[o].mode # "free" \/ create[u]
           /\ obj' = [obj EXCEPT ![o].count = 1]
           /\ Go(u, "init") /\ UNCHANGED <<readers, create>>
     /\ UNCHANGED <<tree, tag, ip, ondisk, panic>>
SetNew(u) ==
  /\ pc[u] = "init" /\ Set(ip[u], "NEW") /\ Go(u, "new")
  /\ UNCHANGED <<tree, tag, ip, create, readers, ondisk, panic, raced>>
ClearReclaimable(u) ==
  /\ pc[u] = "new" /\ obj' = [obj EXCEPT ![ip[u]].flags = @ \ {"RECLAIMABLE"}] /\ Go(u, "clear")
  /\ UNCHANGED <<tree, tag, ip, create, readers, ondisk, panic, raced>>
ClearTag(u) ==
  /\ pc[u] = "clear" /\ tag' = FALSE /\ Go(u, "got") /\ Unlock(u)
  /\ UNCHANGED <<tree, obj, ip, create, ondisk, panic, raced>>

Grabbed(o) == obj[o].vfs \notin {"clear", "freeing"}
\* igrab, and wait_on_inode for one who is recycling the inode
Igrab(u) ==
  LET o == ip[u]
  IN /\ pc[u] = "hit" /\ "RECLAIMABLE" \notin obj[o].flags
     /\ \/ ~Grabbed(o) /\ Go(u, "again") /\ Unlock(u) /\ UNCHANGED <<obj, create>>
        \/ /\ Grabbed(o) /\ obj' = [obj EXCEPT ![o].count = @ + 1]
           /\ Go(u, IF "NEW" \in obj[o].flags THEN "wait" ELSE "live") /\ UNCHANGED <<readers, create>>
     /\ UNCHANGED <<tree, tag, ip, ondisk, panic, raced>>
WaitOnInode(u) ==
  /\ pc[u] = "wait" /\ obj[ip[u]].vfs = "ok" /\ Go(u, "live")
  /\ UNCHANGED <<tree, tag, obj, ip, create, readers, ondisk, panic, raced>>
Live(u) ==
  /\ pc[u] = "live"
  /\ \/ /\ obj[ip[u]].mode = "free" /\ ~create[u]
        /\ Enoent(u) /\ obj' = [obj EXCEPT ![ip[u]].count = @ - 1]
     \/ /\ obj[ip[u]].mode # "free" \/ create[u]
        /\ Go(u, "got") /\ Unlock(u) /\ UNCHANGED <<obj, create>>
  /\ UNCHANGED <<tree, tag, ip, ondisk, panic, raced>>

----------------------------------------------------------------------------
(* xfs_iget_cache_miss *)

\* xfs_inode_alloc, xfs_iread
Read(u) ==
  /\ pc[u] = "miss"
  /\ \E o \in Objs :
       /\ obj[o].state = "unused" /\ \A p \in Objs : p < o => obj[p].state # "unused"
       /\ ip' = [ip EXCEPT ![u] = o]
       /\ obj' = [obj EXCEPT ![o] = [NoObj EXCEPT !.state = "core", !.count = 1, !.mode = ondisk,
                                                  !.nlink = IF ondisk = "used" THEN 1 ELSE 0]]
  /\ Go(u, IF ondisk = "free" /\ ~create[u] THEN "noent" ELSE "insert")
  /\ UNCHANGED <<tree, tag, create, readers, ondisk, panic, raced>>

Insert(u) ==
  /\ pc[u] = "insert" /\ readers = {}
  /\ \/ tree = 0 /\ tree' = ip[u] /\ Set(ip[u], "NEW") /\ Go(u, "got")
     \/ tree # 0 /\ Go(u, "dup") /\ UNCHANGED <<tree, obj>>
  /\ UNCHANGED <<tag, ip, create, readers, ondisk, panic, raced>>

\* xfs_destroy_inode of an inode that is in no tree: through destroy_inode, xfs_reclaim and
\* xfs_ireclaim to xfs_iextract, which deletes by number
DestroyInode(u) ==
  /\ pc[u] \in {"dup", "noent"} /\ readers = {}
  /\ tree' = 0 /\ tag' = FALSE
  /\ obj' = [obj EXCEPT ![ip[u]] = NoObj]
  /\ Go(u, IF pc[u] = "dup" THEN "again" ELSE "idle")
  /\ create' = [create EXCEPT ![u] = @ /\ pc[u] = "dup"]
  /\ UNCHANGED <<ip, readers, ondisk, panic, raced>>

----------------------------------------------------------------------------
(* The inode in use *)

\* xfs_setup_inode; of a new inode xfs_ialloc sets the mode first
SetupInode(u) ==
  LET o == ip[u]
  IN /\ pc[u] = "got"
     /\ \/ /\ "NEW" \in obj[o].flags
           /\ obj' = [obj EXCEPT ![o].vfs = "new", ![o].mode = "used", ![o].dirty = @ \/ create[u],
                                 ![o].nlink = IF create[u] THEN 1 ELSE @]
           /\ Go(u, "setup")
        \/ "NEW" \notin obj[o].flags /\ Go(u, "use") /\ UNCHANGED obj
     /\ UNCHANGED <<tree, tag, ip, create, readers, ondisk, panic, raced>>
SetupDone(u) ==
  LET o == ip[u]
  IN /\ pc[u] = "setup"
     /\ \/ /\ "NEW" \in obj[o].flags /\ obj' = [obj EXCEPT ![o].flags = @ \ {"NEW"}] /\ UNCHANGED <<pc, create>>
        \/ /\ "NEW" \notin obj[o].flags /\ obj' = [obj EXCEPT ![o].vfs = "ok"]
           /\ Go(u, "use") /\ create' = [create EXCEPT ![u] = FALSE]
     /\ UNCHANGED <<tree, tag, ip, readers, ondisk, panic, raced>>

Modify(u) ==
  /\ pc[u] = "use"
  /\ \E n \in {0, 1} : n <= obj[ip[u]].nlink /\ obj' = [obj EXCEPT ![ip[u]].dirty = TRUE, ![ip[u]].nlink = n]
  /\ UNCHANGED <<tree, tag, pc, ip, create, readers, ondisk, panic, raced>>
Irele(u) ==
  /\ pc[u] = "use" /\ Go(u, "idle")
  /\ obj' = [obj EXCEPT ![ip[u]].count = @ - 1]
  /\ UNCHANGED <<tree, tag, ip, create, readers, ondisk, panic, raced>>

\* the VFS drops an inode nobody refers to; clear_inode: xfs_inactive frees an unlinked one
ClearInode(o) ==
  /\ obj[o].state = "core" /\ obj[o].vfs = "ok" /\ obj[o].count = 0
  /\ obj' = [obj EXCEPT ![o].vfs = "freeing", ![o].mode = IF obj[o].nlink = 0 THEN "free" ELSE @,
                        ![o].dirty = @ \/ (obj[o].nlink = 0 /\ obj[o].mode # "free")]
  /\ UNCHANGED <<tree, tag, pc, ip, create, readers, ondisk, panic, raced>>

Mark(o) == [obj EXCEPT ![o].flags = @ \cup {"RECLAIM"}, ![o].dying = FALSE]
\* xfs_fs_destroy_inode, xfs_reclaim: xfs_inode_set_reclaim_tag, or torn down at once
DestroyVfs(o) ==
  /\ obj[o].state = "core" /\ obj[o].vfs = "freeing"
  /\ \/ /\ obj[o].dirty
        /\ tag' = TRUE /\ obj' = [obj EXCEPT ![o].flags = @ \cup {"RECLAIMABLE"}, ![o].vfs = "clear"]
     \/ /\ ~obj[o].dirty
        /\ obj' = [obj EXCEPT ![o].flags = @ \cup {"RECLAIMABLE"}, ![o].vfs = "clear",
                              ![o].dying = TRUE] /\ UNCHANGED tag
  /\ UNCHANGED <<tree, pc, ip, create, readers, ondisk, panic, raced>>
\* the second step of xfs_reclaim on a clean inode, xfs_reclaim_inode
ReclaimClean(o) ==
  /\ obj[o].state = "core" /\ obj[o].dying /\ readers = {}
  /\ \/ /\ "RECLAIMABLE" \in obj[o].flags /\ "RECLAIM" \notin obj[o].flags /\ obj' = Mark(o) /\ UNCHANGED panic
     \/ /\ "RECLAIMABLE" \notin obj[o].flags \/ "RECLAIM" \in obj[o].flags
        /\ panic' = TRUE /\ obj' = [obj EXCEPT ![o].dying = FALSE]
  /\ UNCHANGED <<tree, tag, pc, ip, create, readers, ondisk, raced>>

\* the rest of xfs_reclaim_inode: xfs_iflush, xfs_iextract, xfs_idestroy
Ireclaim(o) ==
  /\ obj[o].state = "core" /\ "RECLAIM" \in obj[o].flags /\ readers = {}
  /\ ondisk' = IF obj[o].dirty THEN obj[o].mode ELSE ondisk
  /\ tree' = 0 /\ tag' = FALSE
  /\ obj' = [obj EXCEPT ![o] = NoObj]
  /\ Hit("walk", \E w \in Walkers : pc[w] = "found" /\ ip[w] = o)
  /\ UNCHANGED <<pc, ip, create, readers, panic>>

\* xfs_reclaim_inodes_ag finds a tagged inode and drops the lock
FindTagged(w) ==
  /\ pc[w] = "idle" /\ tree # 0 /\ tag /\ "RECLAIM" \notin obj[tree].flags
  /\ ip' = [ip EXCEPT ![w] = tree] /\ Go(w, "found")
  /\ UNCHANGED <<tree, tag, obj, create, readers, ondisk, panic, raced>>
MutReclaimInode(w) ==
  LET o == ip[w]
  IN /\ pc[w] = "found" /\ readers = {} /\ Go(w, "idle")
     /\ IF "RECLAIM" \notin obj[o].flags THEN Set(o, "RECLAIM") ELSE UNCHANGED obj
     /\ Hit("walk", obj[o].dying)
     /\ UNCHANGED <<tree, tag, ip, create, readers, ondisk, panic>>
\* xfs_reclaim_inode; xfs_reclaim may by now be tearing down the same inode
ReclaimInode(w) ==
  LET o == ip[w]
  IN /\ pc[w] = "found" /\ readers = {} /\ Go(w, "idle")
     /\ IF "RECLAIM" \notin obj[o].flags /\ "RECLAIMABLE" \in obj[o].flags THEN Set(o, "RECLAIM") ELSE UNCHANGED obj
     /\ Hit("walk", obj[o].dying)
     /\ UNCHANGED <<tree, tag, ip, create, readers, ondisk, panic>>

\* xfs_sync_inodes_ag: a reference, unless the inode is new; then the flush
SyncGrab(w) ==
  /\ pc[w] = "idle" /\ tree # 0 /\ Grabbed(tree)
  /\ obj' = [obj EXCEPT ![tree].count = @ + 1]
  /\ ip' = [ip EXCEPT ![w] = tree] /\ Go(w, "sync")
  /\ UNCHANGED <<tree, tag, create, readers, ondisk, panic, raced>>
SyncInode(w) ==
  LET o == ip[w] new == "NEW" \in obj[o].flags
  IN /\ pc[w] = "sync" /\ Go(w, "idle")
     /\ obj' = [obj EXCEPT ![o].count = @ - 1, ![o].dirty = @ /\ new]
     /\ ondisk' = IF obj[o].dirty /\ ~new THEN obj[o].mode ELSE ondisk
     /\ UNCHANGED <<tree, tag, ip, create, readers, panic, raced>>

----------------------------------------------------------------------------
Holds(t) == pc[t] \in {"wait", "live", "init", "new", "clear", "got", "setup", "use", "sync"}
Held(o) == {t \in Users \cup Walkers : Holds(t) /\ ip[t] = o}

\* Whoever xfs_iget gives the inode to has the one in-core inode the tree names, with the Linux
\* inode counted, set up, and not torn down under him by reclaim.
Unique ==
  \A t \in Users \cup Walkers : Holds(t) =>
    /\ ip[t] = tree
    /\ obj[tree].count = Cardinality(Held(tree))
    /\ "RECLAIM" \notin obj[tree].flags
    /\ pc[t] = "use" => obj[tree].vfs \in {"new", "ok"} /\ "NEW" \notin obj[tree].flags /\ obj[tree].mode = "used"

\* An inode the VFS has let go is found again by a lookup or by reclaim: it is never left in the
\* tree untagged, and what reclaim has found is not freed under it.
Reclaimed ==
  /\ \A o \in Objs : obj[o].state = "core" /\ obj[o].vfs = "clear" /\ ~obj[o].dying /\ Held(o) = {} =>
       \/ tree = o /\ (tag \/ "RECLAIM" \in obj[o].flags) /\ "RECLAIMABLE" \in obj[o].flags
       \/ \E u \in Users : Missing(u) /\ ip[u] = o
  /\ \A w \in Walkers : pc[w] = "found" => obj[ip[w]].state = "core"

Sound == Unique /\ Reclaimed /\ ~panic

CacheInit ==
  /\ tree = 0 /\ tag = FALSE
  /\ obj = [o \in Objs |-> [NoObj EXCEPT !.state = "unused"]]
  /\ pc = [t \in Users \cup Walkers |-> "idle"] /\ ip = [t \in Users \cup Walkers |-> 0]
  /\ create = [u \in Users |-> FALSE]
  /\ readers = {} /\ ondisk \in {"used", "free"} /\ panic = FALSE /\ raced = {}

Caller(u) ==
  \/ Iget(u) \/ Lookup(u) \/ Recycle(u) \/ SetNew(u) \/ ClearReclaimable(u) \/ ClearTag(u)
  \/ Igrab(u) \/ WaitOnInode(u) \/ Live(u) \/ Read(u) \/ Insert(u) \/ DestroyInode(u)
  \/ SetupInode(u) \/ SetupDone(u) \/ Modify(u) \/ Irele(u)
Core(o) == ClearInode(o) \/ DestroyVfs(o) \/ ReclaimClean(o) \/ Ireclaim(o)
Walk(w) == FindTagged(w) \/ ReclaimInode(w) \/ SyncGrab(w) \/ SyncInode(w)
\* the model stops where the cache has gone wrong
CacheNext == /\ Sound
             /\ (\E u \in Users : Caller(u)) \/ (\E o \in Objs : Core(o)) \/ (\E w \in Walkers : Walk(w))
CacheSpec == CacheInit /\ [][CacheNext]_cacheVars

----------------------------------------------------------------------------
\* Outside the four windows lookups, reclaim and the walk of xfs_sync_inodes agree on the in-core
\* inode: it is the only one, it is torn down only when nobody has it, and it is never lost.
InodeIsShared == raced = {} => Sound

\* xfs_iget (xfs_iget.c:295) looks an inode up "in the cache held in each AG" and reads it in only
\* "if it is not in core": two threads that miss together still share one in-core inode.
OneInodeInCore == raced \subseteq {"miss"} => Unique
\* xfs_fs_destroy_inode (linux-2.6/xfs_super.c:940) takes it that xfs_reclaim never fails.
NeverCannotReclaim == raced \subseteq {"clean"} => ~panic
==============================================================================
