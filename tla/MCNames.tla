------------------------------ MODULE MCNames ------------------------------
(* Small instances of what stands behind a name: the directory formats, the  *)
(* hash btree they share with the attributes, the attribute fork, the        *)
(* replacement of attribute values, and the operations on the name space. A  *)
(* behaviour is one of instance `which'; the other components are idle.      *)
EXTENDS Integers, Sequences

VARIABLES
  which,
  dir, names, removes, failed, reader,
  tree, mapped, present, entered, result,
  fork, want, todo, leafOps,
  hist, data, op, sets, done, attrCrashes,
  mem, durable, open, th, lock, age, pend, unsync, writeq, mount, ops, crashes

dirVars == <<dir, names, removes, failed, reader>>
daVars == <<tree, mapped, present, entered, result>>
leafVars == <<fork, want, todo, leafOps>>
attrVars == <<hist, data, op, sets, done, attrCrashes>>
nsVars == <<mem, durable, open, th, lock, age, pend, unsync, writeq, mount, ops, crashes>>
vars == <<which, dirVars, daVars, leafVars, attrVars, nsVars>>

----------------------------------------------------------------------------
(* Directories: 2 and 5 have one hash value; 0 and 1 are `.' and `..' *)
DirHash(n) == CASE n = 0 -> 1 [] n = 1 -> 2 [] n = 3 -> 3 [] n = 4 -> 7 [] n = 7 -> 6 [] n = 8 -> 4 [] OTHER -> 5

\* short form and block directories with names too long for their hole, and a reader
BlockDir == INSTANCE XfsDir2 WITH
  Names <- 2 .. 6, Namelen <- [n \in 0 .. 6 |-> IF n = 4 THEN 13 ELSE 5], Hash <- [n \in 0 .. 6 |-> DirHash(n)],
  BigNames <- {2}, DirBlk <- 22, DSize <- 35, LeafBytes <- 80, MaxBests <- 2, MaxDb <- 2, MaxRemoves <- 2,
  Choice <- 1, Reader <- TRUE
\* directories that grow to several leaf and free-space blocks
NodeDir == INSTANCE XfsDir2 WITH
  Names <- 2 .. 8, Namelen <- [n \in 0 .. 8 |-> IF n \in {3, 6} THEN 13 ELSE 29], Hash <- [n \in 0 .. 8 |-> DirHash(n)],
  BigNames <- {1, 2}, DirBlk <- 18, DSize <- 60, LeafBytes <- 80, MaxBests <- 2, MaxDb <- 5, MaxRemoves <- 3,
  Choice <- 1, Reader <- FALSE
\* leaf directories with holes between their data blocks
LeafDir == INSTANCE XfsDir2 WITH
  Names <- 2 .. 7, Namelen <- [n \in 0 .. 7 |-> IF n \in {3, 6} THEN 13 ELSE 29], Hash <- [n \in 0 .. 7 |-> DirHash(n)],
  BigNames <- {}, DirBlk <- 14, DSize <- 40, LeafBytes <- 80, MaxBests <- 4, MaxDb <- 5, MaxRemoves <- 4,
  Choice <- 1, Reader <- FALSE

\* the hash btree of a directory, filled first, and of an attribute fork
DirTree == INSTANCE XfsDaBtree WITH
  Kind <- "dir", DaNames <- 1 .. 8, DaHash <- <<4, 7, 6, 2, 1, 5, 8, 3>>, LeafMax <- 2, NodeMax <- 4,
  MaxBlk <- 13, Full <- TRUE, AnyMove <- FALSE
AttrTree == INSTANCE XfsDaBtree WITH
  Kind <- "attr", DaNames <- 1 .. 7, DaHash <- <<4, 7, 6, 2, 1, 5, 3>>, LeafMax <- 2, NodeMax <- 4,
  MaxBlk <- 12, Full <- FALSE, AnyMove <- FALSE

(* Attributes: the forms of the fork, then the values that have blocks of their own *)
Leaf == INSTANCE XfsAttrLeaf WITH
  Attrs <- 1 .. 4, AttrHash <- <<1, 2, 2, 3>>, Sizes <- {2, 13}, Blk <- 24, Hdr <- 1, SfEntMax <- 4, Litino <- 12,
  Attr2 <- TRUE, MaxOps <- 5, MaxLeaves <- 4, ops <- leafOps,
  DataForks <- {[format |-> "LOCAL", words |-> 9], [format |-> "BTREE", words |-> 4],
                [format |-> "DEV", words |-> 1], [format |-> "EXTENTS", words |-> 4]}
Values == INSTANCE XfsAttr WITH
  AttrNames <- 1 .. 2, RmtBlocks <- 1 .. 2, RmtLen <- 1, MaxOff <- 2, MaxSets <- 3, MaxOps <- 4, MaxPend <- 6,
  MaxCrashes <- 1, SfGrow <- FALSE, crashes <- attrCrashes
LongValues == INSTANCE XfsAttr WITH
  AttrNames <- 1 .. 2, RmtBlocks <- 1 .. 4, RmtLen <- 2, MaxOff <- 4, MaxSets <- 2, MaxOps <- 3, MaxPend <- 2,
  MaxCrashes <- 1, SfGrow <- FALSE, crashes <- attrCrashes

----------------------------------------------------------------------------
(* The name space: the root 1 holds directory 2 and file 3 *)
FreeInode == [mode |-> "free", nlink |-> 0, data |-> 0, next |-> 0, parent |-> 0, proj |-> 0, inherit |-> FALSE, attr |-> FALSE]
Dir(n, p) == [FreeInode EXCEPT !.mode = "dir", !.nlink = n, !.parent = p]
File(n, d, a) == [FreeInode EXCEPT !.mode = "reg", !.nlink = n, !.data = d, !.attr = a]
Project(d) == [d EXCEPT !.inherit = TRUE, !.proj = 7]
Entries(n, child) == [d \in 1 .. n |-> CASE d = 1 -> <<2, 3>> [] d = 2 -> <<child, 0>> [] OTHER -> <<0, 0>>]

\* renames of a file with two names against truncates of it, in a log of four transactions
Locks == INSTANCE XfsNamespace WITH
  Inodes <- 1 .. 4, Start <- <<Dir(3, 1), Dir(2, 1), File(2, 4, FALSE), FreeInode>>, StartEnt <- Entries(4, 3),
  Names <- {1, 2}, Threads <- 1 .. 2, Kinds <- {"rename", "trunc", "open"}, Buckets <- 1, MaxLink <- 4,
  LogCap <- 4, MaxExt <- 4, MaxOps <- 4, MaxCrashes <- 0, ReadOnly <- FALSE
\* the same with a directory that inherits a project
Projects == INSTANCE XfsNamespace WITH
  Inodes <- 1 .. 4, Start <- <<Dir(3, 1), Project(Dir(2, 1)), File(2, 4, FALSE), FreeInode>>, StartEnt <- Entries(4, 3),
  Names <- {1, 2}, Threads <- 1 .. 2, Kinds <- {"rename", "trunc", "open"}, Buckets <- 1, MaxLink <- 4,
  LogCap <- 4, MaxExt <- 4, MaxOps <- 4, MaxCrashes <- 0, ReadOnly <- FALSE
\* open files removed, and a crash
Orphans == INSTANCE XfsNamespace WITH
  Inodes <- 1 .. 4, Start <- <<Dir(3, 1), Dir(2, 1), File(1, 1, TRUE), File(1, 0, FALSE)>>, StartEnt <- Entries(4, 4),
  Names <- {1, 2}, Threads <- 1 .. 2, Kinds <- {"remove", "open"}, Buckets <- 1, MaxLink <- 4,
  LogCap <- 4, MaxExt <- 1, MaxOps <- 3, MaxCrashes <- 1, ReadOnly <- FALSE
\* every operation on names, and a crash
Changes == INSTANCE XfsNamespace WITH
  Inodes <- 1 .. 5, Start <- <<Dir(3, 1), Dir(2, 1), File(2, 1, FALSE), FreeInode, FreeInode>>, StartEnt <- Entries(5, 3),
  Names <- {1, 2}, Threads <- {1}, Kinds <- {"create", "mkdir", "symlink", "link", "remove", "rename"}, Buckets <- 1,
  MaxLink <- 4, LogCap <- 2, MaxExt <- 1, MaxOps <- 3, MaxCrashes <- 1, ReadOnly <- FALSE

----------------------------------------------------------------------------
DirIdle == dir = 0 /\ names = 0 /\ removes = 0 /\ failed = 0 /\ reader = 0
DaIdle == tree = 0 /\ mapped = 0 /\ present = 0 /\ entered = 0 /\ result = 0
LeafIdle == fork = 0 /\ want = 0 /\ todo = 0 /\ leafOps = 0
AttrIdle == hist = 0 /\ data = 0 /\ op = 0 /\ sets = 0 /\ done = 0 /\ attrCrashes = 0
NsIdle == /\ mem = 0 /\ durable = 0 /\ open = 0 /\ th = 0 /\ lock = 0 /\ age = 0
          /\ pend = 0 /\ unsync = 0 /\ writeq = 0 /\ mount = 0 /\ ops = 0 /\ crashes = 0

Init ==
  \/ /\ DaIdle /\ LeafIdle /\ AttrIdle /\ NsIdle
     /\ \/ which = "blockDir" /\ BlockDir!DirInit
        \/ which = "nodeDir" /\ NodeDir!DirInit
        \/ which = "leafDir" /\ LeafDir!DirInit
  \/ /\ DirIdle /\ LeafIdle /\ AttrIdle /\ NsIdle
     /\ \/ which = "dirTree" /\ DirTree!DaInit
        \/ which = "attrTree" /\ AttrTree!DaInit
  \/ DirIdle /\ DaIdle /\ AttrIdle /\ NsIdle /\ which = "leaf" /\ Leaf!AttrInit
  \/ /\ DirIdle /\ DaIdle /\ LeafIdle /\ NsIdle
     /\ \/ which = "values" /\ Values!AttrInit
        \/ which = "longValues" /\ LongValues!AttrInit
  \/ /\ DirIdle /\ DaIdle /\ LeafIdle /\ AttrIdle
     /\ \/ which = "locks" /\ Locks!NsInit
        \/ which = "projects" /\ Projects!NsInit
        \/ which = "orphans" /\ Orphans!NsInit
        \/ which = "changes" /\ Changes!NsInit

Next ==
  /\ UNCHANGED which
  /\ \/ which = "blockDir" /\ BlockDir!DirNext /\ UNCHANGED <<daVars, leafVars, attrVars, nsVars>>
     \/ which = "nodeDir" /\ NodeDir!DirNext /\ UNCHANGED <<daVars, leafVars, attrVars, nsVars>>
     \/ which = "leafDir" /\ LeafDir!DirNext /\ UNCHANGED <<daVars, leafVars, attrVars, nsVars>>
     \/ which = "dirTree" /\ DirTree!DaNext /\ UNCHANGED <<dirVars, leafVars, attrVars, nsVars>>
     \/ which = "attrTree" /\ AttrTree!DaNext /\ UNCHANGED <<dirVars, leafVars, attrVars, nsVars>>
     \/ which = "leaf" /\ Leaf!AttrNext /\ UNCHANGED <<dirVars, daVars, attrVars, nsVars>>
     \/ which = "values" /\ Values!AttrNext /\ UNCHANGED <<dirVars, daVars, leafVars, nsVars>>
     \/ which = "longValues" /\ LongValues!AttrNext /\ UNCHANGED <<dirVars, daVars, leafVars, nsVars>>
     \/ which = "locks" /\ Locks!NsNext /\ UNCHANGED <<dirVars, daVars, leafVars, attrVars>>
     \/ which = "projects" /\ Projects!NsNext /\ UNCHANGED <<dirVars, daVars, leafVars, attrVars>>
     \/ which = "orphans" /\ Orphans!NsNext /\ UNCHANGED <<dirVars, daVars, leafVars, attrVars>>
     \/ which = "changes" /\ Changes!NsNext /\ UNCHANGED <<dirVars, daVars, leafVars, attrVars>>

Spec == Init /\ [][Next]_vars

----------------------------------------------------------------------------
\* A lookup finds exactly the names that were entered, in every directory format,
\* and the hash btree holds every block once (xfs_dir_createname, xfs_dir_removename,
\* xfs_dir_replace, xfs_da_split, xfs_da_join).
DirectoryIsExact ==
  /\ which = "blockDir" => BlockDir!DirectoryIsExact
  /\ which = "nodeDir" => NodeDir!DirectoryIsExact
  /\ which = "leafDir" => LeafDir!DirectoryIsExact
  /\ which = "dirTree" => DirTree!HashTreeIsExact

\* A reader returns every name that stays, once (xfs_readdir).
ReaddirIsComplete == which = "blockDir" => BlockDir!ReaddirIsComplete

\* Every attribute set is found, nothing in a leaf or in the inode overlaps, and the
\* hash btree holds every leaf once (xfs_attr_leaf_add, xfs_attr_leaf_compact,
\* xfs_attr_shortform_bytesfit, xfs_da_join, xfs_da_swap_lastblock).
AttributesAreExact ==
  /\ which = "leaf" => Leaf!AttributesAreExact
  /\ which = "attrTree" => AttrTree!HashTreeIsExact

\* Whatever a crash leaves, a value that can be seen is whole (xfs_attr_rmtval_set,
\* xfs_attr_leaf_flipflags).
VisibleValueIsWhole ==
  /\ which = "values" => Values!VisibleValueIsWhole
  /\ which = "longValues" => LongValues!VisibleValueIsWhole

\* Link counts, names, parents and unlinked lists agree, in memory and after a crash
\* (xfs_create, xfs_link, xfs_remove, xfs_rename, xfs_iunlink).
NamespaceIsExact ==
  /\ which = "locks" => Locks!NamespaceIsExact
  /\ which = "projects" => Projects!NamespaceIsExact
  /\ which = "orphans" => Orphans!NamespaceIsExact
  /\ which = "changes" => Changes!NamespaceIsExact

\* An inode without a name is in use, being freed, or still to be found by recovery
\* (xfs_inactive, xlog_recover_process_iunlinks).
OrphansAreFreed ==
  /\ which = "locks" => Locks!OrphansAreFreed
  /\ which = "orphans" => Orphans!OrphansAreFreed
  /\ which = "changes" => Changes!OrphansAreFreed

\* The try of the second inode lock breaks the cycles through log space
\* (xfs_lock_inodes, xfs_lock_two_inodes).
TryLockBreaksCycle ==
  /\ which = "locks" => Locks!TryLockBreaksCycle
  /\ which = "orphans" => Orphans!TryLockBreaksCycle
  /\ which = "changes" => Changes!TryLockBreaksCycle
=============================================================================
