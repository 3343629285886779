---------------------------- MODULE XfsNamespace ----------------------------
(***************************************************************************)
(* The operations on the name space and the life of an unlinked inode:     *)
(* xfs_create, xfs_mkdir, xfs_symlink, xfs_link, xfs_remove, xfs_rename,   *)
(* truncation, xfs_inactive, the unlinked lists of the AGI and their       *)
(* processing by log recovery.                                             *)
(*                                                                         *)
(* Threads lock inodes with xfs_lock_inodes/xfs_lock_two_inodes, which     *)
(* only try a lock while they hold an inode that is in the AIL; a          *)
(* transaction is one step once all its inodes are locked (it changes      *)
(* nothing else), and a long running one (a truncation) rolls: it commits, *)
(* and waits for log space again with its inode locked.                    *)
(*                                                                         *)
(* Log space: a commit writes one unit at the head, and a unit is reused   *)
(* when nothing at its age or older is in the AIL or not yet written.      *)
(* age[i] is the distance of inode i's AIL position from the head (0: not  *)
(* in the AIL), pend[i] that of its last commit when that is not on disk   *)
(* yet, unsync that of the oldest record that is not on disk.              *)
(*                                                                         *)
(* The VFS is external: it serialises the operations on a directory with   *)
(* i_mutex, looks names up, never moves a directory below itself, and      *)
(* calls xfs_inactive when the last reference to an inode goes away.       *)
(***************************************************************************)
EXTENDS Integers, Sequences, FiniteSets, FiniteSetsExt, SequencesExt

CONSTANTS Inodes,      \* inode numbers, 1 is the root directory
          Start,       \* the inodes at mount: [Inodes -> inode record]
          StartEnt,    \* the names at mount
          Names,
          Threads,
          Kinds,       \* operations the threads may start
          Buckets,     \* XFS_AGI_UNLINKED_BUCKETS
          MaxLink,     \* XFS_MAXLINK
          LogCap,      \* log size in units
          MaxExt,      \* extents of a new file
          MaxOps, MaxCrashes,
          ReadOnly     \* whether recovery may run on a read-only mount

VARIABLES mem,      \* the metadata: ino (inodes), ent (names), agi (unlinked heads)
          durable,  \* the metadata the log on disk gives back after a crash
          open,     \* inodes a user holds open
          th,       \* the threads
          lock,     \* ILOCK of each inode: 0, its owner, or -1 (see Unlock4)
          age, pend, unsync,
          writeq,   \* threads that wait to roll, in order
          mount,    \* phase of the mount and the state of recovery
          ops, crashes
nsVars == <<mem, durable, open, th, lock, age, pend, unsync, writeq, mount, ops, crashes>>

NoOp == [type |-> "none", dp |-> 0, name |-> 0, ip |-> 0, tdp |-> 0, tname |-> 0, tip |-> 0]
Idle == [op |-> NoOp, pc |-> "idle", tab |-> <<>>, i |-> 1, late |-> {}, res |-> 0, wr |-> 0]

NsInit ==
  /\ mem = [ino |-> Start, ent |-> StartEnt, agi |-> [b \in 0..(Buckets - 1) |-> 0]]
  /\ durable = mem
  /\ open = {}
  /\ th = [t \in Threads |-> Idle]
  /\ lock = [i \in Inodes |-> 0]
  /\ age = [i \in Inodes |-> 0]
  /\ pend = [i \in Inodes |-> 0]
  /\ unsync = 0
  /\ writeq = <<>>
  /\ mount = [phase |-> "up", bucket |-> 0, agino |-> 0]
  /\ ops = 0
  /\ crashes = 0

-----------------------------------------------------------------------------
(* The unlinked lists of the AGI *)

Bucket(i) == i % Buckets

\* xfs_iunlink: at the head; the next pointer of the only element is not written
Iunlink(m, i) ==
  LET head == m.agi[Bucket(i)] IN
  [m EXCEPT !.agi[Bucket(i)] = i,
            !.ino[i].next = IF head # 0 THEN head ELSE m.ino[i].next]

\* the element of the list before i (0: i is the head)
Before(m, i) == CHOOSE j \in Inodes \cup {0} :
  IF j = 0 THEN m.agi[Bucket(i)] = i ELSE m.ino[j].next = i

MutIunlinkRemove(m, i) ==
  LET p == Before(m, i)  n == m.ino[i].next IN
  IF p = 0 THEN [m EXCEPT !.agi[Bucket(i)] = n]
  ELSE [m EXCEPT !.ino[p].next = n]

\* xfs_iunlink_remove: the next pointer goes back to NULLAGINO
IunlinkRemove(m, i) ==
  LET p == Before(m, i)  n == m.ino[i].next IN
  IF p = 0 THEN [m EXCEPT !.agi[Bucket(i)] = n, !.ino[i].next = 0]
  ELSE [m EXCEPT !.ino[p].next = n, !.ino[i].next = 0]

\* xfs_ifree: off the list and free, in one transaction
Ifree(m, i) ==
  LET r == IunlinkRemove(m, i) IN
  [r EXCEPT !.ino[i].mode = "free", !.ino[i].inherit = FALSE]

-----------------------------------------------------------------------------
(* Link counts and names *)

Droplink(m, i) ==
  LET d == [m EXCEPT !.ino[i].nlink = @ - 1] IN
  IF m.ino[i].nlink = 1 THEN Iunlink(d, i) ELSE d

Bumplink(m, i) == [m EXCEPT !.ino[i].nlink = @ + 1]

SetName(m, d, n, i) == [m EXCEPT !.ent[d][n] = i]

DirIsEmpty(m, d) == \A n \in Names : m.ent[d][n] = 0

\* xfs_ialloc: a new inode takes the project of a parent that has
\* XFS_DIFLAG_PROJINHERIT, and a file or a directory the flag
NewInode(dip, dp, pip, mode, nlink, data) ==
  [dip EXCEPT !.mode = mode, !.nlink = nlink, !.data = data, !.attr = FALSE,
              !.parent = IF mode = "dir" THEN dp ELSE 0,
              !.proj = IF pip.inherit THEN pip.proj ELSE 0,
              !.inherit = mode # "lnk" /\ pip.inherit]

\* xfs_dir_ialloc
Ialloc(m, dp, i, mode, nlink, data) ==
  [m EXCEPT !.ino[i] = NewInode(m.ino[i], dp, m.ino[dp], mode, nlink, data)]

\* xfs_create
Create(m, o, data) ==
  SetName(Ialloc(m, o.dp, o.ip, "reg", 1, data), o.dp, o.name, o.ip)

\* xfs_symlink: a long target takes a block
Symlink(m, o, data) ==
  SetName(Ialloc(m, o.dp, o.ip, "lnk", 1, data), o.dp, o.name, o.ip)

\* xfs_mkdir
Mkdir(m, o) ==
  Bumplink(SetName(Ialloc(m, o.dp, o.ip, "dir", 2, 0), o.dp, o.name, o.ip), o.dp)

\* xfs_link
Link(m, o) == Bumplink(SetName(m, o.dp, o.name, o.ip), o.ip)

\* xfs_remove
RemoveName(m, o) ==
  LET r == SetName(m, o.dp, o.name, 0) IN
  IF m.ino[o.ip].mode = "dir"
  THEN Droplink(Droplink(Droplink(r, o.dp), o.ip), o.ip)
  ELSE Droplink(r, o.ip)

IsDir(m, i) == m.ino[i].mode = "dir"

\* xfs_rename up to the entry in the target directory
RenameTarget(m, o) ==
  LET r == SetName(m, o.tdp, o.tname, o.ip) IN
  IF o.tip = 0
  THEN IF o.dp # o.tdp /\ IsDir(m, o.ip) THEN Bumplink(r, o.tdp) ELSE r
  ELSE IF IsDir(m, o.ip) THEN Droplink(Droplink(r, o.tip), o.tip)
       ELSE Droplink(r, o.tip)

\* ... the ".." entry of a directory that moved, the source directory's link
\* count and the old name
RenameSource(m, o) ==
  LET dir == IsDir(m, o.ip)
      r1 == IF dir /\ o.dp # o.tdp THEN [m EXCEPT !.ino[o.ip].parent = o.tdp] ELSE m
      r2 == IF dir /\ (o.dp # o.tdp \/ o.tip # 0) THEN Droplink(r1, o.dp) ELSE r1
  IN SetName(r2, o.dp, o.name, 0)

\* the errors found once the inodes are locked
Errors(m, o) ==
  CASE o.type = "mkdir" -> IF m.ino[o.dp].nlink >= MaxLink THEN {"EMLINK"} ELSE {}
    [] o.type = "link" ->
         IF m.ino[o.ip].nlink >= MaxLink THEN {"EMLINK"}
         ELSE IF m.ino[o.dp].inherit /\ m.ino[o.dp].proj # m.ino[o.ip].proj
              THEN {"EXDEV"} ELSE {}
    [] o.type = "remove" ->
         IF IsDir(m, o.ip) /\ (m.ino[o.ip].nlink # 2 \/ ~DirIsEmpty(m, o.ip))
         THEN {"ENOTEMPTY"} ELSE {}
    [] o.type = "rename" ->
         IF m.ino[o.tdp].inherit /\ m.ino[o.tdp].proj # m.ino[o.ip].proj THEN {"EXDEV"}
         ELSE IF o.tip # 0 /\ IsDir(m, o.tip)
                 /\ (~DirIsEmpty(m, o.tip) \/ m.ino[o.tip].nlink > 2)
              THEN {"EEXIST"} ELSE {}
    [] OTHER -> {}

\* the operation's transaction, and the inodes it logs
Apply(m, o, data) ==
  CASE o.type = "create" -> Create(m, o, data)
    [] o.type = "symlink" -> Symlink(m, o, data)
    [] o.type = "mkdir" -> Mkdir(m, o)
    [] o.type = "link" -> Link(m, o)
    [] o.type = "remove" -> RemoveName(m, o)
    [] o.type = "rename" -> RenameSource(RenameTarget(m, o), o)
    [] OTHER -> m

Logged(m, n, o) == {i \in {o.dp, o.ip, o.tdp, o.tip} \ {0} :
                      m.ino[i] # n.ino[i] \/ i \in {o.dp, o.tdp}}

-----------------------------------------------------------------------------
(* The VFS: what it lets a thread start *)

Refs(t) == {th[t].op.dp, th[t].op.ip, th[t].op.tdp, th[t].op.tip} \ {0}

\* i_mutex: the directories, and a victim or a link's source
Mutexes(o) == {o.dp, o.tdp, o.tip} \cup
              (IF o.type \in {"remove", "link", "trunc", "inactive"} THEN {o.ip} ELSE {})
NoMutexHeld(o) == \A t \in Threads : Mutexes(o) \cap Mutexes(th[t].op) \subseteq {0}

LiveDirs == {d \in Inodes : IsDir(mem, d) /\ mem.ino[d].nlink > 0}
Ancestors(d) == {d, mem.ino[d].parent, mem.ino[mem.ino[d].parent].parent}
FreeInodes == {i \in Inodes : mem.ino[i].mode = "free" /\ \A t \in Threads : i \notin Refs(t)}

NewOps(type) ==
  {[NoOp EXCEPT !.type = type, !.dp = d, !.name = n, !.ip = i] :
     d \in LiveDirs, n \in Names, i \in {j \in FreeInodes : \A k \in FreeInodes : j <= k}}
LinkOps ==
  {[NoOp EXCEPT !.type = "link", !.dp = d, !.name = n, !.ip = i] :
     d \in LiveDirs, n \in Names,
     i \in {j \in Inodes : mem.ino[j].mode \in {"reg", "lnk"} /\ mem.ino[j].nlink > 0}}
RemoveOps ==
  {[NoOp EXCEPT !.type = "remove", !.dp = d, !.name = n, !.ip = mem.ent[d][n]] :
     d \in LiveDirs, n \in Names}
RenameOps ==
  {[NoOp EXCEPT !.type = "rename", !.dp = d, !.name = n, !.ip = mem.ent[d][n],
                !.tdp = e, !.tname = p, !.tip = mem.ent[e][p]] :
     d \in LiveDirs, n \in Names, e \in LiveDirs, p \in Names}
TruncOps ==
  {[NoOp EXCEPT !.type = "trunc", !.ip = i] :
     i \in {j \in open : mem.ino[j].mode = "reg" /\ mem.ino[j].data > 0}}

VfsAllows(o) ==
  /\ NoMutexHeld(o)
  /\ o.type \in {"create", "mkdir", "symlink", "link"} => mem.ent[o.dp][o.name] = 0
  /\ o.type \in {"remove", "rename"} => o.ip # 0
  /\ o.type = "rename" =>
       /\ o.ip # o.tip
       /\ o.ip \notin Ancestors(o.tdp) /\ o.tip \notin Ancestors(o.dp)
       /\ o.tip # 0 => IsDir(mem, o.ip) = IsDir(mem, o.tip)

OpsOf(kind) ==
  CASE kind \in {"create", "mkdir", "symlink"} -> NewOps(kind)
    [] kind = "link" -> LinkOps
    [] kind = "remove" -> RemoveOps
    [] kind = "rename" -> RenameOps
    [] kind = "trunc" -> TruncOps
    [] OTHER -> {}

\* xfs_sort_for_rename, xfs_lock_two_inodes: inodes are locked in the order of
\* their numbers; a new inode is locked by xfs_dir_ialloc, nobody else has it
LockTab(o) == SetToSortSeq(
  (IF o.type \in {"create", "mkdir", "symlink"} THEN {o.dp}
   ELSE {o.dp, o.ip, o.tdp, o.tip}) \ {0}, <)

Begin(t, o) == th' = [th EXCEPT ![t] = [Idle EXCEPT !.op = o, !.pc = "reserve", !.tab = LockTab(o)]]

StartOp(t) ==
  /\ mount.phase = "up"
  /\ th[t].pc = "idle"
  /\ ops < MaxOps
  /\ \E k \in Kinds : \E o \in OpsOf(k) :
       /\ VfsAllows(o)
       \* the check of the link count that xfs_rename makes without a lock
       /\ o.type = "rename" /\ IsDir(mem, o.ip) /\ o.tip = 0 /\ o.dp # o.tdp
            => mem.ino[o.tdp].nlink < MaxLink
       /\ Begin(t, o)
  /\ ops' = ops + 1
  /\ UNCHANGED <<writeq, mem, durable, open, lock, age, pend, unsync, mount, crashes>>

OpenFile(i) ==
  /\ mount.phase = "up"
  /\ mem.ino[i].mode = "reg" /\ mem.ino[i].nlink > 0
  /\ i \notin open
  /\ "open" \in Kinds
  /\ ops < MaxOps
  /\ open' = open \cup {i}
  /\ ops' = ops + 1
  /\ UNCHANGED <<writeq, mem, durable, th, lock, age, pend, unsync, mount, crashes>>

-----------------------------------------------------------------------------
(* Log space and locks *)

Used == Max({age[i] : i \in Inodes} \cup {unsync})
\* the reserve head counts every transaction to its last commit, the write
\* head only what a transaction may still write
Reserved == FoldSet(LAMBDA t, acc : acc + th[t].res, 0, Threads)
Writing == FoldSet(LAMBDA t, acc : acc + th[t].wr, 0, Threads)

\* xfs_trans_reserve before any inode is locked
Reserve(t) ==
  /\ th[t].pc = "reserve"
  /\ Used + Reserved + 1 <= LogCap
  /\ th' = [th EXCEPT ![t].res = 1, ![t].wr = 1, ![t].pc = "lock"]
  /\ UNCHANGED <<writeq, mem, durable, open, lock, age, pend, unsync, mount, ops, crashes>>

Held(t) == {i \in Inodes : lock[i] = t}

MutMustTry(t) == FALSE

\* an inode this thread has locked is in the AIL
MustTry(t) == \E i \in Held(t) : age[i] > 0

\* xfs_lock_inodes, xfs_lock_two_inodes: the next inode of the table
LockNext(t) ==
  /\ th[t].pc = "lock"
  /\ th[t].i <= Len(th[t].tab)
  /\ LET i == th[t].tab[th[t].i] IN
     IF MustTry(t)
     THEN IF lock[i] = 0
          THEN /\ lock' = [lock EXCEPT ![i] = t]
               /\ th' = [th EXCEPT ![t].i = @ + 1]
          ELSE /\ lock' = [j \in Inodes |-> IF lock[j] = t THEN 0 ELSE lock[j]]
               /\ th' = [th EXCEPT ![t].i = 1, ![t].late = {}]
     ELSE /\ th' = [th EXCEPT ![t].pc = "wait"]
          /\ UNCHANGED lock
  /\ UNCHANGED <<writeq, mem, durable, open, age, pend, unsync, mount, ops, crashes>>

\* xfs_ilock: sleep until the inode is unlocked
LockWait(t) ==
  /\ th[t].pc = "wait"
  /\ lock[th[t].tab[th[t].i]] = 0
  /\ lock' = [lock EXCEPT ![th[t].tab[th[t].i]] = t]
  /\ th' = [th EXCEPT ![t].pc = "lock", ![t].i = @ + 1]
  /\ UNCHANGED <<writeq, mem, durable, open, age, pend, unsync, mount, ops, crashes>>

Locked(t) == th[t].pc = "lock" /\ th[t].i > Len(th[t].tab)
Unlocked(t) == [j \in Inodes |-> IF lock[j] = t THEN 0 ELSE lock[j]]

\* xfs_trans_commit writes a record at the head that holds `logged'
CommitLog(logged) ==
  /\ age' = [i \in Inodes |-> IF age[i] > 0 THEN age[i] + 1 ELSE 0]
  /\ pend' = [i \in Inodes |-> IF i \in logged THEN 1
                               ELSE IF pend[i] > 0 THEN pend[i] + 1 ELSE 0]
  /\ unsync' = unsync + 1

-----------------------------------------------------------------------------
(* Carrying out an operation *)

\* the transaction of a name space operation, then the references go
DoOp(t) ==
  /\ Locked(t)
  /\ th[t].op.type \notin {"trunc", "inactive"}
  /\ Errors(mem, th[t].op) = {}
  /\ \E data \in IF th[t].op.type = "create" THEN {0, MaxExt}
                 ELSE IF th[t].op.type = "symlink" THEN {0, 1} ELSE {0} :
     \E m \in {Apply(mem, th[t].op, data)} :
       /\ mem' = m
       /\ CommitLog(Logged(mem, m, th[t].op))
  /\ lock' = Unlocked(t)
  /\ th' = [th EXCEPT ![t].pc = "rele", ![t].res = 0, ![t].wr = 0, ![t].late = {}]
  /\ UNCHANGED <<writeq, durable, open, mount, ops, crashes>>

\* an error: xfs_trans_cancel unlocks what was joined and gives the space back
CancelOp(t) ==
  /\ Locked(t)
  /\ Errors(mem, th[t].op) # {}
  /\ ~(th[t].op.type = "rename" /\ "EXDEV" \in Errors(mem, th[t].op))
  /\ lock' = Unlocked(t)
  /\ th' = [th EXCEPT ![t].pc = "rele", ![t].res = 0, ![t].wr = 0, ![t].late = {}]
  /\ UNCHANGED <<writeq, mem, durable, open, age, pend, unsync, mount, ops, crashes>>

\* xfs_rename_unlock4(inodes, XFS_ILOCK_SHARED) of inodes locked exclusively:
\* up_read of a semaphore held for writing leaves it held, by nobody
Unlock4(t) ==
  /\ Locked(t)
  /\ th[t].op.type = "rename" /\ "EXDEV" \in Errors(mem, th[t].op)
  /\ lock' = [j \in Inodes |-> IF lock[j] = t THEN -1 ELSE lock[j]]
  /\ th' = [th EXCEPT ![t].pc = "rele", ![t].res = 0, ![t].wr = 0, ![t].late = {}]
  /\ UNCHANGED <<writeq, mem, durable, open, age, pend, unsync, mount, ops, crashes>>

\* one transaction of a long running operation: unmap an extent, log the
\* inode, commit, keep the inode locked
UnmapAndRoll(t) ==
  /\ Locked(t)
  /\ mem.ino[th[t].op.ip].data > 0
  /\ mem' = [mem EXCEPT !.ino[th[t].op.ip].data = @ - 1]
  /\ CommitLog({th[t].op.ip})
  /\ th' = [th EXCEPT ![t].pc = "regrant", ![t].wr = 0]
  /\ writeq' = Append(writeq, t)
  /\ UNCHANGED <<durable, open, lock, mount, ops, crashes>>

\* xfs_itruncate_finish
Roll(t) ==
  /\ th[t].op.type \in {"trunc", "inactive"} /\ mem.ino[th[t].op.ip].mode = "reg"
  /\ UnmapAndRoll(t)

\* xfs_inactive_symlink_rmt: the block of the target
RollSymlink(t) ==
  /\ th[t].op.type = "inactive" /\ mem.ino[th[t].op.ip].mode = "lnk"
  /\ UnmapAndRoll(t)

\* ... and wait for log space with the inode locked
Regrant(t) ==
  /\ th[t].pc = "regrant"
  /\ Head(writeq) = t
  /\ Used + Writing + 1 <= LogCap
  /\ th' = [th EXCEPT ![t].wr = 1, ![t].pc = "lock"]
  /\ writeq' = Tail(writeq)
  /\ UNCHANGED <<mem, durable, open, lock, age, pend, unsync, mount, ops, crashes>>

\* the last transaction of a truncation or of xfs_inactive
FinishRolling(t) ==
  /\ Locked(t)
  /\ th[t].op.type \in {"trunc", "inactive"}
  /\ mem.ino[th[t].op.ip].data = 0
  /\ th[t].op.type = "inactive" => ~mem.ino[th[t].op.ip].attr
  /\ mem' = IF th[t].op.type = "inactive" THEN Ifree(mem, th[t].op.ip) ELSE mem
  /\ CommitLog({th[t].op.ip})
  /\ lock' = Unlocked(t)
  /\ th' = [th EXCEPT ![t] = IF th[t].op.type = "inactive" THEN Idle
                             ELSE [@ EXCEPT !.pc = "rele", !.res = 0, !.wr = 0, !.late = {}]]
  /\ UNCHANGED <<writeq, durable, open, mount, ops, crashes>>

\* xfs_inactive_attrs: commit and unlock the inode, remove its attributes with
\* xfs_attr_inactive in transactions of their own, and start again
InactiveAttrs(t) ==
  /\ Locked(t)
  /\ th[t].op.type = "inactive"
  /\ mem.ino[th[t].op.ip].data = 0 /\ mem.ino[th[t].op.ip].attr
  /\ CommitLog({th[t].op.ip})
  /\ lock' = Unlocked(t)
  /\ th' = [th EXCEPT ![t].pc = "attr", ![t].res = 0, ![t].wr = 0, ![t].i = 1]
  /\ UNCHANGED <<mem, durable, open, writeq, mount, ops, crashes>>

AttrInactive(t) ==
  /\ th[t].pc = "attr"
  /\ Used + Reserved + 1 <= LogCap
  /\ lock[th[t].op.ip] = 0
  /\ mem' = [mem EXCEPT !.ino[th[t].op.ip].attr = FALSE]
  /\ CommitLog({th[t].op.ip})
  /\ th' = [th EXCEPT ![t].pc = "reserve"]
  /\ UNCHANGED <<durable, open, lock, writeq, mount, ops, crashes>>

\* the orphans whose last reference goes with this thread's operation
Dying(t) == {i \in Refs(t) \ open :
               /\ mem.ino[i].mode # "free" /\ mem.ino[i].nlink = 0
               /\ \A u \in Threads \ {t} : i \notin Refs(u)}

\* IRELE of the operation's inodes; the last reference to an unlinked inode
\* makes it inactive
Release(t) ==
  /\ th[t].pc = "rele"
  /\ IF Dying(t) = {} \/ mount.phase = "ro" THEN th' = [th EXCEPT ![t] = Idle]
     ELSE \E i \in Dying(t) : Begin(t, [NoOp EXCEPT !.type = "inactive", !.ip = i])
  /\ UNCHANGED <<writeq, mem, durable, open, lock, age, pend, unsync, mount, ops, crashes>>

\* close: the thread takes over the reference of the open file
CloseFile(t, i) ==
  /\ mount.phase = "up"
  /\ th[t].pc = "idle"
  /\ i \in open
  /\ open' = open \ {i}
  /\ th' = [th EXCEPT ![t] = [Idle EXCEPT !.op = [NoOp EXCEPT !.type = "close", !.ip = i], !.pc = "rele"]]
  /\ UNCHANGED <<writeq, mem, durable, lock, age, pend, unsync, mount, ops, crashes>>

-----------------------------------------------------------------------------
(* Log I/O and the AIL *)

\* the log is on disk: its inodes move to their new place in the AIL
LogIo ==
  /\ unsync > 0
  /\ durable' = mem
  /\ age' = [i \in Inodes |-> IF pend[i] > 0 THEN pend[i] ELSE age[i]]
  /\ pend' = [i \in Inodes |-> 0]
  /\ unsync' = 0
  \* an inode enters the AIL while its owner already sleeps on another one
  /\ th' = [t \in Threads |-> [th[t] EXCEPT !.late =
              @ \cup {i \in Held(t) : th[t].pc = "wait" /\ pend[i] > 0 /\ age[i] = 0}]]
  /\ UNCHANGED <<writeq, mem, open, lock, mount, ops, crashes>>

\* xfsaild: xfs_inode_item_trylock, flush, and out of the AIL
Push(i) ==
  /\ age[i] > 0
  /\ pend[i] = 0
  /\ lock[i] = 0
  /\ age' = [age EXCEPT ![i] = 0]
  /\ UNCHANGED <<writeq, mem, durable, open, th, lock, pend, unsync, mount, ops, crashes>>

-----------------------------------------------------------------------------
(* Crash and the recovery of the unlinked lists *)

Crash ==
  /\ crashes < MaxCrashes
  /\ crashes' = crashes + 1
  /\ mem' = durable
  /\ open' = {}
  /\ th' = [t \in Threads |-> Idle]
  /\ lock' = [i \in Inodes |-> 0]
  /\ age' = [i \in Inodes |-> 0]
  /\ pend' = age'
  /\ unsync' = 0
  /\ writeq' = <<>>
  /\ \E p \in {"rw"} \cup (IF ReadOnly THEN {"ro"} ELSE {}) :
       mount' = [phase |-> p, bucket |-> 0, agino |-> durable.agi[0]]
  /\ UNCHANGED <<durable, ops>>

Mounter == CHOOSE t \in Threads : \A u \in Threads : t <= u

MutRecoverOne ==
  /\ mount.phase \in {"rw", "ro"}
  /\ th[Mounter].pc = "idle"
  /\ mount.agino # 0
  /\ mount' = [mount EXCEPT !.agino = 0]
  /\ th' = [th EXCEPT ![Mounter] = [Idle EXCEPT !.pc = "rele",
              !.op = [NoOp EXCEPT !.type = "iget", !.ip = mount.agino]]]
  /\ UNCHANGED <<writeq, mem, durable, open, lock, age, pend, unsync, ops, crashes>>

\* xlog_recover_process_one_iunlink: xfs_iget, read the next pointer, IRELE
RecoverOne ==
  /\ mount.phase \in {"rw", "ro"}
  /\ th[Mounter].pc = "idle"
  /\ mount.agino # 0
  /\ mount' = [mount EXCEPT !.agino = mem.ino[mount.agino].next]
  /\ th' = [th EXCEPT ![Mounter] = [Idle EXCEPT !.pc = "rele",
              !.op = [NoOp EXCEPT !.type = "iget", !.ip = mount.agino]]]
  /\ UNCHANGED <<writeq, mem, durable, open, lock, age, pend, unsync, ops, crashes>>

\* xlog_recover_process_iunlinks: the next bucket, or the end; a read-only
\* mount can be remounted read-write, which does not look at the lists again
RecoverNext ==
  /\ mount.phase \in {"rw", "ro"}
  /\ th[Mounter].pc = "idle"
  /\ mount.agino = 0
  /\ mount' = IF mount.bucket + 1 < Buckets
              THEN [mount EXCEPT !.bucket = @ + 1, !.agino = mem.agi[mount.bucket + 1]]
              ELSE [mount EXCEPT !.phase = "up", !.bucket = 0]
  /\ UNCHANGED <<writeq, mem, durable, open, th, lock, age, pend, unsync, ops, crashes>>

Advance(t) ==
  \/ Reserve(t) \/ LockNext(t) \/ LockWait(t) \/ DoOp(t) \/ CancelOp(t) \/ Unlock4(t)
  \/ Roll(t) \/ RollSymlink(t) \/ Regrant(t) \/ FinishRolling(t) \/ Release(t)
  \/ InactiveAttrs(t) \/ AttrInactive(t)

NsNext ==
  \/ \E t \in Threads : StartOp(t) \/ Advance(t) \/ \E i \in Inodes : CloseFile(t, i)
  \/ \E i \in Inodes : OpenFile(i) \/ Push(i)
  \/ LogIo \/ Crash \/ RecoverOne \/ RecoverNext

NsSpec == NsInit /\ [][NsNext]_nsVars

-----------------------------------------------------------------------------
(* Properties *)

Entries(m, i) == {<<d, n>> \in Inodes \X Names : m.ent[d][n] = i}
Children(m, i) == {d \in Inodes : IsDir(m, d) /\ m.ino[d].nlink > 0 /\ d # 1 /\ m.ino[d].parent = i}
Orphans(m) == {i \in Inodes : m.ino[i].mode # "free" /\ m.ino[i].nlink = 0}
ListFrom(m, b) ==
  LET step(l, k) == IF l = <<>> THEN (IF m.agi[b] = 0 THEN l ELSE <<m.agi[b]>>)
                    ELSE IF m.ino[Last(l)].next = 0 THEN l
                    ELSE Append(l, m.ino[Last(l)].next)
  IN FoldSet(LAMBDA k, l : step(l, k), <<>>, 0..Cardinality(Inodes))

Exact(m) ==
  /\ \A i \in Inodes : m.ino[i].mode = "free" => Entries(m, i) = {}
  /\ \A i \in Inodes : m.ino[i].mode \in {"reg", "lnk"} =>
       m.ino[i].nlink = Cardinality(Entries(m, i))
  /\ \A i \in Inodes \ {1} : IsDir(m, i) =>
       IF m.ino[i].nlink = 0 THEN Entries(m, i) = {} /\ DirIsEmpty(m, i)
       ELSE /\ m.ino[i].nlink = 2 + Cardinality(Children(m, i))
            /\ Cardinality(Entries(m, i)) = 1
            /\ \A e \in Entries(m, i) : e[1] = m.ino[i].parent
  /\ m.ino[1].nlink = 2 + Cardinality(Children(m, 1))
  /\ \A b \in DOMAIN m.agi :
       LET l == ListFrom(m, b) IN
         /\ ToSet(l) = {i \in Orphans(m) : Bucket(i) = b}
         /\ Cardinality(ToSet(l)) = Len(l)
  /\ \A i \in Inodes \ Orphans(m) : m.ino[i].next = 0

\* Whatever the threads do and wherever the machine stops, the metadata a user
\* sees and the metadata the log gives back agree with themselves: every link
\* count is the number of names (and of child directories), a directory's ".."
\* is where its name is, and the unlinked lists hold exactly the inodes without
\* a name, each once; and no inode somebody uses is freed.
NamespaceIsExact ==
  /\ Exact(mem) /\ Exact(durable)
  /\ \A i \in open : mem.ino[i].mode # "free"
  /\ \A t \in Threads : th[t].pc = "wait" =>
       \A i \in Refs(t) : mem.ino[i].mode # "free" \/ th[t].op.type \in {"create", "mkdir", "symlink"}

\* An inode without a name is in use, is being freed, or is still to be visited
\* by the recovery of the unlinked lists.
OrphansAreFreed ==
  mount.phase = "up" =>
    \A i \in Orphans(mem) : i \in open \/ \E t \in Threads : i \in Refs(t)

Stuck == /\ \E t \in Threads : th[t].pc # "idle"
         /\ ~ENABLED (\E t \in Threads : Advance(t))
         /\ ~ENABLED LogIo
         /\ \A i \in Inodes : ~ENABLED Push(i)

\* Threads wait for one another for ever only when an inode was put into the
\* AIL after its owner had gone to sleep on another one, or a lock was left held by nobody: the try of
\* the second lock breaks every other cycle through log space.
TryLockBreaksCycle ==
  Stuck => (\E t \in Threads : th[t].late # {}) \/ \E i \in Inodes : lock[i] = -1

\* What the comment of xfs_lock_inodes claims: no such deadlock at all.
NoLogSpaceDeadlock == ~Stuck

\* xfs_iunlock is given the mode the inode was locked in: an inode is locked
\* only by a thread that is at work.
LocksAreReleased ==
  \A i \in Inodes : lock[i] # 0 => lock[i] # -1
=============================================================================
