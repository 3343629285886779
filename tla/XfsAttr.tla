------------------------------ MODULE XfsAttr ------------------------------
(***************************************************************************)
(* Setting, replacing and removing extended attributes when it takes       *)
(* several transactions (fs/xfs/xfs_attr.c).  A value too large for  *)
(* a leaf goes to blocks of its own, which are not logged: the entry is    *)
(* added INCOMPLETE, the blocks are allocated and written, and only then   *)
(* is the flag turned, together with that of the value being replaced.     *)
(*                                                                         *)
(* Every action is one transaction or one synchronous write.  hist is the  *)
(* fork after each transaction that may still be the last one recovery     *)
(* finds: the first is on disk, the last is the fork in memory.  A crash   *)
(* takes any of them.  Entries are in the order of the leaves, by hash;    *)
(* where they lie in a leaf and when a leaf or the inode is full is left   *)
(* open (XfsAttrLeaf).  A value is named by the operation that set it, and *)
(* names are numbers in the order of their hashes, which are distinct.     *)
(***************************************************************************)
EXTENDS Integers, Sequences, FiniteSets, FiniteSetsExt, SequencesExt

CONSTANTS
  AttrNames,   \* the names
  RmtBlocks,   \* the disk blocks values can be put in
  RmtLen,      \* blocks of a value that is not kept in a leaf
  MaxOff,      \* bound: offsets of the attribute fork for such values
  MaxSets,     \* bound: values set
  MaxOps,      \* bound: operations
  MaxPend,     \* bound: transactions committed and not on disk
  MaxCrashes,  \* bound: crashes
  SfGrow       \* whether an inline value may be replaced by one that is too large

VARIABLES
  hist,        \* the forks a crash may leave: [form, ents, map, dead]
  data,        \* what each disk block holds: the value and which part of it
  op,          \* the operation in progress
  sets, done,  \* values set; operations begun
  crashes

attrVars == <<hist, data, op, sets, done, crashes>>

Offs == 1..MaxOff
NoBlock == 0
Parts == 0..(RmtLen - 1)

fork == Last(hist)
Mapped(f) == {f.map[o] : o \in Offs} \ {NoBlock}

VisibleAt(f, n) == {i \in DOMAIN f.ents : f.ents[i].n = n /\ ~f.ents[i].inc}
Visible(f, n) == VisibleAt(f, n) # {}
At(f, n) == Min(VisibleAt(f, n))

\* what reading an entry gives: its own value when every block of it does
Whole(f, e) ==
  e.rmt => \A k \in Parts : /\ e.off + k \in Offs
                            /\ f.map[e.off + k] # NoBlock
                            /\ data[f.map[e.off + k]] = <<e.v, k>>

Idle == [step |-> "idle"]
Commit(f) == Len(hist) <= MaxPend /\ hist' = Append(hist, f)

----------------------------------------------------------------------------
(* Setting *)

\* an entry goes before the one it replaces, or behind all of its hash
Insert(f, e, found) ==
  LET at == IF found THEN At(f, e.n)
            ELSE Cardinality({i \in DOMAIN f.ents : f.ents[i].n <= e.n}) + 1
  IN  [f EXCEPT !.ents = InsertAt(@, at, e)]

Without(f, i) == [f EXCEPT !.ents = RemoveAt(@, i)]

Shown(e, off) == [e EXCEPT !.inc = FALSE, !.off = off]
Hidden(e) == [e EXCEPT !.inc = TRUE, !.off = 0]

Entry(n, v, rmt, inc) == [n |-> n, v |-> v, rmt |-> rmt, off |-> 0, inc |-> inc]

\* inline: the old value goes first, whether or not the new one will fit
SfAddname(n, rmt, fits) ==
  LET old == Visible(fork, n)
      rest == IF old THEN Without(fork, At(fork, n)) ELSE fork
  IN  /\ fork.form = "sf"
      /\ fits => ~rmt
      /\ old /\ ~fits => SfGrow
      /\ Commit(IF fits THEN Insert(rest, Entry(n, sets + 1, FALSE, FALSE), FALSE)
                ELSE [rest EXCEPT !.form = "leaf"])
      /\ op' = IF fits THEN Idle
               ELSE [step |-> "add", n |-> n, v |-> sets + 1, rmt |-> rmt]

\* the entry is hidden when it replaces another or its value is yet to be
\* written; a full leaf is put below a node and the leaves below it split
LeafAddname(o, form) ==
  LET old == Visible(fork, o.n)
  IN  /\ fork.form # "sf"
      /\ form \in {fork.form, "node"}
      /\ Commit([Insert(fork, Entry(o.n, o.v, o.rmt, old \/ o.rmt), old) EXCEPT !.form = form])
      /\ op' = IF ~old /\ ~o.rmt THEN Idle
               ELSE [step |-> IF o.rmt THEN "alloc" ELSE "flip", n |-> o.n, v |-> o.v,
                     rmt |-> o.rmt, off |-> 0, at |-> 0,
                     old |-> IF old THEN fork.ents[At(fork, o.n)] ELSE Entry(0, 0, FALSE, FALSE)]

AttrSet(n, rmt) ==
  /\ op.step = "idle" /\ ~fork.dead /\ sets < MaxSets /\ done < MaxOps
  /\ sets' = sets + 1 /\ done' = done + 1
  /\ \/ \E fits \in BOOLEAN : SfAddname(n, rmt, fits)
     \/ \E form \in {"leaf", "node"} : LeafAddname([n |-> n, v |-> sets + 1, rmt |-> rmt], form)
  /\ UNCHANGED <<data, crashes>>

AddConverted ==
  /\ op.step = "add"
  /\ \E form \in {"leaf", "node"} : LeafAddname(op, form)
  /\ UNCHANGED <<data, sets, done, crashes>>

\* the first unused offset with room for the whole value
FirstUnused(f) ==
  Min({o \in Offs : \A k \in Parts : o + k \in Offs /\ f.map[o + k] = NoBlock})
HasRoom(f) == \E o \in Offs : \A k \in Parts : o + k \in Offs /\ f.map[o + k] = NoBlock

MutBusy(b) == FALSE

\* blocks whose freeing is not on disk yet
Busy(b) == \E i \in DOMAIN hist : b \in Mapped(hist[i])

\* one block is allocated in each transaction; taking a block that is busy
\* first forces the log
RmtvalAlloc ==
  /\ op.step = "alloc"
  /\ op.at = 0 => HasRoom(fork)
  /\ \E b \in RmtBlocks \ Mapped(fork), off \in {IF op.at = 0 THEN FirstUnused(fork) ELSE op.off} :
       /\ LET f == [fork EXCEPT !.map[off + op.at] = b]
          IN  IF Busy(b) THEN hist' = <<fork, f>> ELSE Commit(f)
       /\ op' = IF op.at + 1 = RmtLen THEN [op EXCEPT !.step = "write", !.off = off, !.at = 0]
                ELSE [op EXCEPT !.off = off, !.at = @ + 1]
  /\ UNCHANGED <<data, sets, done, crashes>>

Written ==
  IF op.at + 1 = RmtLen THEN [op EXCEPT !.step = "flip", !.at = 0] ELSE [op EXCEPT !.at = @ + 1]

\* each part is written synchronously, outside any transaction
RmtvalWrite ==
  /\ op.step = "write"
  /\ data' = [data EXCEPT ![fork.map[op.off + op.at]] = <<op.v, op.at>>]
  /\ op' = Written
  /\ UNCHANGED <<hist, sets, done, crashes>>

\* the new value becomes visible and tells where its blocks are, and in the
\* same transaction the one it replaces becomes invisible and forgets
Flipflags ==
  /\ op.step = "flip"
  /\ Commit([fork EXCEPT !.ents =
                [i \in DOMAIN @ |-> CASE @[i].v = op.v -> Shown(@[i], op.off)
                                      [] @[i].v = op.old.v -> Hidden(@[i])
                                      [] OTHER -> @[i]]])
  /\ op' = IF op.old.n = 0 THEN Idle
           ELSE [step |-> IF op.old.rmt THEN "free" ELSE "old", n |-> op.n, v |-> op.old.v,
                 off |-> op.old.off, at |-> RmtLen - 1, set |-> TRUE]
  /\ UNCHANGED <<data, sets, done, crashes>>

----------------------------------------------------------------------------
(* Removing *)

\* the blocks of a value are unmapped from its end, a transaction for each
RmtvalRemove ==
  /\ op.step = "free"
  /\ Commit([fork EXCEPT !.map[op.off + op.at] = NoBlock])
  /\ op' = IF op.at = 0 THEN [op EXCEPT !.step = "old"] ELSE [op EXCEPT !.at = @ - 1]
  /\ UNCHANGED <<data, sets, done, crashes>>

\* a fork that fits in the inode goes back there; what is hidden is dropped
Shrunk(f, small) ==
  IF ~small THEN f
  ELSE [f EXCEPT !.form = "sf", !.ents = SelectSeq(@, LAMBDA e : ~e.inc)]
CanShrink(f) == /\ \A i \in DOMAIN f.ents : ~f.ents[i].inc => ~f.ents[i].rmt
                /\ Mapped(f) = {}

\* in a single leaf the entry's index is known; in a tree the replaced entry
\* is looked up as the first hidden one of its name
RemoveOld ==
  /\ op.step = "old"
  /\ \E small \in BOOLEAN, i \in DOMAIN fork.ents :
       LET f == Without(fork, i)
       IN  /\ IF op.set /\ fork.form = "node"
              THEN i = Min({j \in DOMAIN fork.ents : fork.ents[j].n = op.n /\ fork.ents[j].inc})
              ELSE fork.ents[i].v = op.v
           /\ small => CanShrink(f) /\ (fork.form = "leaf" \/ ~op.set)
           /\ Commit(Shrunk(f, small))
  /\ op' = Idle
  /\ UNCHANGED <<data, sets, done, crashes>>

\* a value in blocks of its own is hidden before its blocks are freed
AttrRemove(n) ==
  /\ op.step = "idle" /\ ~fork.dead /\ done < MaxOps /\ Visible(fork, n)
  /\ done' = done + 1
  /\ LET i == At(fork, n)
         e == fork.ents[i]
     IN  \/ /\ e.rmt
            /\ Commit([fork EXCEPT !.ents[i] = Hidden(e)])
            /\ op' = [step |-> "free", n |-> n, v |-> e.v, off |-> e.off, at |-> RmtLen - 1,
                      set |-> FALSE]
         \/ /\ ~e.rmt
            /\ \E small \in BOOLEAN :
                 /\ small => fork.form # "sf" /\ CanShrink(Without(fork, i))
                 /\ Commit(Shrunk(Without(fork, i), small))
            /\ UNCHANGED op
  /\ UNCHANGED <<data, sets, crashes>>

\* the file has lost its last link: the blocks of the tree and of the values
\* that can be seen are invalidated.  A crash brings the file back here.
AttrInactive ==
  /\ op.step = "idle" /\ fork.form # "sf"
  /\ fork.dead \/ done < MaxOps
  /\ done' = IF fork.dead THEN done ELSE done + 1
  /\ Commit([fork EXCEPT !.dead = TRUE])
  /\ op' = [step |-> "truncate"]
  /\ UNCHANGED <<data, sets, crashes>>

\* then the fork is unmapped from its end, its first leaf last
AttrTruncate ==
  /\ op.step = "truncate"
  /\ LET mapped == {o \in Offs : fork.map[o] # NoBlock}
     IN  /\ Commit(IF mapped = {} THEN [fork EXCEPT !.form = "sf", !.ents = <<>>]
                   ELSE [fork EXCEPT !.map[Max(mapped)] = NoBlock])
         /\ op' = IF mapped = {} THEN Idle ELSE op
  /\ UNCHANGED <<data, sets, done, crashes>>

----------------------------------------------------------------------------
(* The log and crashes *)

LogFlush ==
  /\ Len(hist) > 1
  /\ hist' = Tail(hist)
  /\ UNCHANGED <<data, op, sets, done, crashes>>

Crash ==
  /\ crashes < MaxCrashes
  /\ crashes' = crashes + 1
  /\ \E i \in DOMAIN hist : hist' = <<hist[i]>>
  /\ op' = Idle
  /\ UNCHANGED <<data, sets, done>>

AttrInit ==
  /\ hist = <<[form |-> "sf", ents |-> <<>>, map |-> [o \in Offs |-> NoBlock], dead |-> FALSE]>>
  /\ data = [b \in RmtBlocks |-> <<0, 0>>]
  /\ op = Idle
  /\ sets = 0 /\ done = 0 /\ crashes = 0

AttrNext ==
  \/ \E n \in AttrNames, rmt \in BOOLEAN : AttrSet(n, rmt)
  \/ \E n \in AttrNames : AttrRemove(n)
  \/ AddConverted \/ RmtvalAlloc \/ RmtvalWrite \/ Flipflags \/ RmtvalRemove \/ RemoveOld
  \/ AttrInactive \/ AttrTruncate \/ LogFlush \/ Crash

AttrSpec == AttrInit /\ [][AttrNext]_attrVars

----------------------------------------------------------------------------
(* Properties *)

\* Whatever transaction a crash leaves as the last one, every attribute that
\* can be seen there is seen once, with the value that was set for it and not
\* a part of it, of an older value, or of another attribute's: values are
\* written before they are shown and blocks are not reused before their
\* freeing is on disk.
VisibleValueIsWhole ==
  \A k \in {j \in DOMAIN hist : ~hist[j].dead} :
    \A i \in DOMAIN hist[k].ents :
      ~hist[k].ents[i].inc =>
        /\ Whole(hist[k], hist[k].ents[i])
        /\ VisibleAt(hist[k], hist[k].ents[i].n) = {i}

\* An attribute that is being replaced never disappears: one value appears in
\* the transaction in which the other one goes.
ReplaceIsAtomic ==
  [][\A n \in AttrNames :
       Visible(fork, n) /\ ~Visible(Last(hist'), n) =>
         \/ AttrRemove(n)
         \/ AttrTruncate
         \/ Crash]_attrVars
=============================================================================
