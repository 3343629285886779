------------------------------ MODULE XfsDquot ------------------------------
(***************************************************************************)
(* The in-core dquots of a mount: the hash chains they are found through,  *)
(* the mount's list (mplist), the free list of the unreferenced ones, the  *)
(* references inodes and group hints hold on them, and turning quota off.  *)
(*                                                                         *)
(* Sources: fs/xfs/quota/xfs_dquot.c, xfs_qm.c, xfs_qm_syscalls.c.         *)
(*                                                                         *)
(* Every thread runs one operation.  A step begins with the lock it waits  *)
(* for and runs to the next lock it may have to wait for; a trylock that   *)
(* fails is part of the step.  The locks are those of the "LOCK ORDER"     *)
(* comment (xfs_dquot.c:53): inode, hash chain, free list, mount list,     *)
(* dquot; the flush lock is the field `flush' of a dquot.  qi_dqreclaims   *)
(* is compared only with a copy a thread took, so a thread keeps the       *)
(* answer instead (`x').  qh_version only saves dqget a second lookup of a *)
(* chain that did not change, so the lookup is always made.  Dquots are    *)
(* slots of memory that are used again; all ids of a type share a chain.   *)
(***************************************************************************)
EXTENDS Naturals, Sequences, FiniteSets, SequencesExt

CONSTANTS
    Inodes,    \* the in-core inodes
    Uid, Gid,  \* [Inodes -> ids]: their owners
    Slots,     \* memory for dquots
    Threads,
    Kinds,     \* the operations the threads may run
    Gets,      \* the <<type, id>> dquots asked for without an inode
    OffTypes,  \* the quota types quotaoff turns off
    Warm,      \* inode 1 starts attached, its dquots dirty and being flushed
    Ndquot,    \* ndquot: the number of dquots above which one is reused
    MaxOps     \* bound: operations started

VARIABLES
    q,         \* the dquot cache and its locks
    th,        \* the stack of frames of each thread, innermost first
    ops
dqVars == <<q, th, ops>>

Types == {"user", "group"}
Locks == ({"q"} \X Slots) \cup ({"h"} \X Types) \cup ({"i"} \X Inodes)
           \cup {<<"f", 0>>, <<"m", 0>>}
QL(d) == <<"q", d>>
HL(ty) == <<"h", ty>>
IL(i) == <<"i", i>>
FLock == <<"f", 0>>
MLock == <<"m", 0>>

(* xfs_dquot_t.  st: none = not allocated, private = being read in by      *)
(* dqget, cached = on its hash chain and the mount's list, inactive =      *)
(* purged, left on the free list.  hint is q_gdquot.                       *)
NoDquot == [st |-> "none", id |-> 0, ty |-> "none", refs |-> 0, hint |-> 0,
            want |-> FALSE, dirty |-> FALSE, flush |-> FALSE]

Owner(i, ty) == IF ty = "user" THEN Uid[i] ELSE Gid[i]
IsOn(ty) == q.on[ty] = "on"                      \* XFS_IS_DQTYPE_ON
Chain(ty, id) == {d \in Slots : /\ q.dq[d].st = "cached"
                                /\ q.dq[d].ty = ty /\ q.dq[d].id = id}

DqInit ==
    /\ q = LET d(ty, id, refs, hint) ==
                   [NoDquot EXCEPT !.st = "cached", !.ty = ty, !.id = id, !.refs = refs,
                                   !.hint = hint, !.dirty = TRUE, !.flush = TRUE] IN
           [dq |-> [k \in Slots |-> IF ~Warm THEN NoDquot
                                    ELSE IF k = 1 THEN d("user", Uid[1], 1, 2)
                                    ELSE IF k = 2 THEN d("group", Gid[1], 2, 0)
                                    ELSE NoDquot],
            mpl |-> IF Warm THEN <<2, 1>> ELSE <<>>, free |-> <<>>,
            ip |-> [i \in Inodes |-> IF Warm /\ i = 1 THEN [user |-> 1, group |-> 2]
                                     ELSE [user |-> 0, group |-> 0]],
            lock |-> [l \in Locks |-> 0], on |-> [ty \in Types |-> "on"],
            reclaim |-> {}, null |-> FALSE]
    /\ th = [t \in Threads |-> <<>>]
    /\ ops = 0

-----------------------------------------------------------------------------
(* Frames and locks.                                                       *)

F(pc, i, ty, id, d) == [pc |-> pc, i |-> i, ty |-> ty, id |-> id, d |-> d,
                        p |-> 0, n |-> 0, x |-> FALSE]
Top(t) == Head(th[t])
At(t, pc) == th[t] # <<>> /\ Top(t).pc = pc
Unlocked(l) == q.lock[l] = 0
Take(s, t, ls) == [s EXCEPT !.lock = [l \in Locks |-> IF l \in ls THEN t ELSE s.lock[l]]]
Drop(s, ls) == Take(s, 0, ls)

Stack(t, stk) == th' = [th EXCEPT ![t] = stk] /\ UNCHANGED ops
Go(t, f) == Stack(t, <<f>> \o Tail(th[t]))
Call(t, f, g) == Stack(t, <<g, f>> \o Tail(th[t]))
Return(t) == Stack(t, Tail(th[t]))
(* Return from dqget with the locked dquot d, 0 for an error.              *)
ReturnDq(t, d) == Stack(t, <<[th[t][2] EXCEPT !.d = d]>> \o SubSeq(th[t], 3, Len(th[t])))

(* A dquot left the mount's list: every thread that remembers              *)
(* qi_dqreclaims will find it changed.                                     *)
Walks == {"sync_again", "hints_again", "purge_hash", "purge_mplist"}
Reclaimed(t, top) ==
    /\ th' = [u \in Threads |->
                IF u = t THEN top \o Tail(th[t])
                ELSE IF \E k \in DOMAIN th[u] : th[u][k].pc \in Walks
                THEN [th[u] EXCEPT ![Len(th[u])].x = TRUE]
                ELSE th[u]]
    /\ UNCHANGED ops

Without(s, d) == SelectSeq(s, LAMBDA e : e # d)
After(s, d) == LET k == CHOOSE j \in DOMAIN s : s[j] = d
               IN IF k < Len(s) THEN s[k + 1] ELSE 0
First(s) == IF s = <<>> THEN 0 ELSE s[1]

-----------------------------------------------------------------------------
(* xfs_qm_dqput: give back a reference to the locked dquot d.              *)

(* The last reference puts the dquot on the free list and gives up the     *)
(* group hint it carries, whose lock may have to be waited for.            *)
PutLast(s, f) ==
    IF s.dq[f.d].refs # 1 THEN
        [s |-> Drop([s EXCEPT !.dq[f.d].refs = @ - 1], {QL(f.d), FLock}), f |-> <<>>]
    ELSE IF s.dq[f.d].hint = 0 THEN
        [s |-> Drop([s EXCEPT !.dq[f.d].refs = 0, !.free = Append(@, f.d)],
                    {QL(f.d), FLock}), f |-> <<>>]
    ELSE [s |-> [s EXCEPT !.dq[f.d].refs = 0, !.free = Append(@, f.d)],
          f |-> <<[f EXCEPT !.pc = "put_hint"]>>]
DoPut(t, r) == /\ q' = r.s
               /\ Stack(t, r.f \o Tail(th[t]))

Put(t) ==
    /\ At(t, "put")
    /\ LET f == Top(t) IN
       \/ /\ q.dq[f.d].refs # 1
          /\ q' = Drop([q EXCEPT !.dq[f.d].refs = @ - 1], {QL(f.d)})
          /\ Return(t)
       \/ /\ q.dq[f.d].refs = 1 /\ Unlocked(FLock)
          /\ DoPut(t, PutLast(Take(q, t, {FLock}), f))
       \/ /\ q.dq[f.d].refs = 1 /\ ~Unlocked(FLock)
          /\ q' = Drop(q, {QL(f.d)})
          /\ Go(t, [f EXCEPT !.pc = "put_free"])
PutFree(t) ==
    /\ At(t, "put_free") /\ Unlocked(FLock)
    /\ q' = Take(q, t, {FLock})
    /\ Go(t, [Top(t) EXCEPT !.pc = "put_relock"])
PutRelock(t) ==
    /\ At(t, "put_relock") /\ Unlocked(QL(Top(t).d))
    /\ DoPut(t, PutLast(Take(q, t, {QL(Top(t).d)}), Top(t)))
PutHint(t) ==
    LET f == Top(t)  g == q.dq[f.d].hint IN
    /\ At(t, "put_hint") /\ Unlocked(QL(g))
    /\ DoPut(t, PutLast(Drop(Take([q EXCEPT !.dq[f.d].hint = 0], t, {QL(g)}),
                             {QL(f.d)}), [f EXCEPT !.d = g]))

(* xfs_qm_dqrele: lock the dquot, then dqput.                              *)
Rele(d) == F("rele", 0, "none", 0, d)
DoRele(t) ==
    /\ At(t, "rele") /\ Unlocked(QL(Top(t).d))
    /\ q' = Take(q, t, {QL(Top(t).d)})
    /\ Go(t, [Top(t) EXCEPT !.pc = "put"])

-----------------------------------------------------------------------------
(* Taking a dquot off the free list to use its memory.                     *)

(* One turn of the loops of xfs_qm_dqreclaim_one and xfs_qm_shake_freelist *)
(* over the free list, at the dquot d it has just locked: what the turn    *)
(* decides.  They take the two trylocks in opposite orders.                *)
Turn(d, shake) ==
    LET e == q.dq[d] IN
    IF e.want THEN "restart"
    ELSE IF e.st = "inactive" THEN "free"
    ELSE IF e.flush THEN "next"
    ELSE IF e.dirty THEN "flush"
    ELSE IF shake
         THEN IF ~Unlocked(HL(e.ty)) THEN "next"
              ELSE IF ~Unlocked(MLock) THEN "restart" ELSE "take"
         ELSE IF ~Unlocked(MLock) \/ ~Unlocked(HL(e.ty)) THEN "next" ELSE "take"
TakenOff(s, d, e) ==
    [s EXCEPT !.mpl = Without(@, d), !.free = Without(@, d), !.dq[d] = e]
DqFlush(s, d, inflight) ==                       \* xfs_qm_dqflush
    [s EXCEPT !.dq[d].dirty = FALSE, !.dq[d].flush = inflight]

(* xfs_qm_dqalloc_incore: reuse a dquot when there are too many, else, or  *)
(* when none can be had, allocate one.                                     *)
Allocated == {d \in Slots : q.dq[d].st # "none"}
NewDquot(f) == [NoDquot EXCEPT !.st = "private", !.id = f.id, !.ty = f.ty]
Fresh == CHOOSE d \in Slots \ Allocated : \A e \in Slots \ Allocated : d <= e
Alloc(t, s, f) ==
    /\ Allocated # Slots
    /\ q' = [s EXCEPT !.dq[Fresh] = NewDquot(f)]
    /\ Go(t, [f EXCEPT !.pc = "read", !.p = Fresh])
DqAllocIncore(t) ==
    /\ At(t, "alloc")
    /\ \/ Cardinality(Allocated) < Ndquot /\ Alloc(t, q, Top(t))
       \/ /\ Cardinality(Allocated) >= Ndquot /\ Unlocked(FLock)
          /\ IF q.free = <<>> THEN Alloc(t, q, Top(t))
             ELSE /\ q' = Take(q, t, {FLock})
                  /\ Go(t, [Top(t) EXCEPT !.pc = "reclaim", !.d = First(q.free)])
(* XFS_QM_RECLAIM_MAX_RESTARTS is left open: a restart may be the last.    *)
DqReclaimOne(t) ==
    LET f == Top(t)  d == f.d
        next == After(q.free, d)
        s == Drop(q, {FLock}) IN
    /\ At(t, "reclaim") /\ Unlocked(QL(d))
    /\ CASE Turn(d, FALSE) = "restart" ->
              \/ q' = s /\ Go(t, [f EXCEPT !.pc = "alloc"])
              \/ Alloc(t, s, f)
         [] Turn(d, FALSE) = "free" ->
              /\ q' = TakenOff(s, d, NewDquot(f))
              /\ Go(t, [f EXCEPT !.pc = "read", !.p = d])
         [] Turn(d, FALSE) = "take" ->
              /\ q' = TakenOff(s, d, NewDquot(f))
              /\ Reclaimed(t, <<[f EXCEPT !.pc = "read", !.p = d]>>)
         [] Turn(d, FALSE) \in {"next", "flush"} ->
              LET r == IF Turn(d, FALSE) = "flush" THEN DqFlush(q, d, TRUE) ELSE q IN
              IF next # 0 THEN q' = r /\ Go(t, [f EXCEPT !.d = next])
              ELSE Alloc(t, Drop(r, {FLock}), f)

(* xfs_qm_shake_freelist, called under memory pressure.                    *)
ShakeFree(t) ==
    /\ At(t, "shake_free") /\ Unlocked(FLock)
    /\ IF q.free = <<>> THEN Return(t) /\ UNCHANGED q
       ELSE /\ q' = Take(q, t, {FLock})
            /\ Go(t, [Top(t) EXCEPT !.pc = "shake", !.d = First(q.free)])
Shake(t) ==
    LET f == Top(t)  d == f.d
        next == After(q.free, d)
        s == IF next = 0 THEN Drop(q, {FLock}) ELSE q
        on == IF next = 0 THEN Return(t) ELSE Go(t, [f EXCEPT !.d = next]) IN
    /\ At(t, "shake") /\ Unlocked(QL(d))
    /\ CASE Turn(d, TRUE) = "restart" ->
              /\ q' = Drop(q, {FLock})
              /\ \/ Go(t, [f EXCEPT !.pc = "shake_free"])
                 \/ Return(t)
         [] Turn(d, TRUE) = "free" -> q' = TakenOff(s, d, NoDquot) /\ on
         [] Turn(d, TRUE) = "take" ->
              /\ q' = TakenOff(s, d, NoDquot)
              /\ Reclaimed(t, IF next = 0 THEN <<>> ELSE <<[f EXCEPT !.d = next]>>)
         [] Turn(d, TRUE) = "next" -> q' = s /\ on
         [] Turn(d, TRUE) = "flush" -> q' = DqFlush(s, d, TRUE) /\ on

(* xfs_qm_dqflush_done: the write of a delayed flush completes.            *)
DqFlushDone ==
    \E d \in Slots :
        /\ q.dq[d].flush
        /\ q' = [q EXCEPT !.dq[d].flush = FALSE]
        /\ UNCHANGED <<th, ops>>

-----------------------------------------------------------------------------
(* xfs_qm_dqget: the referenced, locked dquot of (ty, id); f.i is the      *)
(* locked inode it is for, 0 if none, f.p the dquot being read in.         *)

Get(i, ty, id) == F("hash", i, ty, id, 0)

(* The first look at the hash chain.  On a miss the inode is unlocked for  *)
(* the read.                                                               *)
GetHash(t) ==
    LET f == Top(t)  c == Chain(f.ty, f.id) IN
    /\ At(t, "hash") /\ Unlocked(HL(f.ty))
    /\ \/ /\ c # {}
          /\ q' = Take(q, t, {HL(f.ty)})
          /\ Go(t, [f EXCEPT !.pc = "found", !.d = CHOOSE d \in c : TRUE])
       \/ /\ c = {}
          /\ q' = IF f.i # 0 THEN Drop(q, {IL(f.i)}) ELSE q
          /\ Go(t, [f EXCEPT !.pc = "alloc"])

(* xfs_qm_dqlookup found d; the chain is locked.  An unreferenced dquot is *)
(* taken off the free list, whose lock comes before the dquot's.           *)
Held(s, d) == [s EXCEPT !.dq[d].refs = @ + 1, !.dq[d].want = FALSE,
                        !.free = IF s.dq[d].refs = 0 THEN Without(@, d) ELSE @]
(* The end of the lookup: dqget returns it, or, when it has itself read    *)
(* the same dquot in, puts it back and starts again.                       *)
LookedUp(t, f, s) ==
    IF f.p = 0
    THEN q' = Drop(s, {HL(f.ty)}) /\ ReturnDq(t, f.d)
    ELSE q' = s /\ Call(t, [f EXCEPT !.pc = "dup"], [Rele(f.d) EXCEPT !.pc = "put"])
MutFound(t) ==
    LET f == Top(t) IN
    /\ At(t, "found") /\ Unlocked(QL(f.d))
    /\ IF q.dq[f.d].refs > 0 \/ Unlocked(FLock)
       THEN LookedUp(t, f, Held(Take(q, t, {QL(f.d)}), f.d))
       ELSE /\ q' = Take(q, t, {QL(f.d)})
            /\ Go(t, [f EXCEPT !.pc = "want_free"])
Found(t) ==
    LET f == Top(t) IN
    /\ At(t, "found") /\ Unlocked(QL(f.d))
    /\ IF q.dq[f.d].refs > 0 \/ Unlocked(FLock)
       THEN LookedUp(t, f, Held(Take(q, t, {QL(f.d)}), f.d))
       ELSE /\ q' = [q EXCEPT !.dq[f.d].want = TRUE]
            /\ Go(t, [f EXCEPT !.pc = "want_free"])
WantFree(t) ==
    /\ At(t, "want_free") /\ Unlocked(FLock)
    /\ q' = Take(q, t, {FLock})
    /\ Go(t, [Top(t) EXCEPT !.pc = "want"])
Want(t) ==
    LET f == Top(t) IN
    /\ At(t, "want") /\ Unlocked(QL(f.d))
    /\ LookedUp(t, f, Drop(Held(Take(q, t, {QL(f.d)}), f.d), {FLock}))
Dup(t) ==
    LET f == Top(t) IN
    /\ At(t, "dup")
    /\ q' = Drop([q EXCEPT !.dq[f.p] = NoDquot], {HL(f.ty)})
    /\ Go(t, [f EXCEPT !.pc = "hash", !.p = 0])

(* xfs_qm_dqread: the dquot is read from disk, or cannot be.               *)
DqRead(t) ==
    LET f == Top(t) IN
    /\ At(t, "read")
    /\ \/ /\ UNCHANGED q
          /\ Go(t, [f EXCEPT !.pc = IF f.i # 0 THEN "ilock" ELSE "insert"])
       \/ /\ q' = [q EXCEPT !.dq[f.p] = NoDquot]
          /\ IF f.i # 0 THEN Go(t, [f EXCEPT !.pc = "ilock", !.p = 0])
                        ELSE ReturnDq(t, 0)
(* The inode is locked again: quota may have been turned off, or somebody  *)
(* else may have attached the dquot.                                       *)
GetIlock(t) ==
    LET f == Top(t) IN
    /\ At(t, "ilock") /\ Unlocked(IL(f.i))
    /\ LET s == Take(q, t, {IL(f.i)}) IN
       \/ /\ f.p = 0 \/ ~IsOn(f.ty)
          /\ q' = IF f.p = 0 THEN s ELSE [s EXCEPT !.dq[f.p] = NoDquot]
          /\ ReturnDq(t, 0)
       \/ /\ f.p # 0 /\ IsOn(f.ty) /\ q.ip[f.i][f.ty] # 0
          /\ q' = [s EXCEPT !.dq[f.p] = NoDquot]
          /\ Go(t, [f EXCEPT !.pc = "mine", !.d = q.ip[f.i][f.ty]])
       \/ /\ f.p # 0 /\ IsOn(f.ty) /\ q.ip[f.i][f.ty] = 0
          /\ q' = s
          /\ Go(t, [f EXCEPT !.pc = "insert"])
(* The inode's own dquot is returned locked, with no new reference.        *)
Mine(t) ==
    LET f == Top(t) IN
    /\ At(t, "mine") /\ Unlocked(QL(f.d))
    /\ q' = Take(q, t, {QL(f.d)})
    /\ ReturnDq(t, f.d)

(* The second look at the chain, then the insertion.                       *)
MutInsert(t) ==
    LET f == Top(t) IN
    /\ At(t, "insert") /\ Unlocked(HL(f.ty))
    /\ q' = Take(q, t, {HL(f.ty)})
    /\ Go(t, [f EXCEPT !.pc = "mplist"])
Insert(t) ==
    LET f == Top(t)  c == Chain(f.ty, f.id) IN
    /\ At(t, "insert") /\ Unlocked(HL(f.ty))
    /\ q' = Take(q, t, {HL(f.ty)})
    /\ Go(t, IF c # {} THEN [f EXCEPT !.pc = "found", !.d = CHOOSE d \in c : TRUE]
             ELSE [f EXCEPT !.pc = "mplist"])
InsertMp(t) ==
    LET f == Top(t) IN
    /\ At(t, "mplist") /\ Unlocked(MLock) /\ Unlocked(QL(f.p))
    /\ q' = Drop(Take([q EXCEPT !.dq[f.p].st = "cached", !.dq[f.p].refs = 1,
                                !.mpl = <<f.p>> \o @], t, {QL(f.p)}), {HL(f.ty)})
    /\ ReturnDq(t, f.p)

-----------------------------------------------------------------------------
(* xfs_qm_dqattach: attach the dquots of inode i.                          *)

(* Leaving: the inode is unlocked.                                         *)
Leave(t, s, i) == q' = Drop(s, {IL(i)}) /\ Return(t)

(* The hint part; nquotas is 2 when both quotas were on when looked at     *)
(* (f.n).  A udquot that is gone is a null pointer.                        *)
HintPart(t, s, f) ==
    IF f.n = 0 THEN Leave(t, s, f.i)
    ELSE IF s.ip[f.i].user = 0
    THEN q' = [s EXCEPT !.null = TRUE] /\ Go(t, [f EXCEPT !.pc = "dead"])
    ELSE IF s.dq[s.ip[f.i].user].hint = s.ip[f.i].group THEN Leave(t, s, f.i)
    ELSE q' = s /\ Go(t, [f EXCEPT !.pc = "hint", !.d = s.ip[f.i].user])
(* The group part: xfs_qm_dqattach_one looks at the user dquot's hint      *)
(* first.                                                                  *)
GroupPart(t, s, f) ==
    IF ~IsOn("group") THEN Leave(t, s, f.i)
    ELSE IF s.ip[f.i].group # 0 THEN HintPart(t, s, f)
    ELSE /\ q' = s
         /\ IF s.ip[f.i].user # 0
            THEN Go(t, [f EXCEPT !.pc = "use_hint", !.d = s.ip[f.i].user])
            ELSE Call(t, [f EXCEPT !.pc = "got_group"], Get(f.i, "group", Gid[f.i]))

Attach(t) ==
    LET f == Top(t)  i == f.i IN
    /\ At(t, "attach") /\ Unlocked(IL(i))
    /\ LET s == Take(q, t, {IL(i)}) IN
       IF ~IsOn("user") THEN GroupPart(t, s, f)
       ELSE IF q.ip[i].user # 0 THEN GroupPart(t, s, [f EXCEPT !.n = 1])
       ELSE q' = s /\ Call(t, [f EXCEPT !.pc = "got_user"], Get(i, "user", Uid[i]))
Got(t, ty) ==
    LET f == Top(t)
        s == Drop([q EXCEPT !.ip[f.i][ty] = f.d], {QL(f.d)}) IN
    /\ At(t, "got_" \o ty)
    /\ IF f.d = 0 THEN Leave(t, q, f.i)
       ELSE IF ty = "user" THEN GroupPart(t, s, [f EXCEPT !.n = 1])
       ELSE HintPart(t, s, f)
UseHint(t) ==
    LET f == Top(t)  g == q.dq[f.d].hint IN
    /\ At(t, "use_hint") /\ Unlocked(QL(f.d))
    /\ IF g # 0 /\ q.dq[g].id = Gid[f.i]
       THEN q' = Take(q, t, {QL(f.d)}) /\ Go(t, [f EXCEPT !.pc = "hold_hint"])
       ELSE /\ UNCHANGED q
            /\ Call(t, [f EXCEPT !.pc = "got_group"], Get(f.i, "group", Gid[f.i]))
HoldHint(t) ==
    LET f == Top(t)  g == q.dq[f.d].hint IN
    /\ At(t, "hold_hint") /\ Unlocked(QL(g))
    /\ HintPart(t, Drop([q EXCEPT !.dq[g].refs = @ + 1, !.ip[f.i].group = g],
                        {QL(f.d)}), f)

(* xfs_qm_dqattach_grouphint.                                              *)
GroupHint(t) ==
    LET f == Top(t)  g == q.dq[f.d].hint IN
    /\ At(t, "hint") /\ Unlocked(QL(f.d))
    /\ IF g = 0 THEN q' = Take(q, t, {QL(f.d)}) /\ Go(t, [f EXCEPT !.pc = "hint_group"])
       ELSE IF g = q.ip[f.i].group THEN Leave(t, q, f.i)
       ELSE /\ q' = [q EXCEPT !.dq[f.d].hint = 0]
            /\ Call(t, [f EXCEPT !.pc = "hint_again"], Rele(g))
HintAgain(t) ==
    /\ At(t, "hint_again") /\ Unlocked(QL(Top(t).d))
    /\ q' = Take(q, t, {QL(Top(t).d)})
    /\ Go(t, [Top(t) EXCEPT !.pc = "hint_group"])
HintGroup(t) ==
    LET f == Top(t)  g == q.ip[f.i].group IN
    /\ At(t, "hint_group") /\ Unlocked(QL(g))
    /\ Leave(t, Drop(IF q.dq[f.d].hint # 0 THEN q
                     ELSE [q EXCEPT !.dq[f.d].hint = g, !.dq[g].refs = @ + 1],
                     {QL(f.d)}), f.i)

(* xfs_qm_dqdetach: an inode that is being reclaimed gives its dquots      *)
(* back; nobody else can reach it.                                         *)
Detach(t) ==
    LET f == Top(t)
        Has(ty) == q.ip[f.i][ty] # 0
        Give(ty) == /\ q' = [q EXCEPT !.ip[f.i][ty] = 0]
                    /\ Call(t, f, Rele(q.ip[f.i][ty])) IN
    /\ At(t, "detach")
    /\ IF Has("user") THEN Give("user")
       ELSE IF Has("group") THEN Give("group")
       ELSE Leave(t, [q EXCEPT !.reclaim = @ \ {f.i}], f.i)

(* A dquot got without an inode (xfs_qm_scall_setqlim, xfs_qm_vop_dqalloc) *)
(* is changed, unlocked and later released.                                *)
Use(t) ==
    LET f == Top(t) IN
    /\ At(t, "use")
    /\ IF f.d = 0 THEN Return(t) /\ UNCHANGED q
       ELSE /\ q' = Drop([q EXCEPT !.dq[f.d].dirty = TRUE], {QL(f.d)})
            /\ Go(t, Rele(f.d))

-----------------------------------------------------------------------------
(* xfs_qm_sync: flush the dirty dquots of the mount's list.  f.n = 1: do   *)
(* not wait for locks.                                                     *)

SyncStart(t) ==
    /\ At(t, "sync") /\ Unlocked(MLock)
    /\ IF q.mpl = <<>> \/ ~(\E ty \in Types : IsOn(ty))
       THEN Return(t) /\ UNCHANGED q
       ELSE /\ q' = Take(q, t, {MLock})
            /\ Go(t, [Top(t) EXCEPT !.pc = "sync_walk", !.d = First(q.mpl)])
SyncWalk(t) ==
    LET f == Top(t)  d == f.d  next == After(q.mpl, d)  nowait == f.n = 1
        skip == \/ nowait /\ ~Unlocked(QL(d))
                \/ ~q.dq[d].dirty
                \/ nowait /\ q.dq[d].flush IN
    /\ At(t, "sync_walk")
    /\ nowait \/ Unlocked(QL(d))
    /\ IF skip
       THEN IF next = 0 THEN q' = Drop(q, {MLock}) /\ Return(t)
            ELSE UNCHANGED q /\ Go(t, [f EXCEPT !.d = next])
       ELSE IF q.dq[d].flush
       THEN q' = Take(q, t, {QL(d)}) /\ Go(t, [f EXCEPT !.pc = "sync_flush"])
       ELSE /\ q' = Drop(DqFlush(q, d, nowait), {MLock})
            /\ Go(t, [f EXCEPT !.pc = "sync_again", !.x = FALSE])
SyncFlush(t) ==                                  \* xfs_qm_dqflock_pushbuf_wait
    LET f == Top(t) IN
    /\ At(t, "sync_flush") /\ ~q.dq[f.d].flush
    /\ q' = Drop(DqFlush(q, f.d, FALSE), {MLock, QL(f.d)})
    /\ Go(t, [f EXCEPT !.pc = "sync_again", !.x = FALSE])
(* The walk goes on from the same dquot unless one has left the list.      *)
SyncAgain(t) ==
    LET f == Top(t)  next == After(q.mpl, f.d) IN
    /\ At(t, "sync_again") /\ Unlocked(MLock)
    /\ \/ /\ f.x                                 \* too many restarts, or again
          /\ UNCHANGED q
          /\ \/ Return(t)
             \/ Go(t, [f EXCEPT !.pc = "sync"])
       \/ /\ ~f.x /\ next = 0
          /\ UNCHANGED q
          /\ Return(t)
       \/ /\ ~f.x /\ next # 0
          /\ q' = Take(q, t, {MLock})
          /\ Go(t, [f EXCEPT !.pc = "sync_walk", !.d = next])

-----------------------------------------------------------------------------
(* xfs_qm_scall_quotaoff for the types OffTypes.                           *)

(* xfs_qm_dqrele_all_inodes: every in-core inode that is not being         *)
(* reclaimed gives its references back, f.i being the next to look at.     *)
Inactivate(t) ==
    /\ At(t, "off")
    /\ q' = [q EXCEPT !.on = [ty \in Types |->
                                IF ty \in OffTypes THEN "inactive" ELSE @[ty]]]
    /\ Go(t, [Top(t) EXCEPT !.pc = "off_inode", !.i = 1])
ReleInode(t) ==
    LET f == Top(t)  i == f.i IN
    /\ At(t, "off_inode")
    /\ \/ /\ i \notin Inodes
          /\ q' = [q EXCEPT !.on = [ty \in Types |->
                                      IF ty \in OffTypes THEN "off" ELSE @[ty]]]
          /\ Go(t, [f EXCEPT !.pc = "purge", !.i = 0])
       \/ /\ i \in q.reclaim
          /\ UNCHANGED q
          /\ Go(t, [f EXCEPT !.i = i + 1])
       \/ /\ i \in Inodes \ q.reclaim /\ Unlocked(IL(i))
          /\ q' = Take(q, t, {IL(i)})
          /\ Go(t, [f EXCEPT !.pc = "off_rele"])
ReleDquots(t) ==
    LET f == Top(t)  i == f.i
        Has(ty) == ty \in OffTypes /\ q.ip[i][ty] # 0
        Give(ty) == /\ q' = [q EXCEPT !.ip[i][ty] = 0]
                    /\ Call(t, f, Rele(q.ip[i][ty])) IN
    /\ At(t, "off_rele")
    /\ IF Has("user") THEN Give("user")
       ELSE IF Has("group") THEN Give("group")
       ELSE /\ q' = Drop(q, {IL(i)})
            /\ Go(t, [f EXCEPT !.pc = "off_inode", !.i = i + 1])

(* xfs_qm_dqpurge_int: first xfs_qm_detach_gdquots takes the hints away.   *)
Purge(t) ==
    /\ At(t, "purge") /\ Unlocked(MLock)
    /\ q' = Take(q, t, {MLock})
    /\ Go(t, [Top(t) EXCEPT !.pc = "hints", !.d = First(q.mpl), !.n = 0])
(* The walks over the list start again, or end, at f.d = 0.                *)
Hints(t) ==
    LET f == Top(t)  d == f.d IN
    /\ At(t, "hints")
    /\ \/ /\ d = 0
          /\ UNCHANGED q
          /\ Go(t, [f EXCEPT !.pc = "purge_walk", !.d = First(q.mpl)])
       \/ /\ d # 0 /\ Unlocked(QL(d)) /\ q.dq[d].hint = 0
          /\ UNCHANGED q
          /\ Go(t, [f EXCEPT !.d = After(q.mpl, d)])
       \/ /\ d # 0 /\ Unlocked(QL(d)) /\ q.dq[d].hint # 0
          /\ q' = Take(q, t, {QL(d)})
          /\ Go(t, [f EXCEPT !.pc = "hints_group"])
HintsGroup(t) ==
    LET f == Top(t)  g == q.dq[f.d].hint IN
    /\ At(t, "hints_group") /\ Unlocked(QL(g))
    /\ q' = Drop(Take([q EXCEPT !.dq[f.d].hint = 0], t, {QL(g)}), {QL(f.d), MLock})
    /\ Call(t, [f EXCEPT !.pc = "hints_again", !.x = FALSE], [Rele(g) EXCEPT !.pc = "put"])
HintsAgain(t) ==
    LET f == Top(t) IN
    /\ At(t, "hints_again") /\ Unlocked(MLock)
    /\ q' = Take(q, t, {MLock})
    /\ Go(t, [f EXCEPT !.pc = "hints",
                       !.d = IF f.x THEN First(q.mpl) ELSE After(q.mpl, f.d)])

(* Then every dquot of the types is purged; one that is referenced is a    *)
(* miss (f.n), and the whole is done again until there are none.           *)
PurgeWalk(t) ==
    LET f == Top(t)  d == f.d IN
    /\ At(t, "purge_walk")
    /\ \/ /\ d = 0 /\ f.n = 1
          /\ q' = Drop(q, {MLock})
          /\ Go(t, [f EXCEPT !.pc = "purge"])
       \/ /\ d = 0 /\ f.n = 0
          /\ q' = Drop([q EXCEPT !.on = [ty \in Types |->
                          IF ty \in OffTypes THEN "done" ELSE @[ty]]], {MLock})
          /\ Return(t)
       \/ /\ d # 0 /\ q.dq[d].ty \notin OffTypes
          /\ UNCHANGED q
          /\ Go(t, [f EXCEPT !.d = After(q.mpl, d)])
       \/ /\ d # 0 /\ q.dq[d].ty \in OffTypes /\ Unlocked(HL(q.dq[d].ty))
          /\ q' = Take(q, t, {HL(q.dq[d].ty)})
          /\ Go(t, [f EXCEPT !.pc = "purge_dq", !.ty = q.dq[d].ty])
       \/ /\ d # 0 /\ q.dq[d].ty \in OffTypes /\ ~Unlocked(HL(q.dq[d].ty))
          /\ q' = Drop(q, {MLock})
          /\ Go(t, [f EXCEPT !.pc = "purge_hash", !.x = FALSE])
(* The chain's lock could not be had: without the list's lock.  The dquot  *)
(* may have been reclaimed meanwhile, and its q_hash is then gone.         *)
PurgeHash(t) ==
    LET f == Top(t)  ty == q.dq[f.d].ty IN
    /\ At(t, "purge_hash")
    /\ \/ /\ q.dq[f.d].st # "cached"
          /\ q' = [q EXCEPT !.null = TRUE]
          /\ Go(t, [f EXCEPT !.pc = "dead"])
       \/ /\ q.dq[f.d].st = "cached" /\ Unlocked(HL(ty))
          /\ q' = Take(q, t, {HL(ty)})
          /\ Go(t, [f EXCEPT !.pc = "purge_mplist", !.ty = ty])
PurgeMplist(t) ==
    LET f == Top(t) IN
    /\ At(t, "purge_mplist") /\ Unlocked(MLock)
    /\ IF f.x
       THEN /\ q' = Drop(Take(q, t, {MLock}), {HL(f.ty)})
            /\ Go(t, [f EXCEPT !.pc = "purge_walk", !.d = First(q.mpl), !.n = 0])
       ELSE /\ q' = Take(q, t, {MLock})
            /\ Go(t, [f EXCEPT !.pc = "purge_dq"])
(* xfs_qm_dqpurge.                                                         *)
DqPurge(t) ==
    LET f == Top(t)  d == f.d  next == After(q.mpl, d) IN
    /\ At(t, "purge_dq") /\ Unlocked(QL(d))
    /\ \/ /\ q.dq[d].refs # 0
          /\ q' = Drop(q, {HL(f.ty)})
          /\ Go(t, [f EXCEPT !.pc = "purge_walk", !.d = next, !.n = 1])
       \/ /\ q.dq[d].refs = 0 /\ ~q.dq[d].flush
          /\ q' = Drop([q EXCEPT !.mpl = Without(@, d),
                                 !.dq[d] = [NoDquot EXCEPT !.st = "inactive"]], {HL(f.ty)})
          /\ Reclaimed(t, <<[f EXCEPT !.pc = "purge_walk", !.d = next]>>)

-----------------------------------------------------------------------------
(* Operations begin.                                                       *)
Attached(i) == \A ty \in Types : IsOn(ty) => q.ip[i][ty] # 0
Begin(t) ==
    /\ th[t] = <<>> /\ ops < MaxOps
    /\ ops' = ops + 1
    /\ \/ /\ "attach" \in Kinds
          /\ \E i \in Inodes : /\ (\E ty \in Types : IsOn(ty)) /\ ~Attached(i)
                               /\ i \notin q.reclaim
                               /\ th' = [th EXCEPT ![t] = <<F("attach", i, "none", 0, 0)>>]
          /\ UNCHANGED q
       \/ /\ "detach" \in Kinds
          /\ \E i \in Inodes :
               /\ Unlocked(IL(i))
               /\ \A u \in Threads, k \in 1 .. 3 :
                      k \in DOMAIN th[u] => th[u][k].i # i
               /\ q' = Take([q EXCEPT !.reclaim = @ \cup {i}], t, {IL(i)})
               /\ th' = [th EXCEPT ![t] = <<F("detach", i, "none", 0, 0)>>]
       \/ /\ "get" \in Kinds
          /\ \E g \in Gets : /\ IsOn(g[1])
                             /\ th' = [th EXCEPT ![t] = <<Get(0, g[1], g[2]),
                                                          F("use", 0, "none", 0, 0)>>]
          /\ UNCHANGED q
       \/ /\ "shake" \in Kinds
          /\ th' = [th EXCEPT ![t] = <<F("shake_free", 0, "none", 0, 0)>>]
          /\ UNCHANGED q
       \/ /\ "sync" \in Kinds
          /\ \E n \in 0 .. 1 :
               th' = [th EXCEPT ![t] = <<[F("sync", 0, "none", 0, 0) EXCEPT !.n = n]>>]
          /\ UNCHANGED q
       \/ /\ "quotaoff" \in Kinds
          /\ \A ty \in OffTypes : IsOn(ty)
          /\ \A u \in Threads : ~(th[u] # <<>> /\ th[u][Len(th[u])].pc = "off")
          /\ th' = [th EXCEPT ![t] = <<F("off", 0, "none", 0, 0)>>]
          /\ UNCHANGED q

Step(t) ==
    \/ Put(t) \/ PutFree(t) \/ PutRelock(t) \/ PutHint(t) \/ DoRele(t)
    \/ DqAllocIncore(t) \/ DqReclaimOne(t) \/ ShakeFree(t) \/ Shake(t)
    \/ GetHash(t) \/ Found(t) \/ WantFree(t) \/ Want(t) \/ Dup(t)
    \/ DqRead(t) \/ GetIlock(t) \/ Mine(t) \/ Insert(t) \/ InsertMp(t)
    \/ Attach(t) \/ Got(t, "user") \/ Got(t, "group") \/ UseHint(t) \/ HoldHint(t)
    \/ GroupHint(t) \/ HintAgain(t) \/ HintGroup(t) \/ Detach(t) \/ Use(t)
    \/ SyncStart(t) \/ SyncWalk(t) \/ SyncFlush(t) \/ SyncAgain(t)
    \/ Inactivate(t) \/ ReleInode(t) \/ ReleDquots(t) \/ Purge(t) \/ Hints(t)
    \/ HintsGroup(t) \/ HintsAgain(t) \/ PurgeWalk(t) \/ PurgeHash(t)
    \/ PurgeMplist(t) \/ DqPurge(t)
DqNext ==
    \/ \E t \in Threads : Begin(t) \/ Step(t)
    \/ DqFlushDone
DqSpec == DqInit /\ [][DqNext]_dqVars

-----------------------------------------------------------------------------
(* Properties.                                                             *)

(* What an inode or a hint points at is the cached dquot of that id, and a *)
(* referenced dquot is never on the free list, reclaimed or purged; when   *)
(* no thread is at work the counts are exactly the pointers, the           *)
(* unreferenced dquots are the free list, every cached dquot is on the     *)
(* mount's list once and no id has two dquots (xfs_dquot.c:1049-1095,      *)
(* 1120-1176; xfs_qm.c:2016-2308).                                         *)
DquotsAreCounted ==
    LET Ptrs(d) == Cardinality({x \in Inodes \X Types : q.ip[x[1]][x[2]] = d})
        Hinted(d) == Cardinality({u \in Slots : q.dq[u].st = "cached" /\ q.dq[u].hint = d})
        cached == {d \in Slots : q.dq[d].st = "cached"} IN
    /\ \A i \in Inodes, ty \in Types :
           LET d == q.ip[i][ty] IN
           d # 0 => /\ q.dq[d].st = "cached" /\ q.dq[d].ty = ty
                    /\ q.dq[d].id = Owner(i, ty) /\ q.dq[d].refs > 0
    /\ \A d \in cached : /\ Ptrs(d) + Hinted(d) <= q.dq[d].refs
                         /\ q.dq[d].refs > 0 /\ Unlocked(QL(d)) => d \notin ToSet(q.free)
    /\ \A d, e \in cached : d # e => <<q.dq[d].ty, q.dq[d].id>> # <<q.dq[e].ty, q.dq[e].id>>
    /\ (\A t \in Threads : th[t] = <<>>) =>
           /\ \A l \in Locks : Unlocked(l)
           /\ \A d \in cached : q.dq[d].refs = Ptrs(d) + Hinted(d) /\ ~q.dq[d].want
           /\ ToSet(q.mpl) = cached /\ IsInjective(q.mpl) /\ IsInjective(q.free)
           /\ ToSet(q.free) = {d \in Slots : \/ q.dq[d].st = "inactive"
                                             \/ q.dq[d].st = "cached" /\ q.dq[d].refs = 0}
           /\ \A d \in Slots : q.dq[d].st # "private"

(* The locks are never all waited for: while an operation is under way     *)
(* some thread can take a step (the lock order of xfs_dquot.c:53-65).      *)
DquotLocksAdvance ==
    (\E t \in Threads : th[t] # <<>>) =>
        \/ \E t \in Threads : ENABLED Step(t)
        \/ \E d \in Slots : q.dq[d].flush
        \/ q.null

(* Once quotaoff is done no dquot of its types is in core                  *)
(* (xfs_qm_syscalls.c:321-330).                                            *)
QuotaoffIsComplete ==
    \A ty \in Types : q.on[ty] = "done" =>
        /\ \A d \in Slots : q.dq[d].st = "cached" => q.dq[d].ty # ty
        /\ \A i \in Inodes : q.ip[i][ty] = 0

(* With both quotas attached, the inode has its user dquot                 *)
(* (ASSERT(ip->i_udquot), xfs_qm.c:919), and the dquot the purge sleeps on *)
(* keeps its hash chain.                                                   *)
NoNullDquot == ~q.null
=============================================================================
