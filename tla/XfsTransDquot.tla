--------------------------- MODULE XfsTransDquot ---------------------------
(***************************************************************************)
(* Quota accounting in transactions: blocks and inodes are reserved        *)
(* against the user and group dquots of an inode, a transaction collects   *)
(* what it used, rolls it over, and applies it when it commits.            *)
(*                                                                         *)
(* Sources: fs/xfs/quota/xfs_trans_dquot.c, the timers of xfs_dquot.c, the *)
(* change of owner of xfs_qm.c, and the callers in xfs_bmap.c, xfs_iomap.c *)
(* and xfs_vnodeops.c.                                                     *)
(*                                                                         *)
(* A dquot is locked for each single change, so every change is a step;    *)
(* applying a transaction holds all its dquots and is one step.  Realtime  *)
(* blocks follow the same code as ordinary ones and are left out, and so   *)
(* are the warning counts, which only userspace sets.  Enforcement is on.  *)
(***************************************************************************)
EXTENDS Integers, FiniteSets, Functions

CONSTANTS
    Uids, Gids,      \* ids of the user and of the group dquots, all distinct
    Inodes, Tasks,
    RootInode,       \* the inode there is to begin with, and its owners
    Hard, Soft,      \* [Uids \cup Gids -> Nat]: block limits, 0 for none
    IHard,           \* the same for inodes
    MaxRes,          \* bound: blocks asked for at once
    MaxCalls,        \* bound: operations started
    MixedFree,       \* a transaction with a reservation may also free blocks
    ChownFails       \* a change of owner may fail after its reservation

Dquots == Uids \cup Gids
ASSUME TdAssumption ==
    /\ Uids \cap Gids = {} /\ 0 \notin Dquots
    /\ IsFiniteSet(Inodes) /\ 0 \notin Inodes /\ IsFiniteSet(Tasks)
    /\ RootInode \in [i : Inodes, u : Uids, g : Gids]
    /\ {Hard, Soft, IHard} \subseteq [Dquots -> Nat]
    /\ MaxRes \in Nat /\ MaxCalls \in Nat
    /\ MixedFree \in BOOLEAN /\ ChownFails \in BOOLEAN

VARIABLES
    dq,       \* the dquots: counts used and reserved, and the grace timer
    ip,       \* the inodes: owners, blocks mapped and delayed
    tp,       \* the transaction of each thread and its t_dqinfo
    calls
tdVars == <<dq, ip, tp, calls>>

NoTrx == [res |-> 0, used |-> 0, delta |-> 0, del |-> 0,
          ires |-> 0, iused |-> 0, idelta |-> 0]
NoCall == [pc |-> "idle", i |-> 0, qa |-> [d \in Dquots |-> NoTrx], u |-> 0, g |-> 0,
           n |-> 0, k |-> 0, then |-> "none"]

TdInit ==
    LET owners == {RootInode.u, RootInode.g}
        count(d) == IF d \in owners THEN 1 ELSE 0 IN
    /\ dq = [d \in Dquots |-> [b |-> 0, i |-> count(d), rb |-> 0, ri |-> count(d), timer |-> "off"]]
    /\ ip = [i \in Inodes |-> [live |-> i = RootInode.i, u |-> RootInode.u, g |-> RootInode.g, nblocks |-> 0, del |-> 0]]
    /\ tp = [t \in Tasks |-> NoCall]
    /\ calls = 0

-----------------------------------------------------------------------------
(* xfs_trans_dqresv.                                                       *)

(* The check against the limits: blocks against what is reserved, inodes   *)
(* against what is used.  Giving back is never refused.                    *)
Refused(d, n, k) ==
    LET q == dq[d] IN
    \/ n > 0 /\ Hard[d] > 0 /\ Hard[d] <= n + q.rb
    \/ n > 0 /\ Soft[d] > 0 /\ Soft[d] <= n + q.rb /\ q.timer = "expired"
    \/ k > 0 /\ IHard[d] > 0 /\ q.i >= IHard[d]
Resv(q, n, k) == [q EXCEPT !.rb = @ + n, !.ri = @ + k]
ResvTrx(x, n, k) == [x EXCEPT !.res = @ + n, !.ires = @ + k]

(* xfs_trans_reserve_quota_bydquots: first the user dquot, then the group  *)
(* dquot; if that fails the user's reservation is given back.  A thread    *)
(* whose `then' is delay or chown_old has no transaction (tp is NULL).     *)
InTrans(t) == tp[t].then \in {"open", "chown_del"}
ResUser(t) ==
    LET f == tp[t] IN
    /\ f.pc = "res_user"
    /\ \/ /\ f.u = 0
          /\ tp' = [tp EXCEPT ![t].pc = "res_group"]
          /\ UNCHANGED dq
       \/ /\ f.u # 0 /\ Refused(f.u, f.n, f.k)
          /\ tp' = [tp EXCEPT ![t].pc = "failed"]
          /\ UNCHANGED dq
       \/ /\ f.u # 0 /\ ~Refused(f.u, f.n, f.k)
          /\ dq' = [dq EXCEPT ![f.u] = Resv(dq[f.u], f.n, f.k)]
          /\ tp' = [tp EXCEPT ![t].pc = "res_group",
                      ![t].qa[f.u] = IF InTrans(t) THEN ResvTrx(f.qa[f.u], f.n, f.k) ELSE @]
    /\ UNCHANGED <<ip, calls>>
ResGroup(t) ==
    LET f == tp[t] IN
    /\ f.pc = "res_group"
    /\ \/ /\ f.g = 0
          /\ tp' = [tp EXCEPT ![t].pc = f.then]
          /\ UNCHANGED dq
       \/ /\ f.g # 0 /\ Refused(f.g, f.n, f.k)
          /\ dq' = IF f.u = 0 THEN dq
                   ELSE [dq EXCEPT ![f.u] = Resv(dq[f.u], -f.n, -f.k)]
          /\ tp' = [tp EXCEPT ![t].pc = "failed", ![t].qa =
                      IF f.u = 0 \/ ~InTrans(t) THEN @
                      ELSE [f.qa EXCEPT ![f.u] = ResvTrx(f.qa[f.u], -f.n, -f.k)]]
       \/ /\ f.g # 0 /\ ~Refused(f.g, f.n, f.k)
          /\ dq' = [dq EXCEPT ![f.g] = Resv(dq[f.g], f.n, f.k)]
          /\ tp' = [tp EXCEPT ![t].pc = f.then,
                      ![t].qa[f.g] = IF InTrans(t) THEN ResvTrx(f.qa[f.g], f.n, f.k) ELSE @]
    /\ UNCHANGED <<ip, calls>>

-----------------------------------------------------------------------------
(* xfs_trans_mod_dquot for a number of blocks or inodes.                   *)

ModBcount(x, m) == [x EXCEPT !.used = IF x.res # 0 /\ m > 0 THEN @ + m ELSE @,
                             !.delta = @ + m]
ModDelbcount(x, m) == [x EXCEPT !.del = @ + m]
ModIcount(x, m) == [x EXCEPT !.iused = IF x.ires # 0 /\ m > 0 THEN @ + m ELSE @,
                             !.idelta = @ + m]
ModDquot(x, field, m) ==
    CASE field = "bcount" -> ModBcount(x, m) [] field = "delbcount" -> ModDelbcount(x, m)
      [] field = "icount" -> ModIcount(x, m)
(* xfs_trans_mod_dquot_byino: both dquots of the inode.                    *)
ByIno(f, field, m) ==
    [f EXCEPT !.qa = [d \in Dquots |-> IF d \in {ip[f.i].u, ip[f.i].g}
                                       THEN ModDquot(f.qa[d], field, m) ELSE f.qa[d]]]
Mapped(i) == {ip[i].u, ip[i].g}

(* Blocks mapped, at most what is reserved: xfs_iomap_write_direct and     *)
(* xfs_alloc_file_space reserve first.                                     *)
Alloc(t) ==
    LET f == tp[t] IN
    /\ f.pc = "open" /\ ip[f.i].live
    /\ \E m \in 1 .. MaxRes :
         /\ \A d \in Mapped(f.i) : f.qa[d].used + m <= f.qa[d].res
         /\ tp' = [tp EXCEPT ![t] = ByIno(f, "bcount", m)]
         /\ ip' = [ip EXCEPT ![f.i].nblocks = @ + m]
    /\ UNCHANGED <<dq, calls>>
(* A block of a file's btree needed by the conversion of delayed blocks    *)
(* was never reserved (xfs_bmap_btree.c:592).                              *)
AllocUnreserved(t) ==
    LET f == tp[t] IN
    /\ f.pc = "noresv"
    /\ \A d \in Mapped(f.i) : f.qa[d].delta = 0 /\ f.qa[d].del # 0
    /\ tp' = [tp EXCEPT ![t] = ByIno(f, "bcount", 1)]
    /\ ip' = [ip EXCEPT ![f.i].nblocks = @ + 1]
    /\ UNCHANGED <<dq, calls>>
Free(t) ==
    LET f == tp[t] IN
    /\ f.pc = "noresv" \/ (f.pc = "open" /\ MixedFree)
    /\ \E m \in 1 .. ip[f.i].nblocks :
         /\ tp' = [tp EXCEPT ![t] = ByIno(f, "bcount", -m)]
         /\ ip' = [ip EXCEPT ![f.i].nblocks = @ - m]
    /\ UNCHANGED <<dq, calls>>
(* Delayed blocks become real ones: XFS_TRANS_DQ_DELBCOUNT.                *)
Convert(t) ==
    LET f == tp[t] IN
    /\ f.pc = "noresv"
    /\ \E m \in 1 .. ip[f.i].del :
         /\ tp' = [tp EXCEPT ![t] = ByIno(f, "delbcount", m)]
         /\ ip' = [ip EXCEPT ![f.i].nblocks = @ + m, ![f.i].del = @ - m]
    /\ UNCHANGED <<dq, calls>>
(* xfs_create with the reserved inode, xfs_inactive of one that has none.  *)
Create(t) ==
    LET f == tp[t] IN
    /\ f.pc = "open" /\ ~ip[f.i].live
    /\ tp' = [tp EXCEPT ![t] = ByIno(f, "icount", 1)]
    /\ ip' = [ip EXCEPT ![f.i].live = TRUE]
    /\ UNCHANGED <<dq, calls>>
Inactive(t) ==
    LET f == tp[t] IN
    /\ f.pc = "noresv" /\ ip[f.i].live /\ ip[f.i].nblocks = 0 /\ ip[f.i].del = 0
    /\ tp' = [tp EXCEPT ![t] = ByIno(f, "icount", -1)]
    /\ ip' = [ip EXCEPT ![f.i].live = FALSE]
    /\ UNCHANGED <<dq, calls>>

-----------------------------------------------------------------------------
(* The end of a transaction.                                               *)

(* xfs_qm_adjust_dqtimers: the grace time runs while a limit is reached.   *)
Over(d, b) == \E l \in {Soft[d], Hard[d]} : l > 0 /\ b >= l
Timer(d, b, tm) == IF ~Over(d, b) THEN "off" ELSE IF tm = "off" THEN "on" ELSE tm

(* xfs_trans_apply_dquot_deltas for one dquot: the counts change, and what *)
(* is left of the reservation goes back.                                   *)
Adjust(res, used, delta) == IF res # 0 THEN IF res > used THEN used - res ELSE res - used
                            ELSE delta
Applied(d, x) ==
    LET q == dq[d]  b == q.b + x.delta + x.del IN
    [q EXCEPT !.b = b, !.i = @ + x.idelta, !.timer = Timer(d, b, q.timer),
              !.rb = @ + Adjust(x.res, x.used, x.delta),
              !.ri = @ + Adjust(x.ires, x.iused, x.idelta)]
Dirty(f) == \E d \in Dquots : LET x == f.qa[d] IN x.delta # 0 \/ x.del # 0 \/ x.idelta # 0
                                                  \/ x.used # 0 \/ x.iused # 0
Commit(t) ==
    /\ tp[t].pc \in {"open", "noresv"}
    /\ dq' = [d \in Dquots |-> IF tp[t].qa[d] = NoTrx THEN dq[d] ELSE Applied(d, tp[t].qa[d])]
    /\ tp' = [tp EXCEPT ![t] = NoCall]
    /\ UNCHANGED <<ip, calls>>

(* xfs_trans_unreserve_and_mod_dquots when it is cancelled.                *)
Cancel(t) ==
    LET f == tp[t] IN
    /\ \/ f.pc = "failed"
       \/ f.pc = "open" /\ ~Dirty(f)
       \/ f.pc = "chown" /\ ChownFails
    /\ dq' = [d \in Dquots |-> Resv(dq[d], -f.qa[d].res, -f.qa[d].ires)]
    /\ tp' = [tp EXCEPT ![t] = NoCall]
    /\ UNCHANGED <<ip, calls>>

(* xfs_trans_dup_dqinfo, then the commit of the old transaction: the       *)
(* reservation that is left passes to the new one.                         *)
MutLeft(x) == [NoTrx EXCEPT !.res = x.res, !.ires = x.ires]
Left(x) == [NoTrx EXCEPT !.res = x.res - x.used, !.ires = x.ires - x.iused]
Kept(x) == [x EXCEPT !.res = x.used, !.ires = x.iused]
Roll(t) ==
    LET f == tp[t] IN
    /\ f.pc \in {"open", "noresv"} /\ Dirty(f)
    /\ dq' = [d \in Dquots |-> IF f.qa[d] = NoTrx THEN dq[d]
                               ELSE Applied(d, Kept(f.qa[d]))]
    /\ tp' = [tp EXCEPT ![t].qa = [d \in Dquots |-> Left(f.qa[d])]]
    /\ UNCHANGED <<ip, calls>>

-----------------------------------------------------------------------------
(* Delayed allocation reserves without a transaction (xfs_bmapi), and      *)
(* gives it back when there is no space after all, or when the delayed     *)
(* blocks are unmapped.                                                    *)
Delay(t) ==
    LET f == tp[t] IN
    /\ f.pc = "delay"
    /\ \/ /\ ip' = [ip EXCEPT ![f.i].del = @ + f.n]
          /\ UNCHANGED dq
       \/ /\ dq' = [d \in Dquots |-> IF d \in Mapped(f.i) THEN Resv(dq[d], -f.n, 0) ELSE dq[d]]
          /\ UNCHANGED ip
    /\ tp' = [tp EXCEPT ![t] = NoCall]
    /\ UNCHANGED calls
Undelay(t) ==
    LET f == tp[t] IN
    /\ f.pc = "noresv"
    /\ \E m \in 1 .. ip[f.i].del :
         /\ dq' = [d \in Dquots |-> IF d \in Mapped(f.i) THEN Resv(dq[d], -m, 0) ELSE dq[d]]
         /\ ip' = [ip EXCEPT ![f.i].del = @ - m]
    /\ UNCHANGED <<tp, calls>>

(* xfs_qm_vop_chown_reserve: after the blocks and the inode, the delayed   *)
(* blocks are reserved against the new owners without a transaction and    *)
(* given back by the old ones.                                             *)
ChownDel(t) ==
    LET f == tp[t] IN
    /\ f.pc = "chown_del"
    /\ tp' = [tp EXCEPT ![t] = IF ip[f.i].del = 0 THEN [f EXCEPT !.pc = "chown"]
                ELSE [f EXCEPT !.pc = "res_user", !.n = ip[f.i].del, !.k = 0,
                               !.then = "chown_old"]]
    /\ UNCHANGED <<dq, ip, calls>>
ChownOld(t) ==
    LET f == tp[t]
        old == (IF f.u # 0 THEN {ip[f.i].u} ELSE {}) \cup (IF f.g # 0 THEN {ip[f.i].g} ELSE {}) IN
    /\ f.pc = "chown_old"
    /\ dq' = [d \in Dquots |-> IF d \in old THEN Resv(dq[d], -f.n, 0) ELSE dq[d]]
    /\ tp' = [tp EXCEPT ![t].pc = "chown"]
    /\ UNCHANGED <<ip, calls>>
(* xfs_qm_vop_chown for each owner that changes: the counts move.          *)
Chown(t) ==
    LET f == tp[t]  n == ip[f.i].nblocks
        old(d) == (f.u # 0 /\ d = ip[f.i].u) \/ (f.g # 0 /\ d = ip[f.i].g)
        Move(x, s) == ModIcount(ModBcount(x, s * n), s) IN
    /\ f.pc = "chown"
    /\ tp' = [tp EXCEPT ![t].pc = "open", ![t].qa =
                [d \in Dquots |-> IF d \in {f.u, f.g} THEN Move(f.qa[d], 1)
                                  ELSE IF old(d) THEN Move(f.qa[d], -1)
                                  ELSE f.qa[d]]]
    /\ ip' = [ip EXCEPT ![f.i].u = IF f.u # 0 THEN f.u ELSE @,
                        ![f.i].g = IF f.g # 0 THEN f.g ELSE @]
    /\ UNCHANGED <<dq, calls>>

(* The grace time runs out.                                                *)
Expire ==
    \E d \in Dquots :
        /\ dq[d].timer = "on"
        /\ dq' = [dq EXCEPT ![d].timer = "expired"]
        /\ UNCHANGED <<ip, tp, calls>>

-----------------------------------------------------------------------------
(* An operation takes an inode nobody else has locked.                     *)
Start(t) ==
    /\ tp[t].pc = "idle" /\ calls < MaxCalls
    /\ calls' = calls + 1
    /\ UNCHANGED dq
    /\ \E i \in Inodes :
         LET f == [NoCall EXCEPT !.i = i, !.u = ip[i].u, !.g = ip[i].g, !.pc = "res_user"] IN
         /\ \A u \in Tasks : tp[u].i # i
         /\ \/ /\ ip[i].live                     \* a write
               /\ \E n \in 1 .. MaxRes, th \in {"open", "delay"} :
                    tp' = [tp EXCEPT ![t] = [f EXCEPT !.n = n, !.then = th]]
               /\ UNCHANGED ip
            \/ /\ ip[i].live                     \* a truncation, conversion, removal
               /\ tp' = [tp EXCEPT ![t] = [f EXCEPT !.pc = "noresv"]]
               /\ UNCHANGED ip
            \/ /\ ~ip[i].live                    \* a creation by some user
               /\ \E u \in Uids, g \in Gids :
                    /\ tp' = [tp EXCEPT ![t] = [f EXCEPT !.u = u, !.g = g, !.n = 1, !.k = 1,
                                                         !.then = "open"]]
                    /\ ip' = [ip EXCEPT ![i].u = u, ![i].g = g]
            \/ /\ ip[i].live                     \* a change of owner
               /\ \E u \in Uids, g \in Gids :
                    /\ u # ip[i].u \/ g # ip[i].g
                    /\ tp' = [tp EXCEPT ![t] =
                                [f EXCEPT !.u = IF u = ip[i].u THEN 0 ELSE u,
                                          !.g = IF g = ip[i].g THEN 0 ELSE g,
                                          !.n = ip[i].nblocks, !.k = 1, !.then = "chown_del"]]
               /\ UNCHANGED ip

TdNext ==
    \/ \E t \in Tasks :
         \/ Start(t) \/ ResUser(t) \/ ResGroup(t)
         \/ Alloc(t) \/ AllocUnreserved(t) \/ Free(t) \/ Convert(t)
         \/ Create(t) \/ Inactive(t) \/ Commit(t) \/ Cancel(t) \/ Roll(t)
         \/ Delay(t) \/ Undelay(t) \/ ChownDel(t) \/ ChownOld(t) \/ Chown(t)
    \/ Expire
TdSpec == TdInit /\ [][TdNext]_tdVars

-----------------------------------------------------------------------------
(* Properties.                                                             *)

(* What belongs to a dquot by the inodes there are.                        *)
Owns(d, i) == ip[i].live /\ d \in Mapped(i)
BlocksOf(d) == SumFunctionOnSet([i \in Inodes |-> IF Owns(d, i) THEN ip[i].nblocks ELSE 0], Inodes)
DelayedOf(d) == SumFunctionOnSet([i \in Inodes |-> IF Owns(d, i) THEN ip[i].del ELSE 0], Inodes)
InodesOf(d) == SumFunctionOnSet([i \in Inodes |-> IF Owns(d, i) THEN 1 ELSE 0], Inodes)

(* A dquot never has fewer blocks or inodes reserved than it uses, and     *)
(* between operations its counts are the blocks and inodes of the inodes   *)
(* it owns, what it has reserved is that and the delayed blocks, and the   *)
(* grace time runs exactly while a limit is reached: nothing an operation  *)
(* reserved, used, moved, rolled over, failed to get or gave back is lost  *)
(* or counted twice (xfs_trans_dquot.c:114-600).                           *)
QuotaIsBalanced ==
    \A d \in Dquots :
        LET q == dq[d] IN
        /\ q.rb >= q.b /\ q.ri >= q.i
        /\ (\A t \in Tasks : tp[t].pc = "idle") =>
               /\ q.b = BlocksOf(d) /\ q.rb = q.b + DelayedOf(d)
               /\ q.i = InodesOf(d) /\ q.ri = q.i
               /\ q.timer # "off" <=> Over(d, q.b)
=============================================================================
