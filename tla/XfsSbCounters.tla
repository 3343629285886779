---------------------------- MODULE XfsSbCounters ----------------------------
(***************************************************************************)
(* The per-cpu superblock counters (fs/xfs/xfs_mount.c, HAVE_PERCPU_SB)    *)
(* and the reserve pool (xfs_reserve_blocks in fs/xfs/xfs_fsops.c): free   *)
(* blocks are counted on each cpu while there are many, and in m_sb, under *)
(* a mutex, when they run short.  Transactions reserve blocks, use some    *)
(* and return the rest, on whatever cpu they happen to run.                *)
(*                                                                         *)
(* A step is what happens under one of the locks: the counter lock of a    *)
(* cpu, m_sb_lock, m_icsb_mutex.  Taking all the counter locks in turn     *)
(* under m_sb_lock is one step, taken when no cpu is inside its own.       *)
(* The inode counters are the same code with no reserve and no set-aside.  *)
(***************************************************************************)
EXTENDS Integers, Sequences, FiniteSets, FiniteSetsExt

CONSTANTS
  Cpus,
  Threads,
  Blocks,       \* sb_fdblocks when the counters are set up
  Aside,        \* XFS_ALLOC_SET_ASIDE
  Reenable,     \* what each cpu must get, besides Aside, for the counter to be enabled
  Takes,        \* <<blocks, may use the reserve>> a transaction may ask for
  Resblks,      \* the size of the reserve pool to begin with
  Requests,     \* the sizes xfs_reserve_blocks is called with
  HotUnplug,    \* cpus go away with the counter enabled (TRUE), disabled (FALSE)
  MaxOps        \* bound: transactions, calls of xfs_reserve_blocks, cpus that come and go

ASSUME SbAssumption ==
  /\ Cpus \subseteq Int /\ IsFiniteSet(Cpus) /\ Cpus # {}
  /\ IsFiniteSet(Threads) /\ 0 \notin Threads
  /\ Aside \in Nat /\ Reenable \in Nat /\ Resblks \in Nat
  /\ Blocks \in Nat /\ Blocks - Resblks >= Aside
  /\ Takes \subseteq (Nat \ {0}) \X BOOLEAN /\ Requests \subseteq Nat
  /\ HotUnplug \subseteq BOOLEAN /\ MaxOps \in Nat

VARIABLES
  sb,           \* m_sb.sb_fdblocks
  cnt,          \* icsb_fdblocks of each cpu
  enabled,      \* ~xfs_icsb_counter_disabled
  online,
  lock,         \* the holders: of each cpu's counter, of m_icsb_mutex, of m_sb_lock
  pool,         \* m_resblks, m_resblks_avail
  th,
  hot,          \* the cpu whose notifier is still to run
  used,         \* blocks allocated by committed transactions
  bug,          \* the BUG_ON of the fast path fired
  ops

sbVars == <<sb, cnt, enabled, online, lock, pool, th, hot, used, bug, ops>>

NoThread == 0
Huge == 1000000    \* a negative int as uint64_t
Idle == [pc |-> "idle", delta |-> 0, rsvd |-> FALSE, cpu |-> 0, res |-> 0, goal |-> "none", request |-> 0,
         ret |-> "ok"]

SumOf(f, S) == SumFunctionOnSet(f, S)
LargerOf(a, b) == IF a > b THEN a ELSE b

AllUnlocked == \A c \in online : lock.cpu[c] = NoThread
SbUnlocked == lock.sb = NoThread
OnCpu(c) == \E t \in Threads : th[t].pc \in {"lock", "locked"} /\ th[t].cpu = c

----------------------------------------------------------------------------
(* Enabling and disabling.  State is [sb, cnt, enabled] while the locks are held. *)

Counters == [sb |-> sb, cnt |-> cnt, enabled |-> enabled]
Install(s) == sb' = s.sb /\ cnt' = s.cnt /\ enabled' = s.enabled

\* xfs_icsb_disable_counter leaves what the cpus counted where it is
DisableCounter(s, on) == IF s.enabled THEN [s EXCEPT !.sb = SumOf(s.cnt, on), !.enabled = FALSE] ELSE s

\* xfs_icsb_enable_counter gives the first cpu the remainder as well
Share(s, on, c) == (s.sb \div Cardinality(on)) + (IF c = Min(on) THEN s.sb % Cardinality(on) ELSE 0)
EnableCounter(s, on) ==
  [s EXCEPT !.cnt = [c \in Cpus |-> IF c \in on THEN Share(s, on, c) ELSE s.cnt[c]], !.enabled = TRUE]

MutAsUnsigned(d) == IF d < 0 THEN 0 ELSE d
\* the minimum per cpu is passed as an int and compared as a uint64_t
AsUnsigned(d) == IF d < 0 THEN Huge ELSE d
Rebalanced(s, on, min) ==
  IF s.sb \div Cardinality(on) < LargerOf(AsUnsigned(min), Reenable + Aside) THEN s ELSE EnableCounter(s, on)
BalanceCounter(s, on, min) == Rebalanced(DisableCounter(s, on), on, min)

----------------------------------------------------------------------------
(* xfs_mod_incore_sb_unlocked for XFS_SBS_FDBLOCKS *)

ResUsed(p) == p.resblks - p.avail
Freed(s, p, d) ==
  IF ResUsed(p) > d THEN [sb |-> s, pool |-> [p EXCEPT !.avail = @ + d], ret |-> "ok"]
  ELSE [sb |-> s + d - ResUsed(p), pool |-> [p EXCEPT !.avail = p.resblks], ret |-> "ok"]
TakenFrom(s, p, d, rsvd) ==
  IF s - Aside + d >= 0 THEN [sb |-> s + d, pool |-> p, ret |-> "ok"]
  ELSE IF rsvd /\ p.avail + d >= 0 THEN [sb |-> s, pool |-> [p EXCEPT !.avail = @ + d], ret |-> "ok"]
  ELSE [sb |-> s, pool |-> p, ret |-> "enospc"]
ModIncoreSb(s, p, d, rsvd) == IF d > 0 THEN Freed(s, p, d) ELSE TakenFrom(s, p, d, rsvd)

----------------------------------------------------------------------------
(* xfs_icsb_modify_counters *)

To(t, pc) == th' = [th EXCEPT ![t].pc = pc]

\* a look at the disabled bit without a lock, on the cpu the thread runs on
Again(t) ==
  /\ th[t].pc = "again"
  /\ \E c \in online : ~OnCpu(c) /\ th' = [th EXCEPT ![t].cpu = c, ![t].pc = IF enabled THEN "lock" ELSE "slow"]
  /\ UNCHANGED <<sb, cnt, enabled, online, lock, pool, hot, used, bug, ops>>

LockCntr(t) ==
  /\ th[t].pc = "lock" /\ lock.cpu[th[t].cpu] = NoThread
  /\ lock' = [lock EXCEPT !.cpu[th[t].cpu] = t]
  /\ To(t, "locked")
  /\ UNCHANGED <<sb, cnt, enabled, online, pool, hot, used, bug, ops>>

\* disabled meanwhile: the slow path; too little on this cpu: a balance; else count here
FastPath(t) ==
  LET c == th[t].cpu  left == cnt[c] - Aside + th[t].delta
  IN /\ th[t].pc = "locked"
     /\ lock' = [lock EXCEPT !.cpu[c] = NoThread]
     /\ To(t, IF ~enabled THEN "slow" ELSE IF left < 0 THEN "balance" ELSE "done")
     /\ cnt' = IF enabled /\ left >= 0 THEN [cnt EXCEPT ![c] = left + Aside] ELSE cnt
     /\ bug' = (bug \/ (enabled /\ ResUsed(pool) # 0))
     /\ UNCHANGED <<sb, enabled, online, pool, hot, used, ops>>

LockIcsb(t) ==
  /\ th[t].pc \in {"slow", "balance"} /\ lock.mutex = NoThread
  /\ lock' = [lock EXCEPT !.mutex = t]
  /\ To(t, IF th[t].pc = "slow" THEN "slowmod" ELSE "balancing")
  /\ UNCHANGED <<sb, cnt, enabled, online, pool, hot, used, bug, ops>>

MutSlowPath(t) ==
  /\ th[t].pc = "slowmod" /\ SbUnlocked
  /\ \E m \in {ModIncoreSb(sb, pool, th[t].delta, th[t].rsvd)} :
       /\ sb' = m.sb /\ pool' = m.pool
       /\ th' = [th EXCEPT ![t].ret = m.ret, ![t].pc = "slowbalance"]
  /\ UNCHANGED <<cnt, enabled, online, lock, hot, used, bug, ops>>
\* under the mutex: enabled again by someone else, or the global counter is the one to change
SlowPath(t) ==
  /\ th[t].pc = "slowmod" /\ SbUnlocked
  /\ IF enabled
     THEN /\ lock' = [lock EXCEPT !.mutex = NoThread] /\ To(t, "again")
          /\ UNCHANGED <<sb, pool>>
     ELSE \E m \in {ModIncoreSb(sb, pool, th[t].delta, th[t].rsvd)} :
            /\ sb' = m.sb /\ pool' = m.pool
            /\ th' = [th EXCEPT ![t].ret = m.ret, ![t].pc = "slowbalance"]
            /\ UNCHANGED lock
  /\ UNCHANGED <<cnt, enabled, online, hot, used, bug, ops>>

SlowBalance(t) ==
  /\ th[t].pc = "slowbalance" /\ SbUnlocked /\ AllUnlocked
  /\ Install(IF th[t].ret = "enospc" THEN Counters ELSE BalanceCounter(Counters, online, 0))
  /\ lock' = [lock EXCEPT !.mutex = NoThread] /\ To(t, "done")
  /\ UNCHANGED <<online, pool, hot, used, bug, ops>>

Balance(t) ==
  /\ th[t].pc = "balancing" /\ SbUnlocked /\ AllUnlocked
  /\ Install(BalanceCounter(Counters, online, th[t].delta))
  /\ lock' = [lock EXCEPT !.mutex = NoThread] /\ To(t, "again")
  /\ UNCHANGED <<online, pool, hot, used, bug, ops>>

----------------------------------------------------------------------------
(* The callers: xfs_trans_reserve, xfs_trans_unreserve_and_mod_sb, xfs_reserve_blocks *)

Modify(t, d, rsvd, goal) ==
  th' = [th EXCEPT ![t].pc = "again", ![t].delta = d, ![t].rsvd = rsvd, ![t].goal = goal, ![t].ret = "ok"]

Reserve(t) ==
  /\ th[t].pc = "idle" /\ th[t].res = 0 /\ ops < MaxOps
  /\ \E k \in Takes : Modify(t, -k[1], k[2], "reserve")
  /\ ops' = ops + 1
  /\ UNCHANGED <<sb, cnt, enabled, online, lock, pool, hot, used, bug>>

\* the transaction allocates up to what it reserved, or frees blocks, and returns the rest
TransDone(t) ==
  /\ th[t].pc = "idle" /\ th[t].res > 0
  /\ \E u \in {-used, 0, th[t].res} :
       /\ th[t].res - u # 0
       /\ Modify(t, th[t].res - u, th[t].rsvd, "commit")
       /\ used' = used + u
  /\ UNCHANGED <<sb, cnt, enabled, online, lock, pool, hot, bug, ops>>
TransAllUsed(t) ==
  /\ th[t].pc = "idle" /\ th[t].res > 0
  /\ used' = used + th[t].res
  /\ th' = [th EXCEPT ![t] = Idle]
  /\ UNCHANGED <<sb, cnt, enabled, online, lock, pool, hot, bug, ops>>

Done(t) ==
  /\ th[t].pc = "done"
  /\ LET r == th[t]
     IN th' = [th EXCEPT ![t] =
          IF r.goal = "reserve" /\ r.ret = "ok" THEN [Idle EXCEPT !.res = -r.delta, !.rsvd = r.rsvd]
          ELSE IF r.goal = "pool" /\ r.ret = "enospc" THEN [Idle EXCEPT !.pc = "resblks", !.request = r.request]
          ELSE Idle]
  /\ UNCHANGED <<sb, cnt, enabled, online, lock, pool, hot, used, bug, ops>>

ReserveBlocks(t) ==
  /\ th[t].pc = "idle" /\ th[t].res = 0 /\ ops < MaxOps
  /\ \E q \in Requests : th' = [th EXCEPT ![t].pc = "resblks", ![t].request = q]
  /\ ops' = ops + 1
  /\ UNCHANGED <<sb, cnt, enabled, online, lock, pool, hot, used, bug>>

\* under m_sb_lock, which the fast path does not take: what to move, then one field after the other
SyncCounters == IF enabled THEN SumOf(cnt, online) ELSE sb
PoolDelta(s, p, q) ==
  IF p.resblks > q THEN [delta |-> LargerOf(0, p.avail - q), resblks |-> q]
  ELSE IF s - Aside < q - p.resblks THEN [delta |-> -(s - Aside), resblks |-> p.resblks + s - Aside]
  ELSE [delta |-> -(q - p.resblks), resblks |-> q]
Shrinks(t) == pool.resblks > th[t].request
PoolFirst(t) ==
  /\ th[t].pc = "resblks" /\ SbUnlocked /\ AllUnlocked
  /\ sb' = SyncCounters
  /\ \E m \in {PoolDelta(SyncCounters, pool, th[t].request)} :
       /\ pool' = IF Shrinks(t) THEN [pool EXCEPT !.avail = @ - m.delta] ELSE [pool EXCEPT !.resblks = m.resblks]
       /\ th' = [th EXCEPT ![t].pc = "resblks2", ![t].delta = m.delta]
  /\ lock' = [lock EXCEPT !.sb = t]
  /\ UNCHANGED <<cnt, enabled, online, hot, used, bug, ops>>
PoolSecond(t) ==
  LET d == th[t].delta
  IN /\ th[t].pc = "resblks2"
     /\ pool' = IF Shrinks(t) THEN [pool EXCEPT !.resblks = th[t].request] ELSE [pool EXCEPT !.avail = @ - d]
     /\ lock' = [lock EXCEPT !.sb = NoThread]
     /\ IF d = 0 THEN th' = [th EXCEPT ![t] = Idle] ELSE Modify(t, d, FALSE, "pool")
     /\ UNCHANGED <<sb, cnt, enabled, online, hot, used, bug, ops>>

\* statfs and XFS_IOC_FSCOUNTS: m_sb is brought up to date without the counter locks
LazySync ==
  /\ SbUnlocked /\ enabled
  /\ sb' = SumOf(cnt, online)
  /\ UNCHANGED <<cnt, enabled, online, lock, pool, th, hot, used, bug, ops>>

----------------------------------------------------------------------------
(* xfs_icsb_cpu_notify *)

CpuUp ==
  /\ hot = <<>> /\ ops < MaxOps
  /\ \E c \in Cpus \ online : /\ cnt' = [cnt EXCEPT ![c] = 0]
                              /\ online' = online \cup {c}
                              /\ hot' = <<"online", c>>
  /\ ops' = ops + 1
  /\ UNCHANGED <<sb, enabled, lock, pool, th, used, bug>>
\* nobody is on the cpu when it stops, but counters may be locked elsewhere
CpuDown ==
  /\ enabled \in HotUnplug /\ hot = <<>> /\ ops < MaxOps /\ Cardinality(online) > 1
  /\ \E c \in online : ~OnCpu(c) /\ online' = online \ {c} /\ hot' = <<"dead", c>>
  /\ ops' = ops + 1
  /\ UNCHANGED <<sb, cnt, enabled, lock, pool, th, used, bug>>

Folded(s, c) == [s EXCEPT !.sb = @ + s.cnt[c], !.cnt[c] = 0]
CpuOnline ==
  /\ hot # <<>> /\ hot[1] = "online" /\ lock.mutex = NoThread /\ SbUnlocked /\ AllUnlocked
  /\ Install(BalanceCounter(Counters, online, 0))
  /\ hot' = <<>>
  /\ UNCHANGED <<online, lock, pool, th, used, bug, ops>>
CpuDead ==
  /\ hot # <<>> /\ hot[1] = "dead" /\ lock.mutex = NoThread /\ SbUnlocked /\ AllUnlocked
  /\ Install(BalanceCounter(Folded(DisableCounter(Counters, online), hot[2]), online, 0))
  /\ hot' = <<>>
  /\ UNCHANGED <<online, lock, pool, th, used, bug, ops>>

----------------------------------------------------------------------------
\* xfs_icsb_init_counters disables all; the first balance is at the end of log recovery
SbInit ==
  /\ \E on \in {Cpus, {Min(Cpus)}} :
       /\ online = on
       /\ \E s \in {Rebalanced([sb |-> Blocks - Resblks, cnt |-> [c \in Cpus |-> 0], enabled |-> FALSE], on, 0)} :
            sb = s.sb /\ cnt = s.cnt /\ enabled = s.enabled
  /\ lock = [cpu |-> [c \in Cpus |-> NoThread], mutex |-> NoThread, sb |-> NoThread]
  /\ pool = [resblks |-> Resblks, avail |-> Resblks]
  /\ th = [t \in Threads |-> Idle]
  /\ hot = <<>> /\ used = 0 /\ bug = FALSE /\ ops = 0

InModify(t) == Again(t) \/ LockCntr(t) \/ FastPath(t) \/ LockIcsb(t) \/ SlowPath(t) \/ SlowBalance(t) \/ Balance(t)
SbNext == \/ \E t \in Threads : \/ InModify(t) \/ Done(t)
                                \/ Reserve(t) \/ TransDone(t) \/ TransAllUsed(t)
                                \/ ReserveBlocks(t) \/ PoolFirst(t) \/ PoolSecond(t)
          \/ LazySync \/ CpuUp \/ CpuDown \/ CpuOnline \/ CpuDead
SbSpec == SbInit /\ [][SbNext]_sbVars
\* a thread inside xfs_icsb_modify_counters keeps running
SbFair == SbSpec /\ \A t \in Threads : WF_sbVars(InModify(t) \/ Done(t) \/ PoolFirst(t) \/ PoolSecond(t))

----------------------------------------------------------------------------
\* blocks moved by a call that has taken effect, and by one that has not
InHand(t) ==
  LET r == th[t]
  IN IF r.pc \in {"done", "slowbalance"} /\ r.ret = "ok" THEN (IF r.goal = "reserve" THEN -r.delta ELSE 0)
     ELSE IF r.goal \in {"commit", "pool"} THEN r.delta ELSE r.res
\* the second of the two fields of the pool is still to be set
HalfDone(t) == IF th[t].pc = "resblks2" /\ Shrinks(t) THEN th[t].delta ELSE 0
DeadShare == IF hot # <<>> /\ hot[1] = "dead" THEN cnt[hot[2]] ELSE 0
FreeBlocks == IF enabled THEN SumOf(cnt, online) ELSE sb

\* Every block is counted once, whether the counter is enabled or not, on whatever cpu it was
\* taken and returned: free, in the reserve pool, reserved by a transaction or allocated.
BlocksAreCountedOnce ==
  /\ FreeBlocks + DeadShare + pool.avail + used
       + SumOf([t \in Threads |-> InHand(t) + HalfDone(t)], Threads) = Blocks
  /\ FreeBlocks + DeadShare >= Aside

\* Every call returns: a balance is followed by a success or by the slow path, never by one
\* balance after another ("to prevent looping endlessly").
CallsReturn == \A t \in Threads : (th[t].pc = "again") ~> (th[t].pc \in {"idle", "resblks"})

\* The fast path's BUG_ON: with the counter enabled none of the reserve pool is in use.
NoBugOn == ~bug
=============================================================================
