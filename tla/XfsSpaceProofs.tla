-------------------------- MODULE XfsSpaceProofs --------------------------
(***************************************************************************)
(* Proofs about the counts of space.                                       *)
(*                                                                         *)
(* XfsSbCounters: no block is lost and none is promised twice while        *)
(* threads count on their cpus, fall back to the counter in m_sb,          *)
(* rebalance, and cpus come and go; for any number of cpus and threads and *)
(* any sizes.                                                              *)
(*                                                                         *)
(* XfsTransDquot: whatever transactions reserve, use, roll over, apply and *)
(* give back at the same time, the dquots are balanced; for any finite     *)
(* number of threads and inodes, and any limits.                           *)
(***************************************************************************)
EXTENDS XfsSbCounters, XfsTransDquot, XfsSums

Places == {"idle", "again", "lock", "locked", "slow", "balance", "slowmod", "balancing",
           "slowbalance", "done", "resblks", "resblks2"}
Call == [pc : Places, delta : Int, rsvd : BOOLEAN, cpu : Cpus \cup {0}, res : Nat,
         goal : {"none", "reserve", "commit", "pool"}, request : Nat, ret : {"ok", "enospc"}]
CounterSet == [sb : Int, cnt : [Cpus -> Int], enabled : BOOLEAN]
Pool == [resblks : Int, avail : Int]
Holder == Threads \cup {NoThread}

SbTypeOK ==
  /\ sb \in Int /\ cnt \in [Cpus -> Int] /\ enabled \in BOOLEAN
  /\ online \subseteq Cpus /\ online # {}
  /\ lock \in [cpu : [Cpus -> Holder], mutex : Holder, sb : Holder]
  /\ pool \in Pool
  /\ th \in [Threads -> Call]
  /\ hot = <<>> \/ \E e \in {"online", "dead"}, c \in Cpus : hot = <<e, c>>
  /\ used \in Nat /\ bug \in BOOLEAN /\ ops \in Nat

\* no counter that counts is negative
CountOK(s, on) == IF s.enabled THEN \A c \in on : s.cnt[c] >= 0 ELSE s.sb >= 0
Total(s, on)   == IF s.enabled THEN SumOf(s.cnt, on) ELSE s.sb

Dead == hot # <<>> /\ hot[1] = "dead"
DeadOK == Dead => hot[2] \in Cpus \ online /\ cnt[hot[2]] >= 0

OutOfModify == {"idle", "resblks", "resblks2"}
Decided     == {"slowbalance", "done"}

\* xfs_reserve_blocks, until the blocks have been moved
Resizing(t) == th[t].pc \in {"resblks", "resblks2"} \/ (th[t].goal = "pool" /\ th[t].pc \notin Decided)
\* While xfs_reserve_blocks is at work the other threads stand still, and no cpu that went
\* is still to be counted out. Without this blocks are counted twice: what has been added to
\* the reserve is not taken back when somebody else takes the blocks first and
\* xfs_reserve_blocks starts again.
Quiet ==
  \A u \in Threads : Resizing(u) \/ Resizing(u)' =>
    ~Dead' /\ \A t \in Threads \ {u} : th'[t] = th[t]
QuietSpec == SbInit /\ [][SbNext /\ Quiet]_sbVars
\* what that says of a step of thread t
Alone(t) == (\A u \in Threads \ {t} : ~Resizing(u)) /\ (Resizing(t)' => ~Dead')

\* what a thread's place in the code says of its call
GoalOK(r) ==
  /\ r.pc \in OutOfModify <=> r.goal = "none"
  /\ r.ret = "enospc" => r.pc \in Decided /\ r.goal = "reserve"
  /\ r.goal = "reserve" => r.delta < 0 /\ r.res = 0
  /\ r.goal = "commit" => r.delta > 0
  /\ r.pc \in {"resblks", "resblks2"} \/ r.goal = "pool" => r.res = 0
\* what xfs_reserve_blocks takes from the free blocks is there until it has it
PoolOK(t) ==
  LET r == th[t]
  IN /\ r.pc = "resblks2" => IF Shrinks(t) THEN r.delta >= 0 ELSE r.delta <= 0
     /\ r.pc = "resblks2" \/ (r.goal = "pool" /\ r.pc \notin Decided) => 
          r.delta >= 0 \/ FreeBlocks - Aside + r.delta >= 0
ThreadOK(t) ==
  /\ th[t].pc \in {"lock", "locked"} => th[t].cpu \in online
  /\ GoalOK(th[t])
  /\ PoolOK(t)

Hand(t) == InHand(t) + HalfDone(t)
Hands == [t \in Threads |-> Hand(t)]

SbBase ==
  /\ SbTypeOK
  /\ CountOK(Counters, online)
  /\ DeadOK
  /\ \A t \in Threads : ThreadOK(t) /\ (Resizing(t) => ~Dead)
SbCorrect == SbBase /\ BlocksAreCountedOnce

----------------------------------------------------------------------------
(* Enabling and disabling *)

LEMMA Divided ==
  ASSUME NEW a \in Nat, NEW n \in Nat \ {0}
  PROVE  a \div n \in Nat /\ a % n \in Nat /\ a = n * (a \div n) + (a % n)
  <1> DEFINE q == a \div n
             m == a % n
  <1>1. q \in Int /\ m \in 0 .. n - 1
    OBVIOUS
  <1>2. a = n * q + m
    OBVIOUS
  <1> HIDE DEF q, m
  <1>3. q >= 0
    <2>1. CASE q < 0
      <3>1. n * q <= -n
        <4>1. q <= -1
          BY <1>1, <2>1
        <4>2. ASSUME NEW i \in Nat \ {0}, NEW j \in Int, j <= -1 PROVE i * j <= -i
          BY <4>2
        <4> QED BY <1>1, <4>1, <4>2
      <3>2. n * q \in Int
        BY <1>1
      <3> QED BY <1>1, <1>2, <3>1, <3>2
    <2> QED BY <1>1, <2>1
  <1>4. q \in Nat /\ m \in Nat
    BY <1>1, <1>3
  <1> QED BY <1>2, <1>4 DEF q, m

LEMMA OnlineIsFinite ==
  ASSUME NEW on, on \subseteq Cpus, on # {}
  PROVE  /\ IsFiniteSet(on) /\ Cardinality(on) \in Nat \ {0}
         /\ Min(on) \in on
  <1>1. IsFiniteSet(on) /\ on \subseteq Int
    BY SbAssumption, FS_Subset
  <1>2. Cardinality(on) \in Nat /\ Cardinality(on) # 0
    BY <1>1, FS_CardinalityType, FS_EmptySet
  <1> QED BY <1>1, <1>2, MinIsIn

\* What is shared out adds up to what there was.
LEMMA SharesAddUp ==
  ASSUME NEW s \in CounterSet, s.sb >= 0, NEW on, on \subseteq Cpus, on # {}, NEW e, e = EnableCounter(s, on)
  PROVE  /\ e \in CounterSet /\ e.enabled
         /\ \A c \in on : e.cnt[c] >= 0
         /\ \A c \in Cpus \ on : e.cnt[c] = s.cnt[c]
         /\ SumOf(e.cnt, on) = s.sb
  <1> DEFINE n == Cardinality(on)
             q == s.sb \div n
             m == s.sb % n
             k == Min(on)
  <1>1. IsFiniteSet(on) /\ n \in Nat \ {0} /\ k \in on
    BY OnlineIsFinite
  <1>2. s.sb \in Nat /\ s.cnt \in [Cpus -> Int]
    BY DEF CounterSet
  <1>3. q \in Nat /\ m \in Nat /\ s.sb = n * q + m
    <2> HIDE DEF n
    <2> QED BY <1>1, <1>2, Divided
  <1>4. e.cnt = [c \in Cpus |-> IF c \in on THEN q + (IF c = k THEN m ELSE 0) ELSE s.cnt[c]]
    BY DEF EnableCounter, Share, CounterSet
  <1>5. e.sb = s.sb /\ e.enabled = TRUE /\ e = [s EXCEPT !.cnt = e.cnt, !.enabled = TRUE]
    BY DEF EnableCounter, CounterSet
  <1> HIDE DEF n, q, m, k
  <1>6. /\ \A c \in on : e.cnt[c] = q + (IF c = k THEN m ELSE 0)
        /\ \A c \in Cpus \ on : e.cnt[c] = s.cnt[c]
        /\ e.cnt \in [Cpus -> Int]
    BY <1>2, <1>3, <1>4
  <1>7. e \in CounterSet
    BY <1>5, <1>6 DEF CounterSet
  <1>8. \A c \in on : e.cnt[c] \in Int /\ e.cnt[c] >= 0
    BY <1>3, <1>6
  <1> DEFINE f == [c \in on |-> q]
  <1>9. SumFunctionOnSet(f, on) = n * q
    <2>1. \A c \in on : f[c] = q
      OBVIOUS
    <2>2. q \in Int
      BY <1>3
    <2> HIDE DEF f
    <2> QED BY <1>1, <2>1, <2>2, SumOfEquals DEF n
  <1>10. \A c \in on : f[c] \in Int /\ f[c] = q
    BY <1>3
  <1> HIDE DEF f
  <1>11. SumFunctionOnSet(e.cnt, on) = SumFunctionOnSet(f, on) - f[k] + e.cnt[k]
    <2>1. \A c \in on : c # k => f[c] = e.cnt[c]
      BY <1>3, <1>6, <1>10
    <2>2. \A c \in on : f[c] \in Int /\ e.cnt[c] \in Int
      BY <1>8, <1>10
    <2>3. PICK g : g = e.cnt
      OBVIOUS
    <2> QED BY <1>1, <2>1, <2>2, <2>3, SumChange
  <1>12. f[k] = q /\ e.cnt[k] = q + m
    BY <1>1, <1>6, <1>10
  <1>13. n * q \in Int
    BY <1>1, <1>3
  <1>14. SumFunctionOnSet(e.cnt, on) = s.sb
    BY <1>3, <1>9, <1>11, <1>12, <1>13
  <1> QED BY <1>5, <1>6, <1>7, <1>8, <1>14 DEF SumOf

LEMMA TotalIsNatural ==
  ASSUME NEW s \in CounterSet, NEW on, on \subseteq Cpus, on # {}, CountOK(s, on)
  PROVE  Total(s, on) \in Int /\ Total(s, on) >= 0
  <1>1. CASE s.enabled
    <2>1. IsFiniteSet(on)
      BY OnlineIsFinite
    <2>2. \A c \in on : s.cnt[c] \in Int /\ s.cnt[c] >= 0
      BY <1>1 DEF CountOK, CounterSet
    <2>3. PICK f : f = s.cnt
      OBVIOUS
    <2>4. SumFunctionOnSet(f, on) \in Int /\ SumFunctionOnSet(f, on) >= 0
      BY <2>1, <2>2, <2>3, SumTake, SumOfNaturals
    <2> QED BY <1>1, <2>3, <2>4 DEF Total, SumOf
  <1>2. CASE ~s.enabled
    BY <1>2 DEF Total, CountOK, CounterSet
  <1> QED BY <1>1, <1>2

LEMMA DisableKeeps ==
  ASSUME NEW s \in CounterSet, NEW on, on \subseteq Cpus, on # {}, CountOK(s, on),
         NEW d, d = DisableCounter(s, on)
  PROVE  /\ d \in CounterSet /\ ~d.enabled /\ d.cnt = s.cnt
         /\ d.sb = Total(s, on) /\ d.sb >= 0
  <1>1. Total(s, on) \in Int /\ Total(s, on) >= 0
    BY TotalIsNatural
  <1>2. CASE s.enabled
    <2>1. d = [s EXCEPT !.sb = Total(s, on), !.enabled = FALSE]
      BY <1>2 DEF DisableCounter, Total
    <2> QED BY <1>1, <2>1 DEF CounterSet
  <1>3. CASE ~s.enabled
    BY <1>1, <1>3 DEF DisableCounter, Total
  <1> QED BY <1>2, <1>3

LEMMA RebalanceKeeps ==
  ASSUME NEW d \in CounterSet, ~d.enabled, d.sb >= 0, NEW on, on \subseteq Cpus, on # {},
         NEW min, NEW b, b = Rebalanced(d, on, min)
  PROVE  /\ b \in CounterSet /\ CountOK(b, on) /\ Total(b, on) = d.sb
         /\ \A c \in Cpus \ on : b.cnt[c] = d.cnt[c]
  <1>1. b = d \/ b = EnableCounter(d, on)
    BY DEF Rebalanced
  <1>2. CASE b = d
    BY <1>2 DEF CountOK, Total
  <1>3. CASE b = EnableCounter(d, on)
    BY <1>3, SharesAddUp DEF CountOK, Total
  <1> QED BY <1>1, <1>2, <1>3

\* xfs_icsb_balance_counter moves blocks between the counters and makes or loses none.
LEMMA BalanceKeeps ==
  ASSUME NEW s \in CounterSet, NEW on, on \subseteq Cpus, on # {}, CountOK(s, on),
         NEW min, NEW b, b = BalanceCounter(s, on, min)
  PROVE  /\ b \in CounterSet /\ CountOK(b, on) /\ Total(b, on) = Total(s, on)
         /\ \A c \in Cpus \ on : b.cnt[c] = s.cnt[c]
  <1>1. PICK d : d = DisableCounter(s, on)
    OBVIOUS
  <1>2. d \in CounterSet /\ ~d.enabled /\ d.cnt = s.cnt /\ d.sb = Total(s, on) /\ d.sb >= 0
    BY <1>1, DisableKeeps
  <1>3. b = Rebalanced(d, on, min)
    BY <1>1 DEF BalanceCounter
  <1> QED BY <1>2, <1>3, RebalanceKeeps

----------------------------------------------------------------------------
(* What is counted *)

LEMMA FreeIsTotal == FreeBlocks = Total(Counters, online)
  BY DEF FreeBlocks, Total, Counters

LEMMA CountersAreTyped == ASSUME SbTypeOK PROVE Counters \in CounterSet
  BY DEF SbTypeOK, Counters, CounterSet

LEMMA FreeIsNatural == ASSUME SbBase PROVE FreeBlocks \in Int /\ FreeBlocks >= 0
  BY FreeIsTotal, CountersAreTyped, TotalIsNatural DEF SbBase, SbTypeOK

LEMMA DeadShareIsNatural == ASSUME SbTypeOK, DeadOK PROVE DeadShare \in Int /\ DeadShare >= 0
  <1>1. CASE Dead
    <2>1. hot[2] \in Cpus /\ cnt[hot[2]] >= 0
      BY <1>1 DEF DeadOK
    <2>2. cnt[hot[2]] \in Int
      BY <2>1 DEF SbTypeOK
    <2> QED BY <1>1, <2>1, <2>2 DEF DeadShare, Dead
  <1>2. CASE ~Dead
    BY <1>2 DEF DeadShare, Dead
  <1> QED BY <1>1, <1>2

\* Numbers that add up to the same before and after
LEMMA StillAddsUp ==
  ASSUME NEW b \in Int, NEW f \in Int, NEW d \in Int, NEW a \in Int, NEW u \in Int, NEW s \in Int, NEW h \in Int,
         NEW f1 \in Int, NEW a1 \in Int, NEW u1 \in Int, NEW h1 \in Int,
         f1 + a1 + u1 + h1 = f + a + u + h,
         f + d + a + u + s = b
  PROVE  f1 + d + a1 + u1 + (s - h + h1) = b
  OBVIOUS

LEMMA HandIsInt ==
  ASSUME th \in [Threads -> Call], pool \in Pool, NEW t \in Threads
  PROVE  InHand(t) \in Int /\ HalfDone(t) \in Int /\ Hand(t) \in Int
  <1>1. th[t].delta \in Int /\ th[t].res \in Int /\ -th[t].delta \in Int
    BY DEF Call
  <1>2. InHand(t) \in Int
    BY <1>1 DEF InHand
  <1>3. HalfDone(t) \in Int
    BY <1>1 DEF HalfDone
  <1> QED BY <1>2, <1>3 DEF Hand

\* The sum changes by what one thread's share changes.
LEMMA HandsMove ==
  ASSUME th \in [Threads -> Call], pool \in Pool, th' \in [Threads -> Call], pool' \in Pool,
         NEW t \in Threads, \A u \in Threads : u # t => th'[u] = th[u] /\ th[u].pc # "resblks2"
  PROVE  /\ SumOf(Hands, Threads)' = SumOf(Hands, Threads) - Hand(t) + Hand(t)'
         /\ SumOf(Hands, Threads) \in Int /\ Hand(t) \in Int /\ Hand(t)' \in Int
  <1>1. PICK f, g : f = Hands /\ g = Hands'
    OBVIOUS
  <1>2. \A u \in Threads : f[u] = Hand(u) /\ g[u] = Hand(u)'
    BY <1>1 DEF Hands
  <1>3. \A u \in Threads : f[u] \in Int
    <2>1. ASSUME NEW u \in Threads PROVE f[u] \in Int
      BY <1>2, HandIsInt
    <2> QED BY <2>1
  <1>4. \A u \in Threads : g[u] \in Int
    <2>1. ASSUME NEW u \in Threads PROVE g[u] \in Int
      <3>1. th'[u].delta \in Int /\ th'[u].res \in Int /\ -th'[u].delta \in Int
        BY DEF Call
      <3>2. InHand(u)' \in Int
        BY <3>1 DEF InHand
      <3>3. HalfDone(u)' \in Int
        BY <3>1 DEF HalfDone
      <3> QED BY <1>2, <3>2, <3>3 DEF Hand
    <2> QED BY <2>1
  <1>5. ASSUME NEW u \in Threads, u # t PROVE f[u] = g[u]
    <2>1. th'[u] = th[u] /\ th[u].pc # "resblks2"
      BY <1>5
    <2> QED BY <1>2, <2>1 DEF Hand, InHand, HalfDone
  <1>6. IsFiniteSet(Threads)
    BY SbAssumption
  <1>7. SumFunctionOnSet(f, Threads) \in Int
    BY <1>3, <1>6, SumTake
  <1>8. SumFunctionOnSet(g, Threads) = SumFunctionOnSet(f, Threads) - f[t] + g[t]
    BY <1>3, <1>4, <1>5, <1>6, SumChange
  <1> QED BY <1>1, <1>2, <1>3, <1>4, <1>7, <1>8 DEF SumOf

LEMMA HandsStay ==
  ASSUME th \in [Threads -> Call], th' = th, pool' = pool
  PROVE  SumOf(Hands, Threads)' = SumOf(Hands, Threads) 
  <1>1. \A u : Hand(u)' = Hand(u)
    BY DEF Hand, InHand, HalfDone, Shrinks
  <1>2. Hands' = Hands
    BY <1>1 DEF Hands
  <1> QED BY <1>2 DEF SumOf

LEMMA CountedIs ==
  BlocksAreCountedOnce <=>
    /\ FreeBlocks + DeadShare + pool.avail + used + SumOf(Hands, Threads) = Blocks
    /\ FreeBlocks + DeadShare >= Aside
  BY DEF BlocksAreCountedOnce, Hands, Hand

\* A step of one thread keeps the invariant if it keeps that thread's part and takes as much
\* from one place as it adds to another.
LEMMA ThreadStep ==
  ASSUME SbCorrect, NEW t \in Threads, Alone(t), th' \in [Threads -> Call],
         \A u \in Threads : u # t => th'[u] = th[u],
         SbTypeOK', online' = online, hot' = hot,
         CountOK(Counters, online)', \A c \in Cpus \ online : cnt'[c] = cnt[c],
         ThreadOK(t)', 
         FreeBlocks' + pool'.avail + used' + Hand(t)' = FreeBlocks + pool.avail + used + Hand(t),
         FreeBlocks' >= FreeBlocks \/ FreeBlocks' >= Aside
  PROVE  SbCorrect'
  <1> USE DEF SbCorrect, SbBase
  <1>1. DeadOK' /\ DeadShare' = DeadShare
    BY DEF DeadOK, DeadShare, Dead
  <1>2. ASSUME NEW u \in Threads PROVE ThreadOK(u)' /\ (Resizing(u)' => ~Dead')
    <2>1. CASE u # t
      <3>1. th'[u] = th[u] /\ ~Resizing(u)
        BY <2>1 DEF Alone
      <3>2. PoolOK(u)' /\ ~Resizing(u)'
        BY <3>1 DEF PoolOK, Resizing
      <3>3. GoalOK(th'[u])
        BY <3>1 DEF ThreadOK
      <3> QED BY <3>1, <3>2, <3>3 DEF ThreadOK
    <2>2. CASE u = t
      BY <2>2 DEF Alone
    <2> QED BY <2>1, <2>2
  <1>3. SbBase'
    BY <1>1, <1>2
  <1>4. FreeBlocks \in Int /\ FreeBlocks' \in Int
    <2>1. FreeBlocks \in Int
      BY FreeIsNatural
    <2>2. Total(Counters, online)' \in Int
      <3>1. Counters' \in CounterSet
        BY DEF SbTypeOK, Counters, CounterSet
      <3>2. PICK s, on : s = Counters' /\ on = online'
        OBVIOUS
      <3>3. on \subseteq Cpus /\ on # {} /\ CountOK(s, on) /\ s \in CounterSet
        BY <3>1, <3>2 DEF SbTypeOK, CountOK
      <3>4. Total(s, on) \in Int
        BY <3>3, TotalIsNatural
      <3> QED BY <3>2, <3>4 DEF Total
    <2>3. FreeBlocks' = Total(Counters, online)'
      BY DEF FreeBlocks, Total, Counters
    <2> QED BY <2>1, <2>2, <2>3
  <1>5. DeadShare \in Int /\ DeadShare >= 0
    BY DeadShareIsNatural
  <1>6. pool \in Pool /\ pool' \in Pool /\ th \in [Threads -> Call]
    BY DEF SbTypeOK
  <1>7. /\ SumOf(Hands, Threads)' = SumOf(Hands, Threads) - Hand(t) + Hand(t)'
        /\ SumOf(Hands, Threads) \in Int /\ Hand(t) \in Int /\ Hand(t)' \in Int
    <2>1. \A u \in Threads : u # t => th'[u] = th[u] /\ th[u].pc # "resblks2"
      BY DEF Alone, Resizing
    <2> QED BY <1>6, <2>1, HandsMove
  <1>8. /\ pool.avail \in Int /\ pool'.avail \in Int /\ used \in Int /\ used' \in Int
        /\ Aside \in Int /\ Blocks \in Int
    BY SbAssumption DEF SbTypeOK, Pool
  <1>9. /\ FreeBlocks + DeadShare + pool.avail + used + SumOf(Hands, Threads) = Blocks
        /\ FreeBlocks + DeadShare >= Aside
    BY CountedIs
  <1>10. FreeBlocks' + DeadShare' >= Aside
    <2>1. PICK f, f1, d, a : f = FreeBlocks /\ f1 = FreeBlocks' /\ d = DeadShare /\ a = Aside
      OBVIOUS
    <2>2. f \in Int /\ f1 \in Int /\ d \in Int /\ a \in Int /\ d >= 0 /\ f + d >= a
      BY <2>1, <1>4, <1>5, <1>8, <1>9
    <2>3. f1 >= f \/ f1 >= a
      BY <2>1
    <2>4. f1 + d >= a
      BY <2>2, <2>3
    <2> QED BY <1>1, <2>1, <2>4
  <1>11. FreeBlocks' + DeadShare' + pool'.avail + used' + SumOf(Hands, Threads)' = Blocks
    <2>1. FreeBlocks' + DeadShare + pool'.avail + used' + (SumOf(Hands, Threads) - Hand(t) + Hand(t)') = Blocks
      <3>1. PICK b, f, d, a, u, s, h, f1, a1, u1, h1 :
              /\ b = Blocks /\ f = FreeBlocks /\ d = DeadShare /\ a = pool.avail /\ u = used
              /\ s = SumOf(Hands, Threads) /\ h = Hand(t)
              /\ f1 = FreeBlocks' /\ a1 = pool'.avail /\ u1 = used' /\ h1 = Hand(t)'
        OBVIOUS
      <3>2. /\ b \in Int /\ f \in Int /\ d \in Int /\ a \in Int /\ u \in Int /\ s \in Int /\ h \in Int
            /\ f1 \in Int /\ a1 \in Int /\ u1 \in Int /\ h1 \in Int
        BY <3>1, <1>4, <1>5, <1>7, <1>8
      <3>3. f1 + a1 + u1 + h1 = f + a + u + h
        BY <3>1
      <3>4. f + d + a + u + s = b
        BY <3>1, <1>9
      <3>5. f1 + d + a1 + u1 + (s - h + h1) = b
        BY <3>2, <3>3, <3>4, StillAddsUp
      <3> QED BY <3>1, <3>5
    <2> QED BY <1>1, <1>7, <2>1
  <1>12. BlocksAreCountedOnce'
    BY <1>10, <1>11 DEF BlocksAreCountedOnce, Hands, Hand
  <1> QED BY <1>3, <1>12

\* A step of no thread keeps the invariant if what is free and what a dead cpu counted stay
\* the same together.
LEMMA OtherStep ==
  ASSUME Quiet, SbCorrect, SbTypeOK', UNCHANGED <<pool, th, used>>,
         CountOK(Counters, online)', DeadOK',
         \A t \in Threads : th[t].pc \in {"lock", "locked"} => th[t].cpu \in online',
         FreeBlocks' + DeadShare' = FreeBlocks + DeadShare
  PROVE  SbCorrect'
  <1> USE DEF SbCorrect, SbBase
  <1>1. DeadShare \in Int /\ DeadShare' \in Int /\ FreeBlocks \in Int
    <2>1. DeadShare \in Int /\ FreeBlocks \in Int
      BY FreeIsNatural, DeadShareIsNatural
    <2>2. DeadShare' \in Int
      <3>1. CASE Dead'
        <4>1. hot'[2] \in Cpus
          BY <3>1 DEF DeadOK
        <4>2. cnt'[hot'[2]] \in Int
          BY <4>1 DEF SbTypeOK
        <4> QED BY <3>1, <4>2 DEF DeadShare, Dead
      <3>2. CASE ~Dead'
        BY <3>2 DEF DeadShare, Dead
      <3> QED BY <3>1, <3>2
    <2> QED BY <2>1, <2>2
  <1>2. FreeBlocks' \in Int
    <2>1. PICK s, on : s = Counters' /\ on = online'
      OBVIOUS
    <2>2. on \subseteq Cpus /\ on # {} /\ CountOK(s, on) /\ s \in CounterSet
      BY <2>1 DEF SbTypeOK, CountOK, Counters, CounterSet
    <2>3. Total(s, on) \in Int
      BY <2>2, TotalIsNatural
    <2> QED BY <2>1, <2>3 DEF Total, FreeBlocks, Counters
  <1>3. ASSUME NEW t \in Threads PROVE ThreadOK(t)' /\ (Resizing(t)' => ~Dead')
    <2>1. GoalOK(th'[t]) /\ (Resizing(t)' => ~Dead')
      BY DEF ThreadOK, Quiet
    <2>2. CASE ~Resizing(t)
      <3>1. PoolOK(t)'
        BY <2>2 DEF PoolOK, Resizing
      <3> QED BY <2>1, <3>1 DEF ThreadOK
    <2>3. CASE Resizing(t)
      <3>1. DeadShare = 0 /\ DeadShare' = 0
        <4>1. ~Dead /\ ~Dead'
          BY <2>3 DEF Quiet
        <4> QED BY <4>1 DEF DeadShare, Dead
      <3>2. FreeBlocks' = FreeBlocks
        <4>1. PICK f, f1 : f = FreeBlocks /\ f1 = FreeBlocks'
          OBVIOUS
        <4>2. f \in Int /\ f1 \in Int /\ f1 + 0 = f + 0
          BY <1>1, <1>2, <3>1, <4>1
        <4>3. f1 = f
          BY <4>2
        <4> QED BY <4>1, <4>3
      <3>3. PoolOK(t)'
        BY <3>2 DEF PoolOK, Shrinks, ThreadOK
      <3> QED BY <2>1, <3>3 DEF ThreadOK
    <2> QED BY <2>2, <2>3
  <1>4. SumOf(Hands, Threads)' = SumOf(Hands, Threads) 
    BY HandsStay DEF SbTypeOK
  <1>5. BlocksAreCountedOnce'
    <2>1. /\ FreeBlocks + DeadShare + pool.avail + used + SumOf(Hands, Threads) = Blocks
          /\ FreeBlocks + DeadShare >= Aside
      BY CountedIs
    <2>2. /\ FreeBlocks' + DeadShare' + pool'.avail + used' + SumOf(Hands, Threads)' = Blocks
          /\ FreeBlocks' + DeadShare' >= Aside
      BY <1>4, <2>1
    <2> QED BY <2>2 DEF BlocksAreCountedOnce, Hands, Hand
  <1> QED BY <1>3, <1>5

----------------------------------------------------------------------------
(* Steps inside xfs_icsb_modify_counters *)

LEMMA LockTyped ==
  ASSUME lock \in [cpu : [Cpus -> Holder], mutex : Holder, sb : Holder], NEW h \in Holder
  PROVE  /\ \A c \in Cpus : [lock EXCEPT !.cpu[c] = h] \in [cpu : [Cpus -> Holder], mutex : Holder, sb : Holder]
         /\ [lock EXCEPT !.mutex = h] \in [cpu : [Cpus -> Holder], mutex : Holder, sb : Holder]
         /\ [lock EXCEPT !.sb = h] \in [cpu : [Cpus -> Holder], mutex : Holder, sb : Holder]
  OBVIOUS

LEMMA GoesTo ==
  ASSUME th \in [Threads -> Call], NEW t \in Threads, NEW x \in Places, To(t, x)
  PROVE  /\ th' \in [Threads -> Call]
         /\ \A u \in Threads : u # t => th'[u] = th[u]
         /\ th'[t].pc = x /\ th'[t].delta = th[t].delta /\ th'[t].res = th[t].res
         /\ th'[t].goal = th[t].goal /\ th'[t].ret = th[t].ret /\ th'[t].cpu = th[t].cpu
         /\ th'[t].request = th[t].request
  <1>1. th'[t] = [th[t] EXCEPT !.pc = x] /\ th' = [th EXCEPT ![t] = th'[t]]
    BY DEF To
  <1>2. th[t] \in Call
    OBVIOUS
  <1>3. [th[t] EXCEPT !.pc = x] \in Call
    BY <1>2 DEF Call
  <1> QED BY <1>1, <1>2, <1>3 DEF Call

\* A call that is not decided yet, or was already, goes on and counts nothing.
LEMMA WithinModify ==
  ASSUME SbCorrect, NEW t \in Threads, Alone(t), th' \in [Threads -> Call],
         \A u \in Threads : u # t => th'[u] = th[u],
         th[t].pc \notin OutOfModify, th'[t].pc \notin OutOfModify,
         th'[t].pc \in Decided <=> th[t].pc \in Decided,
         th'[t].delta = th[t].delta, th'[t].res = th[t].res, th'[t].goal = th[t].goal, th'[t].ret = th[t].ret,
         th'[t].pc \in {"lock", "locked"} => th'[t].cpu \in online,
         SbTypeOK', UNCHANGED <<online, pool, hot, used>>,
         CountOK(Counters, online)', \A c \in Cpus \ online : cnt'[c] = cnt[c],
         FreeBlocks' = FreeBlocks
  PROVE  SbCorrect'
  <1>1. ThreadOK(t)
    BY DEF SbCorrect, SbBase
  <1>2. FreeBlocks \in Int
    BY FreeIsNatural DEF SbCorrect
  <1>3. InHand(t)' = InHand(t) /\ HalfDone(t)' = HalfDone(t)
    BY DEF InHand, HalfDone, OutOfModify, Decided
  <1>4. Hand(t)' = Hand(t)
    BY <1>3 DEF Hand
  <1>5. GoalOK(th'[t])
    BY <1>1 DEF ThreadOK, GoalOK, OutOfModify, Decided
  <1>6. PoolOK(t)'
    BY <1>1 DEF ThreadOK, PoolOK, OutOfModify
  <1>7. ThreadOK(t)'
    BY <1>5, <1>6 DEF ThreadOK
  <1>8. FreeBlocks' + pool'.avail + used' + Hand(t)' = FreeBlocks + pool.avail + used + Hand(t)
    BY <1>4
  <1>9. FreeBlocks' >= FreeBlocks
    BY <1>2
  <1> QED BY <1>7, <1>8, <1>9, ThreadStep

LEMMA CountersStay ==
  ASSUME UNCHANGED <<sb, cnt, enabled, online>>
  PROVE  /\ FreeBlocks' = FreeBlocks
         /\ CountOK(Counters, online) => CountOK(Counters, online)'
  BY DEF FreeBlocks, Counters, CountOK

LEMMA AgainKeeps ==
  ASSUME SbCorrect, NEW t \in Threads, Alone(t), Again(t)
  PROVE  SbCorrect'
  <1>1. SbTypeOK /\ th[t] \in Call /\ online \subseteq Cpus /\ th[t].pc = "again"
    BY DEF SbCorrect, SbBase, SbTypeOK, Again
  <1>2. PICK c \in online : th' = [th EXCEPT ![t].cpu = c, ![t].pc = IF enabled THEN "lock" ELSE "slow"]
    BY DEF Again
  <1>3. PICK x \in {"lock", "slow"} : x = IF enabled THEN "lock" ELSE "slow"
    OBVIOUS
  <1>4. th'[t] = [th[t] EXCEPT !.cpu = c, !.pc = x] /\ th' = [th EXCEPT ![t] = th'[t]]
    BY <1>1, <1>2, <1>3 DEF SbTypeOK
  <1>5. [th[t] EXCEPT !.cpu = c, !.pc = x] \in Call
    BY <1>1, <1>3 DEF Call, Places
  <1>6. /\ th' \in [Threads -> Call]
        /\ \A u \in Threads : u # t => th'[u] = th[u]
    BY <1>1, <1>4, <1>5 DEF SbTypeOK
  <1>7. /\ th'[t].pc = x /\ th'[t].cpu = c /\ th'[t].delta = th[t].delta /\ th'[t].res = th[t].res
        /\ th'[t].goal = th[t].goal /\ th'[t].ret = th[t].ret
    BY <1>1, <1>4 DEF Call
  <1>8. UNCHANGED <<sb, cnt, enabled, online, lock, pool, hot, used, bug, ops>>
    BY DEF Again
  <1>9. SbTypeOK'
    BY <1>1, <1>6, <1>8 DEF SbTypeOK
  <1>10. FreeBlocks' = FreeBlocks /\ CountOK(Counters, online)'
    BY <1>8, CountersStay DEF SbCorrect, SbBase
  <1>11. /\ th[t].pc \notin OutOfModify /\ th'[t].pc \notin OutOfModify
         /\ th'[t].pc \in Decided <=> th[t].pc \in Decided
    BY <1>1, <1>3, <1>7 DEF OutOfModify, Decided
  <1> QED BY <1>6, <1>7, <1>8, <1>9, <1>10, <1>11, WithinModify

LEMMA LockCntrKeeps ==
  ASSUME SbCorrect, NEW t \in Threads, Alone(t), LockCntr(t)
  PROVE  SbCorrect'
  <1>1. SbTypeOK /\ th \in [Threads -> Call] /\ th[t].pc = "lock" /\ th[t].cpu \in online /\ th[t].cpu \in Cpus
    BY DEF SbCorrect, SbBase, SbTypeOK, ThreadOK, LockCntr
  <1>2. To(t, "locked") /\ "locked" \in Places
    BY DEF LockCntr, Places
  <1>3. /\ th' \in [Threads -> Call] /\ \A u \in Threads : u # t => th'[u] = th[u]
        /\ th'[t].pc = "locked" /\ th'[t].delta = th[t].delta /\ th'[t].res = th[t].res
        /\ th'[t].goal = th[t].goal /\ th'[t].ret = th[t].ret /\ th'[t].cpu = th[t].cpu
    BY <1>1, <1>2, GoesTo
  <1>4. UNCHANGED <<sb, cnt, enabled, online, pool, hot, used, bug, ops>>
    BY DEF LockCntr
  <1>5. lock' \in [cpu : [Cpus -> Holder], mutex : Holder, sb : Holder]
    BY <1>1, LockTyped DEF LockCntr, SbTypeOK, Holder
  <1>6. SbTypeOK'
    BY <1>1, <1>3, <1>4, <1>5 DEF SbTypeOK
  <1>7. FreeBlocks' = FreeBlocks /\ CountOK(Counters, online)'
    BY <1>4, CountersStay DEF SbCorrect, SbBase
  <1>8. /\ th[t].pc \notin OutOfModify /\ th'[t].pc \notin OutOfModify
        /\ th'[t].pc \in Decided <=> th[t].pc \in Decided
    BY <1>1, <1>3 DEF OutOfModify, Decided
  <1> QED BY <1>1, <1>3, <1>4, <1>6, <1>7, <1>8, WithinModify

LEMMA LockIcsbKeeps ==
  ASSUME SbCorrect, NEW t \in Threads, Alone(t), LockIcsb(t)
  PROVE  SbCorrect'
  <1>1. SbTypeOK /\ th \in [Threads -> Call] /\ th[t].pc \in {"slow", "balance"}
    BY DEF SbCorrect, SbBase, SbTypeOK, LockIcsb
  <1>2. PICK x \in {"slowmod", "balancing"} : To(t, x)
    BY DEF LockIcsb
  <1>3. /\ th' \in [Threads -> Call] /\ \A u \in Threads : u # t => th'[u] = th[u]
        /\ th'[t].pc = x /\ th'[t].delta = th[t].delta /\ th'[t].res = th[t].res
        /\ th'[t].goal = th[t].goal /\ th'[t].ret = th[t].ret /\ th'[t].cpu = th[t].cpu
    <2>1. x \in Places
      BY DEF Places
    <2> QED BY <1>1, <1>2, <2>1, GoesTo
  <1>4. UNCHANGED <<sb, cnt, enabled, online, pool, hot, used, bug, ops>>
    BY DEF LockIcsb
  <1>5. lock' \in [cpu : [Cpus -> Holder], mutex : Holder, sb : Holder]
    BY <1>1, LockTyped DEF LockIcsb, SbTypeOK, Holder
  <1>6. SbTypeOK'
    BY <1>1, <1>3, <1>4, <1>5 DEF SbTypeOK
  <1>7. FreeBlocks' = FreeBlocks /\ CountOK(Counters, online)'
    BY <1>4, CountersStay DEF SbCorrect, SbBase
  <1>8. /\ th[t].pc \notin OutOfModify /\ th'[t].pc \notin OutOfModify
        /\ th'[t].pc \in Decided <=> th[t].pc \in Decided
        /\ th'[t].pc \notin {"lock", "locked"}
    BY <1>1, <1>3 DEF OutOfModify, Decided
  <1> QED BY <1>1, <1>3, <1>4, <1>6, <1>7, <1>8, WithinModify

\* Installing what a balance made of the counters leaves what is free as it was.
LEMMA BalanceStep ==
  ASSUME SbCorrect, NEW min, online' = online, Install(BalanceCounter(Counters, online, min))
  PROVE  /\ FreeBlocks' = FreeBlocks /\ CountOK(Counters, online)'
         /\ \A c \in Cpus \ online : cnt'[c] = cnt[c]
         /\ sb' \in Int /\ cnt' \in [Cpus -> Int] /\ enabled' \in BOOLEAN
  <1>1. PICK s, b, on : s = Counters /\ on = online /\ b = BalanceCounter(s, on, min)
    OBVIOUS
  <1>2. s \in CounterSet /\ on \subseteq Cpus /\ on # {} /\ CountOK(s, on)
    BY <1>1, CountersAreTyped DEF SbCorrect, SbBase, SbTypeOK
  <1>3. /\ b \in CounterSet /\ CountOK(b, on) /\ Total(b, on) = Total(s, on)
        /\ \A c \in Cpus \ on : b.cnt[c] = s.cnt[c]
    BY <1>1, <1>2, BalanceKeeps
  <1>4. sb' = b.sb /\ cnt' = b.cnt /\ enabled' = b.enabled
    BY <1>1 DEF Install
  <1>5. FreeBlocks' = Total(b, on) /\ FreeBlocks = Total(s, on)
    BY <1>1, <1>4 DEF FreeBlocks, Total, Counters
  <1>6. CountOK(Counters, online)'
    BY <1>1, <1>3, <1>4 DEF CountOK, Counters
  <1>7. s.cnt = cnt
    BY <1>1 DEF Counters
  <1> QED BY <1>1, <1>3, <1>4, <1>5, <1>6, <1>7 DEF CounterSet

LEMMA SlowBalanceKeeps ==
  ASSUME SbCorrect, NEW t \in Threads, Alone(t), SlowBalance(t)
  PROVE  SbCorrect'
  <1>1. SbTypeOK /\ th \in [Threads -> Call] /\ th[t].pc = "slowbalance"
    BY DEF SbCorrect, SbBase, SbTypeOK, SlowBalance
  <1>2. To(t, "done") /\ "done" \in Places
    BY DEF SlowBalance, Places
  <1>3. /\ th' \in [Threads -> Call] /\ \A u \in Threads : u # t => th'[u] = th[u]
        /\ th'[t].pc = "done" /\ th'[t].delta = th[t].delta /\ th'[t].res = th[t].res
        /\ th'[t].goal = th[t].goal /\ th'[t].ret = th[t].ret /\ th'[t].cpu = th[t].cpu
    BY <1>1, <1>2, GoesTo
  <1>4. UNCHANGED <<online, pool, hot, used, bug, ops>>
    BY DEF SlowBalance
  <1>5. lock' \in [cpu : [Cpus -> Holder], mutex : Holder, sb : Holder]
    BY <1>1, LockTyped DEF SlowBalance, SbTypeOK, Holder
  <1>6. /\ FreeBlocks' = FreeBlocks /\ CountOK(Counters, online)'
        /\ \A c \in Cpus \ online : cnt'[c] = cnt[c]
        /\ sb' \in Int /\ cnt' \in [Cpus -> Int] /\ enabled' \in BOOLEAN
    <2>1. CASE th[t].ret = "enospc"
      <3>1. UNCHANGED <<sb, cnt, enabled, online>>
        BY <2>1 DEF SlowBalance, Install, Counters
      <3> QED BY <1>1, <3>1, CountersStay DEF SbCorrect, SbBase, SbTypeOK
    <2>2. CASE th[t].ret # "enospc"
      <3>1. Install(BalanceCounter(Counters, online, 0))
        BY <2>2 DEF SlowBalance
      <3> QED BY <1>4, <3>1, BalanceStep
    <2> QED BY <2>1, <2>2
  <1>7. SbTypeOK'
    BY <1>1, <1>3, <1>4, <1>5, <1>6 DEF SbTypeOK
  <1>8. /\ th[t].pc \notin OutOfModify /\ th'[t].pc \notin OutOfModify
        /\ th'[t].pc \in Decided <=> th[t].pc \in Decided
        /\ th'[t].pc \notin {"lock", "locked"}
    BY <1>1, <1>3 DEF OutOfModify, Decided
  <1> QED BY <1>1, <1>3, <1>4, <1>6, <1>7, <1>8, WithinModify

LEMMA BalanceKeepsAll ==
  ASSUME SbCorrect, NEW t \in Threads, Alone(t), Balance(t)
  PROVE  SbCorrect'
  <1>1. SbTypeOK /\ th \in [Threads -> Call] /\ th[t].pc = "balancing"
    BY DEF SbCorrect, SbBase, SbTypeOK, Balance
  <1>2. To(t, "again") /\ "again" \in Places
    BY DEF Balance, Places
  <1>3. /\ th' \in [Threads -> Call] /\ \A u \in Threads : u # t => th'[u] = th[u]
        /\ th'[t].pc = "again" /\ th'[t].delta = th[t].delta /\ th'[t].res = th[t].res
        /\ th'[t].goal = th[t].goal /\ th'[t].ret = th[t].ret /\ th'[t].cpu = th[t].cpu
    BY <1>1, <1>2, GoesTo
  <1>4. UNCHANGED <<online, pool, hot, used, bug, ops>>
    BY DEF Balance
  <1>5. lock' \in [cpu : [Cpus -> Holder], mutex : Holder, sb : Holder]
    BY <1>1, LockTyped DEF Balance, SbTypeOK, Holder
  <1>6. /\ FreeBlocks' = FreeBlocks /\ CountOK(Counters, online)'
        /\ \A c \in Cpus \ online : cnt'[c] = cnt[c]
        /\ sb' \in Int /\ cnt' \in [Cpus -> Int] /\ enabled' \in BOOLEAN
    <2>1. PICK min : Install(BalanceCounter(Counters, online, min))
      BY DEF Balance
    <2> QED BY <1>4, <2>1, BalanceStep
  <1>7. SbTypeOK'
    BY <1>1, <1>3, <1>4, <1>5, <1>6 DEF SbTypeOK
  <1>8. /\ th[t].pc \notin OutOfModify /\ th'[t].pc \notin OutOfModify
        /\ th'[t].pc \in Decided <=> th[t].pc \in Decided
        /\ th'[t].pc \notin {"lock", "locked"}
    BY <1>1, <1>3 DEF OutOfModify, Decided
  <1> QED BY <1>1, <1>3, <1>4, <1>6, <1>7, <1>8, WithinModify

\* When the counter has changed, what the thread has in hand changes by as much the other way.
LEMMA Decides ==
  ASSUME SbCorrect, NEW t \in Threads, th[t].pc \notin OutOfModify, th[t].pc \notin Decided,
         th'[t].pc \in Decided, th'[t].ret = "ok",
         th'[t].delta = th[t].delta, th'[t].res = th[t].res, th'[t].goal = th[t].goal
  PROVE  /\ th[t].delta \in Int /\ Hand(t) \in Int /\ Hand(t)' = Hand(t) - th[t].delta
         /\ ThreadOK(t)'
  <1>1. /\ th \in [Threads -> Call] /\ pool \in Pool /\ th[t] \in Call
        /\ th[t].delta \in Int /\ th[t].res \in Nat
    BY DEF SbCorrect, SbBase, SbTypeOK, Call
  <1>2. ThreadOK(t) /\ GoalOK(th[t])
    BY DEF SbCorrect, SbBase, ThreadOK
  <1>3. th[t].goal \in {"reserve", "commit", "pool"}
    BY <1>1, <1>2 DEF GoalOK, Call
  <1>4. HalfDone(t) = 0 /\ HalfDone(t)' = 0
    BY DEF HalfDone, Decided, OutOfModify
  <1>5. InHand(t) = IF th[t].goal = "reserve" THEN 0 ELSE th[t].delta
    BY <1>2, <1>3 DEF InHand, GoalOK, Decided
  <1>6. InHand(t)' = IF th[t].goal = "reserve" THEN -th[t].delta ELSE 0
    BY <1>3 DEF InHand, Decided
  <1>7. Hand(t) \in Int /\ Hand(t)' = Hand(t) - th[t].delta
    BY <1>1, <1>4, <1>5, <1>6 DEF Hand
  <1>8. GoalOK(th'[t])
    BY <1>2 DEF GoalOK, Decided, OutOfModify
  <1>9. PoolOK(t)' /\ th'[t].pc \notin {"lock", "locked"}
    BY DEF PoolOK, Decided
  <1> QED BY <1>1, <1>7, <1>8, <1>9 DEF ThreadOK

LEMMA FastPathKeeps ==
  ASSUME SbCorrect, NEW t \in Threads, Alone(t), FastPath(t)
  PROVE  SbCorrect'
  <1>1. /\ SbTypeOK /\ th \in [Threads -> Call] /\ th[t].pc = "locked"
        /\ th[t].cpu \in online /\ th[t].cpu \in Cpus /\ th[t].delta \in Int
    BY DEF SbCorrect, SbBase, SbTypeOK, ThreadOK, FastPath, Call
  <1>2. PICK c : c = th[t].cpu
    OBVIOUS
  <1>3. PICK d : d = th[t].delta
    OBVIOUS
  <1>4. /\ c \in online /\ c \in Cpus /\ d \in Int /\ cnt \in [Cpus -> Int] /\ cnt[c] \in Int
        /\ Aside \in Nat
    BY <1>1, <1>2, <1>3, SbAssumption DEF SbTypeOK
  <1>5. PICK left \in Int : left = cnt[c] - Aside + d
    BY <1>4
  <1>6. UNCHANGED <<sb, enabled, online, pool, hot, used, ops>>
    BY DEF FastPath
  <1>7. lock' \in [cpu : [Cpus -> Holder], mutex : Holder, sb : Holder]
    BY <1>1, LockTyped DEF FastPath, SbTypeOK, Holder
  <1>8. PICK x \in {"slow", "balance", "done"} :
          /\ To(t, x)
          /\ x = IF ~enabled THEN "slow" ELSE IF left < 0 THEN "balance" ELSE "done"
    BY <1>2, <1>3, <1>5 DEF FastPath
  <1>9. cnt' = IF enabled /\ left >= 0 THEN [cnt EXCEPT ![c] = left + Aside] ELSE cnt
    BY <1>2, <1>3, <1>5 DEF FastPath
  <1>10. /\ th' \in [Threads -> Call] /\ \A u \in Threads : u # t => th'[u] = th[u]
         /\ th'[t].pc = x /\ th'[t].delta = th[t].delta /\ th'[t].res = th[t].res
         /\ th'[t].goal = th[t].goal /\ th'[t].ret = th[t].ret /\ th'[t].cpu = th[t].cpu
    <2>1. x \in Places
      BY DEF Places
    <2> QED BY <1>1, <1>8, <2>1, GoesTo
  <1>11. cnt' \in [Cpus -> Int] /\ bug' \in BOOLEAN
    <2>1. PICK v \in Int : v = left + Aside
      BY <1>4
    <2>2. cnt' = [cnt EXCEPT ![c] = v] \/ cnt' = cnt
      BY <1>9, <2>1
    <2>3. cnt' \in [Cpus -> Int]
      BY <1>4, <2>1, <2>2
    <2>4. bug' = (bug \/ (enabled /\ ResUsed(pool) # 0))
      BY DEF FastPath
    <2> QED BY <2>3, <2>4
  <1>12. SbTypeOK'
    BY <1>1, <1>6, <1>7, <1>10, <1>11 DEF SbTypeOK
  <1>13. CASE x # "done"
    <2>1. cnt' = cnt
      BY <1>5, <1>8, <1>9, <1>13
    <2>2. UNCHANGED <<sb, cnt, enabled, online>>
      BY <1>6, <2>1
    <2>3. FreeBlocks' = FreeBlocks /\ CountOK(Counters, online)'
      BY <2>2, CountersStay DEF SbCorrect, SbBase
    <2>4. /\ th[t].pc \notin OutOfModify /\ th'[t].pc \notin OutOfModify
          /\ th'[t].pc \in Decided <=> th[t].pc \in Decided
          /\ th'[t].pc \notin {"lock", "locked"}
      BY <1>1, <1>10, <1>13 DEF OutOfModify, Decided
    <2> QED BY <1>6, <1>10, <1>12, <2>1, <2>3, <2>4, WithinModify
  <1>14. CASE x = "done"
    <2>1. enabled /\ left >= 0
      BY <1>5, <1>8, <1>14
    <2>2. cnt' = [cnt EXCEPT ![c] = cnt[c] + d] /\ cnt[c] + d >= Aside
      <3>1. cnt' = [cnt EXCEPT ![c] = left + Aside]
        BY <1>9, <2>1
      <3>2. left + Aside = cnt[c] + d /\ cnt[c] + d >= Aside
        <4>1. PICK n \in Int : n = cnt[c]
          BY <1>4
        <4>2. left = n - Aside + d /\ left >= 0
          BY <1>5, <2>1, <4>1
        <4> QED BY <1>4, <4>1, <4>2
      <3> QED BY <3>1, <3>2
    <2>3. \A k \in online : cnt[k] \in Int /\ cnt[k] >= 0
      BY <1>1, <1>4, <2>1 DEF SbCorrect, SbBase, CountOK, Counters, SbTypeOK
    <2>4. PICK f, g : f = cnt /\ g = cnt'
      OBVIOUS
    <2>5. /\ \A k \in online : g[k] \in Int /\ g[k] >= 0
          /\ \A k \in online : k # c => f[k] = g[k]
          /\ \A k \in Cpus \ online : g[k] = f[k]
          /\ g[c] = f[c] + d
      BY <1>1, <1>4, <2>2, <2>3, <2>4 DEF SbTypeOK
    <2>6. IsFiniteSet(online)
      BY <1>1, OnlineIsFinite DEF SbTypeOK
    <2>7. SumFunctionOnSet(f, online) \in Int
      BY <2>3, <2>4, <2>6, SumTake
    <2>8. SumFunctionOnSet(g, online) = SumFunctionOnSet(f, online) - f[c] + g[c]
      BY <1>4, <2>3, <2>4, <2>5, <2>6, SumChange
    <2>9. SumFunctionOnSet(g, online) >= g[c] /\ SumFunctionOnSet(g, online) \in Int
      BY <1>4, <2>5, <2>6, SumOfNaturals, SumTake
    <2>10. FreeBlocks = SumFunctionOnSet(f, online) /\ FreeBlocks' = SumFunctionOnSet(g, online)
      BY <1>6, <2>1, <2>4 DEF FreeBlocks, SumOf
    <2>11. f[c] \in Int /\ g[c] >= Aside
      BY <1>4, <2>2, <2>4, <2>5
    <2>12. FreeBlocks \in Int /\ FreeBlocks' \in Int /\ FreeBlocks' = FreeBlocks + d /\ FreeBlocks' >= Aside
      BY <1>4, <2>5, <2>7, <2>8, <2>9, <2>10, <2>11
    <2>13. CountOK(Counters, online)'
      BY <1>6, <2>1, <2>4, <2>5 DEF CountOK, Counters
    <2>14. ThreadOK(t)
      BY DEF SbCorrect, SbBase
    <2>15. th'[t].ret = "ok"
      BY <1>1, <1>10, <2>14 DEF ThreadOK, GoalOK, Decided, Call, SbTypeOK
    <2>16. /\ th[t].pc \notin OutOfModify /\ th[t].pc \notin Decided /\ th'[t].pc \in Decided
      BY <1>1, <1>10, <1>14 DEF OutOfModify, Decided
    <2>17. Hand(t) \in Int /\ Hand(t)' = Hand(t) - d /\ ThreadOK(t)'
      BY <1>3, <1>10, <2>15, <2>16, Decides
    <2>18. FreeBlocks' + pool'.avail + used' + Hand(t)' = FreeBlocks + pool.avail + used + Hand(t)
      <3>1. pool.avail \in Int /\ used \in Int
        BY <1>1 DEF SbTypeOK, Pool
      <3>2. PICK a, u, h, b : a = pool.avail /\ u = used /\ h = Hand(t) /\ b = FreeBlocks
        OBVIOUS
      <3>3. (b + d) + a + u + (h - d) = b + a + u + h
        BY <1>4, <2>12, <2>17, <3>1, <3>2
      <3> QED BY <1>6, <2>12, <2>17, <3>2, <3>3
    <2>19. \A k \in Cpus \ online : cnt'[k] = cnt[k]
      BY <2>4, <2>5
    <2> QED BY <1>6, <1>10, <1>12, <2>12, <2>13, <2>17, <2>18, <2>19, ThreadStep
  <1> QED BY <1>13, <1>14

\* xfs_mod_incore_sb_unlocked adds to and takes from the free blocks and the reserve.
LEMMA ModIncoreSbIs ==
  ASSUME NEW s \in Int, s >= 0, NEW p \in Pool, NEW d \in Int, NEW rsvd, NEW m, m = ModIncoreSb(s, p, d, rsvd)
  PROVE  /\ m.sb \in Int /\ m.pool \in Pool /\ m.pool.resblks = p.resblks /\ m.sb >= 0
         /\ m.sb >= s \/ m.sb >= Aside
         /\ m.ret \in {"ok", "enospc"}
         /\ m.ret = "ok" => m.sb + m.pool.avail = s + p.avail + d
         /\ m.ret = "enospc" => m.sb = s /\ m.pool = p /\ d <= 0 /\ s - Aside + d < 0
  <1>1. p.resblks \in Int /\ p.avail \in Int /\ Aside \in Nat
    BY SbAssumption DEF Pool
  <1>2. \A a \in Int : [p EXCEPT !.avail = a] \in Pool /\ [p EXCEPT !.avail = a].resblks = p.resblks
                      /\ [p EXCEPT !.avail = a].avail = a
    BY DEF Pool
  <1>3. CASE d > 0
    <2>1. m = Freed(s, p, d)
      BY <1>3 DEF ModIncoreSb
    <2>2. CASE p.resblks - p.avail > d
      <3>1. p.avail + d \in Int
        BY <1>1
      <3>2. m.sb = s /\ m.pool = [p EXCEPT !.avail = p.avail + d] /\ m.ret = "ok"
        BY <2>1, <2>2 DEF Freed, ResUsed
      <3>3. m.pool \in Pool /\ m.pool.resblks = p.resblks /\ m.pool.avail = p.avail + d
        BY <1>2, <3>1, <3>2
      <3> QED BY <1>1, <3>2, <3>3
    <2>3. CASE ~(p.resblks - p.avail > d)
      <3>1. m.sb = s + d - (p.resblks - p.avail) /\ m.pool = [p EXCEPT !.avail = p.resblks] /\ m.ret = "ok"
        BY <2>1, <2>3 DEF Freed, ResUsed
      <3>2. m.pool \in Pool /\ m.pool.resblks = p.resblks /\ m.pool.avail = p.resblks
        BY <1>1, <1>2, <3>1
      <3>3. m.sb \in Int /\ m.sb >= s
        BY <1>1, <2>3, <3>1
      <3>4. m.sb + m.pool.avail = s + p.avail + d
        BY <1>1, <3>1, <3>2
      <3> QED BY <3>1, <3>2, <3>3, <3>4
    <2> QED BY <2>2, <2>3
  <1>4. CASE ~(d > 0)
    <2>1. m = TakenFrom(s, p, d, rsvd) /\ d <= 0
      BY <1>4 DEF ModIncoreSb
    <2>2. CASE s - Aside + d >= 0
      <3>1. m.sb = s + d /\ m.pool = p /\ m.ret = "ok"
        BY <2>1, <2>2 DEF TakenFrom
      <3> QED BY <1>1, <2>2, <3>1
    <2>3. CASE s - Aside + d < 0 /\ rsvd /\ p.avail + d >= 0
      <3>1. p.avail + d \in Int
        BY <1>1
      <3>2. m.sb = s /\ m.pool = [p EXCEPT !.avail = p.avail + d] /\ m.ret = "ok"
        BY <1>1, <2>1, <2>3 DEF TakenFrom
      <3>3. m.pool \in Pool /\ m.pool.resblks = p.resblks /\ m.pool.avail = p.avail + d
        BY <1>2, <3>1, <3>2
      <3> QED BY <1>1, <3>2, <3>3
    <2>4. CASE s - Aside + d < 0 /\ ~(rsvd /\ p.avail + d >= 0)
      <3>1. m.sb = s /\ m.pool = p /\ m.ret = "enospc"
        BY <1>1, <2>1, <2>4 DEF TakenFrom
      <3> QED BY <1>1, <2>1, <2>4, <3>1
    <2> QED BY <1>1, <2>2, <2>3, <2>4
  <1> QED BY <1>3, <1>4

LEMMA SlowPathKeeps ==
  ASSUME SbCorrect, NEW t \in Threads, Alone(t), SlowPath(t)
  PROVE  SbCorrect'
  <1>1. /\ SbTypeOK /\ th \in [Threads -> Call] /\ th[t] \in Call /\ th[t].pc = "slowmod"
        /\ th[t].delta \in Int /\ th[t].res \in Nat /\ pool \in Pool /\ sb \in Int
    BY DEF SbCorrect, SbBase, SbTypeOK, SlowPath, Call
  <1>2. UNCHANGED <<cnt, enabled, online, hot, used, bug, ops>>
    BY DEF SlowPath
  <1>3. th[t].pc \notin OutOfModify /\ th[t].pc \notin Decided
    BY <1>1 DEF OutOfModify, Decided
  <1>4. CASE enabled
    <2>1. To(t, "again") /\ "again" \in Places /\ UNCHANGED <<sb, pool>>
      BY <1>4 DEF SlowPath, Places
    <2>2. /\ th' \in [Threads -> Call] /\ \A u \in Threads : u # t => th'[u] = th[u]
          /\ th'[t].pc = "again" /\ th'[t].delta = th[t].delta /\ th'[t].res = th[t].res
          /\ th'[t].goal = th[t].goal /\ th'[t].ret = th[t].ret /\ th'[t].cpu = th[t].cpu
      BY <1>1, <2>1, GoesTo
    <2>3. lock' \in [cpu : [Cpus -> Holder], mutex : Holder, sb : Holder]
      BY <1>1, <1>4, LockTyped DEF SlowPath, SbTypeOK, Holder
    <2>4. SbTypeOK'
      BY <1>1, <1>2, <2>1, <2>2, <2>3 DEF SbTypeOK
    <2>5. FreeBlocks' = FreeBlocks /\ CountOK(Counters, online)'
      BY <1>2, <2>1, CountersStay DEF SbCorrect, SbBase
    <2>6. /\ th'[t].pc \notin OutOfModify /\ th'[t].pc \notin Decided /\ th'[t].pc \notin {"lock", "locked"}
      BY <2>2 DEF OutOfModify, Decided
    <2> QED BY <1>2, <1>3, <2>1, <2>2, <2>4, <2>5, <2>6, WithinModify
  <1>5. CASE ~enabled
    <2>1. PICK m : /\ m = ModIncoreSb(sb, pool, th[t].delta, th[t].rsvd)
                   /\ sb' = m.sb /\ pool' = m.pool
                   /\ th' = [th EXCEPT ![t].ret = m.ret, ![t].pc = "slowbalance"]
                   /\ UNCHANGED lock
      BY <1>5 DEF SlowPath
    <2>2. FreeBlocks = sb /\ FreeBlocks' = sb' /\ sb >= 0
      BY <1>2, <1>5 DEF FreeBlocks, SbCorrect, SbBase, CountOK, Counters
    <2>3. /\ m.sb \in Int /\ m.pool \in Pool /\ m.pool.resblks = pool.resblks /\ m.sb >= 0
          /\ m.sb >= sb \/ m.sb >= Aside
          /\ m.ret \in {"ok", "enospc"}
          /\ m.ret = "ok" => m.sb + m.pool.avail = sb + pool.avail + th[t].delta
          /\ m.ret = "enospc" => m.sb = sb /\ m.pool = pool /\ th[t].delta <= 0 /\ sb - Aside + th[t].delta < 0
      BY <1>1, <2>1, <2>2, ModIncoreSbIs
    <2>4. th'[t] = [th[t] EXCEPT !.ret = m.ret, !.pc = "slowbalance"] /\ th' = [th EXCEPT ![t] = th'[t]]
      BY <1>1, <2>1
    <2>5. [th[t] EXCEPT !.ret = m.ret, !.pc = "slowbalance"] \in Call
      BY <1>1, <2>3 DEF Call, Places
    <2>6. th' \in [Threads -> Call] /\ \A u \in Threads : u # t => th'[u] = th[u]
      BY <1>1, <2>4, <2>5
    <2>7. /\ th'[t].pc = "slowbalance" /\ th'[t].ret = m.ret /\ th'[t].delta = th[t].delta
          /\ th'[t].res = th[t].res /\ th'[t].goal = th[t].goal
      BY <1>1, <2>4 DEF Call
    <2>8. SbTypeOK'
      BY <1>1, <1>2, <2>1, <2>3, <2>6 DEF SbTypeOK
    <2>9. CountOK(Counters, online)'
      BY <1>2, <1>5, <2>1, <2>3 DEF CountOK, Counters
    <2>10. th'[t].pc \in Decided
      BY <2>7 DEF Decided
    <2>11. /\ pool.avail \in Int /\ pool'.avail \in Int /\ used \in Int
      BY <1>1, <2>1, <2>3 DEF SbTypeOK, Pool
    <2>12. CASE m.ret = "ok"
      <3>1. Hand(t) \in Int /\ Hand(t)' = Hand(t) - th[t].delta /\ ThreadOK(t)'
        BY <1>3, <2>7, <2>10, <2>12, Decides
      <3>2. FreeBlocks' + pool'.avail + used' + Hand(t)' = FreeBlocks + pool.avail + used + Hand(t)
        <4>1. PICK a, a1, u, h, b, b1, d : /\ a = pool.avail /\ a1 = pool'.avail /\ u = used /\ h = Hand(t)
                                           /\ b = FreeBlocks /\ b1 = FreeBlocks' /\ d = th[t].delta
          OBVIOUS
        <4>2. b1 + a1 = b + a + d
          BY <2>1, <2>2, <2>3, <2>12, <4>1
        <4>3. b1 + a1 + u + (h - d) = b + a + u + h
          <5>1. b \in Int /\ b1 \in Int /\ a \in Int /\ a1 \in Int /\ u \in Int /\ h \in Int /\ d \in Int
            BY <1>1, <2>1, <2>2, <2>3, <2>11, <3>1, <4>1
          <5> QED BY <4>2, <5>1
        <4> QED BY <1>2, <3>1, <4>1, <4>3
      <3> QED BY <1>2, <2>1, <2>2, <2>3, <2>6, <2>8, <2>9, <3>1, <3>2, ThreadStep
    <2>13. CASE m.ret = "enospc"
      <3>1. ThreadOK(t) /\ GoalOK(th[t]) /\ PoolOK(t)
        BY DEF SbCorrect, SbBase, ThreadOK
      <3>2. th[t].goal = "reserve"
        <4>1. th[t].goal # "commit"
          BY <1>1, <2>3, <2>13, <3>1 DEF GoalOK
        <4>2. th[t].goal # "pool"
          <5>1. CASE th[t].goal = "pool"
            <6>1. th[t].delta >= 0 \/ FreeBlocks - Aside + th[t].delta >= 0
              BY <1>3, <3>1, <5>1 DEF PoolOK
            <6>2. th[t].delta < 0 \/ sb - Aside + th[t].delta >= 0
              <7>1. CASE th[t].delta >= 0
                <8>1. th[t].delta = 0
                  BY <1>1, <2>3, <2>13, <7>1
                <8>2. sb - Aside < 0
                  BY <1>1, <2>3, <2>13, <8>1, SbAssumption
                <8>3. Resizing(t) /\ DeadShare = 0
                  BY <1>3, <5>1 DEF Resizing, Decided, SbCorrect, SbBase, Dead, DeadShare
                <8>4. FreeBlocks + DeadShare >= Aside
                  BY DEF SbCorrect, BlocksAreCountedOnce
                <8>5. sb >= Aside
                  BY <1>1, <2>2, <8>3, <8>4, SbAssumption
                <8> QED BY <1>1, <8>2, <8>5, SbAssumption
              <7>2. CASE ~(th[t].delta >= 0)
                BY <1>1, <7>2
              <7> QED BY <7>1, <7>2
            <6>3. sb - Aside + th[t].delta < 0
              BY <2>3, <2>13
            <6> QED BY <1>1, <2>2, <6>1, <6>2, <6>3, SbAssumption
          <5> QED BY <5>1
        <4>3. th[t].goal # "none"
          BY <1>3, <3>1 DEF GoalOK
        <4> QED BY <1>1, <4>1, <4>2, <4>3 DEF Call
      <3>3. th'[t].ret = "enospc" /\ th'[t].goal = "reserve"
        BY <2>7, <2>13, <3>2
      <3>4. GoalOK(th'[t])
        BY <1>3, <2>7, <2>10, <3>1, <3>3 DEF GoalOK, OutOfModify, Decided
      <3>5. PoolOK(t)'
        BY <2>7, <3>3 DEF PoolOK
      <3>6. ThreadOK(t)'
        BY <2>7, <3>4, <3>5 DEF ThreadOK
      <3>7. Hand(t)' = Hand(t)
        <4>1. InHand(t)' = th[t].res /\ HalfDone(t)' = 0
          BY <2>7, <3>3 DEF InHand, HalfDone
        <4>2. InHand(t) = th[t].res /\ HalfDone(t) = 0
          BY <1>1, <3>2 DEF InHand, HalfDone
        <4> QED BY <4>1, <4>2 DEF Hand
      <3>8. pool' = pool /\ FreeBlocks' = FreeBlocks
        BY <2>1, <2>2, <2>3, <2>13
      <3>9. FreeBlocks' + pool'.avail + used' + Hand(t)' = FreeBlocks + pool.avail + used + Hand(t)
        BY <1>2, <3>7, <3>8
      <3> QED BY <1>2, <2>1, <2>2, <2>3, <2>6, <2>8, <2>9, <3>6, <3>8, <3>9, ThreadStep
    <2> QED BY <2>3, <2>12, <2>13
  <1> QED BY <1>1, <1>4, <1>5 DEF SbTypeOK

----------------------------------------------------------------------------
(* Steps of the callers *)

\* A caller's step that counts nothing: what it has in hand stays the same.
LEMMA CallerStep ==
  ASSUME SbCorrect, NEW t \in Threads, Alone(t), NEW r \in Call, th' = [th EXCEPT ![t] = r],
         UNCHANGED <<sb, cnt, enabled, online, lock, pool, hot, bug>>,
         used' \in Nat, ops' \in Nat,
         ThreadOK(t)', Hand(t)' + used' = Hand(t) + used
  PROVE  SbCorrect'
  <1>1. SbTypeOK /\ th \in [Threads -> Call] /\ pool \in Pool
    BY DEF SbCorrect, SbBase, SbTypeOK
  <1>2. th' \in [Threads -> Call] /\ \A u \in Threads : u # t => th'[u] = th[u]
    BY <1>1
  <1>3. SbTypeOK'
    BY <1>1, <1>2 DEF SbTypeOK
  <1>4. FreeBlocks' = FreeBlocks /\ CountOK(Counters, online)'
    BY CountersStay DEF SbCorrect, SbBase
  <1>5. FreeBlocks \in Int /\ pool.avail \in Int /\ used \in Int
    BY <1>1, FreeIsNatural DEF SbCorrect, SbTypeOK, Pool
  <1>6. Hand(t) \in Int /\ Hand(t)' \in Int
    <2>1. \A u \in Threads : u # t => th'[u] = th[u] /\ th[u].pc # "resblks2"
      BY <1>2 DEF Alone, Resizing
    <2>2. pool' \in Pool
      BY <1>1
    <2> QED BY <1>1, <1>2, <2>1, <2>2, HandsMove
  <1>7. FreeBlocks' + pool'.avail + used' + Hand(t)' = FreeBlocks + pool.avail + used + Hand(t)
    <2>1. PICK f, a, u, h, u1, h1 : /\ f = FreeBlocks /\ a = pool.avail /\ u = used /\ h = Hand(t)
                                    /\ u1 = used' /\ h1 = Hand(t)'
      OBVIOUS
    <2>2. f \in Int /\ a \in Int /\ u \in Int /\ h \in Int /\ u1 \in Int /\ h1 \in Int /\ h1 + u1 = h + u
      BY <1>5, <1>6, <2>1
    <2>3. f + a + u1 + h1 = f + a + u + h
      BY <2>2
    <2> QED BY <1>4, <2>1, <2>3
  <1>8. FreeBlocks' >= FreeBlocks
    BY <1>4, <1>5
  <1> QED BY <1>2, <1>3, <1>4, <1>7, <1>8, ThreadStep

\* A call of xfs_icsb_modify_counters as its caller makes it
Asked(r, d, rsvd, goal) ==
  [r EXCEPT !.pc = "again", !.delta = d, !.rsvd = rsvd, !.goal = goal, !.ret = "ok"]

LEMMA ModifyDoes ==
  ASSUME th \in [Threads -> Call], NEW t \in Threads, NEW d \in Int, NEW rsvd \in BOOLEAN,
         NEW goal \in {"reserve", "commit", "pool"}, NEW r, r = Asked(th[t], d, rsvd, goal)
  PROVE  /\ r \in Call
         /\ Modify(t, d, rsvd, goal) => th' = [th EXCEPT ![t] = r] /\ th'[t] = r
         /\ r.pc = "again" /\ r.delta = d /\ r.goal = goal /\ r.ret = "ok" /\ r.res = th[t].res
         /\ r.request = th[t].request /\ r.cpu = th[t].cpu
  <1>1. th[t] \in Call
    OBVIOUS
  <1>2. r \in Call
    BY <1>1 DEF Call, Places, Asked
  <1>3. /\ r.pc = "again" /\ r.delta = d /\ r.goal = goal /\ r.ret = "ok" /\ r.res = th[t].res
        /\ r.request = th[t].request /\ r.cpu = th[t].cpu
    BY <1>1 DEF Call, Asked
  <1>4. Modify(t, d, rsvd, goal) => th' = [th EXCEPT ![t] = r] /\ th'[t] = r
    BY DEF Modify, Asked
  <1> QED BY <1>2, <1>3, <1>4

LEMMA IdleIs ==
  /\ Idle \in Call /\ Idle.pc = "idle" /\ Idle.goal = "none" /\ Idle.ret = "ok" /\ Idle.res = 0
  /\ GoalOK(Idle)
  <1>1. Idle \in Call /\ Idle.pc = "idle" /\ Idle.goal = "none" /\ Idle.ret = "ok" /\ Idle.res = 0
    BY DEF Idle, Call, Places
  <1> QED BY <1>1 DEF GoalOK, OutOfModify

\* Between calls a thread has in hand what it reserved.
LEMMA IdleHand ==
  ASSUME SbCorrect, NEW t \in Threads, th[t].pc \in {"idle", "resblks"}
  PROVE  /\ Hand(t) = th[t].res /\ th[t].goal = "none" /\ th[t].ret = "ok" /\ th[t].res \in Nat
         /\ th[t] \in Call
         /\ th[t].pc = "resblks" => th[t].res = 0
  <1>1. th[t] \in Call /\ GoalOK(th[t])
    BY DEF SbCorrect, SbBase, SbTypeOK, ThreadOK
  <1>2. /\ th[t].goal = "none" /\ th[t].ret = "ok" /\ th[t].res \in Nat
        /\ th[t].pc = "resblks" => th[t].res = 0
    BY <1>1 DEF GoalOK, OutOfModify, Decided, Call
  <1>3. InHand(t) = th[t].res /\ HalfDone(t) = 0
    BY <1>2 DEF InHand, HalfDone
  <1> QED BY <1>1, <1>2, <1>3 DEF Hand

LEMMA ReserveKeeps ==
  ASSUME SbCorrect, NEW t \in Threads, Alone(t), Reserve(t)
  PROVE  SbCorrect'
  <1>1. th[t].pc = "idle" /\ th[t].res = 0 /\ th \in [Threads -> Call] /\ ops \in Nat /\ used \in Nat
    BY DEF SbCorrect, SbBase, SbTypeOK, Reserve
  <1>2. PICK k \in Takes : Modify(t, -k[1], k[2], "reserve")
    BY DEF Reserve
  <1>3. PICK d \in Int : d = -k[1] /\ d < 0 /\ k[2] \in BOOLEAN
    BY <1>2, SbAssumption
  <1>4. PICK r : r = Asked(th[t], d, k[2], "reserve")
    OBVIOUS
  <1>5. /\ r \in Call /\ th' = [th EXCEPT ![t] = r] /\ th'[t] = r
        /\ r.pc = "again" /\ r.delta = d /\ r.goal = "reserve" /\ r.ret = "ok" /\ r.res = 0
    BY <1>1, <1>2, <1>3, <1>4, ModifyDoes
  <1>6. GoalOK(r)
    BY <1>3, <1>5 DEF GoalOK, OutOfModify, Decided
  <1>7. PoolOK(t)'
    BY <1>5 DEF PoolOK
  <1>8. ThreadOK(t)'
    BY <1>5, <1>6, <1>7 DEF ThreadOK
  <1>9. Hand(t) = 0
    BY <1>1, IdleHand
  <1>10. Hand(t)' = 0
    BY <1>5 DEF Hand, InHand, HalfDone
  <1>11. UNCHANGED <<sb, cnt, enabled, online, lock, pool, hot, used, bug>> /\ ops' \in Nat
    BY <1>1 DEF Reserve
  <1> QED BY <1>1, <1>5, <1>8, <1>9, <1>10, <1>11, CallerStep

LEMMA TransDoneKeeps ==
  ASSUME SbCorrect, NEW t \in Threads, Alone(t), TransDone(t)
  PROVE  SbCorrect'
  <1>1. th[t].pc = "idle" /\ th[t].res > 0 /\ th \in [Threads -> Call] /\ th[t] \in Call /\ ops \in Nat /\ used \in Nat
    BY DEF SbCorrect, SbBase, SbTypeOK, TransDone
  <1>2. th[t].res \in Nat /\ th[t].rsvd \in BOOLEAN
    BY <1>1 DEF Call
  <1>3. PICK u \in {-used, 0, th[t].res} : /\ th[t].res - u # 0
                                            /\ Modify(t, th[t].res - u, th[t].rsvd, "commit")
                                            /\ used' = used + u
    BY DEF TransDone
  <1>4. u \in Int
    BY <1>1, <1>2
  <1>5. PICK d \in Int : d = th[t].res - u
    BY <1>2, <1>4
  <1>6. d > 0 /\ used' \in Nat
    BY <1>1, <1>2, <1>3, <1>5
  <1>7. PICK r : r = Asked(th[t], d, th[t].rsvd, "commit")
    OBVIOUS
  <1>8. /\ r \in Call /\ th' = [th EXCEPT ![t] = r] /\ th'[t] = r
        /\ r.pc = "again" /\ r.delta = d /\ r.goal = "commit" /\ r.ret = "ok"
    BY <1>1, <1>2, <1>3, <1>5, <1>7, ModifyDoes
  <1>9. GoalOK(r)
    BY <1>6, <1>8 DEF GoalOK, OutOfModify, Decided
  <1>10. PoolOK(t)'
    BY <1>8 DEF PoolOK
  <1>11. ThreadOK(t)'
    BY <1>8, <1>9, <1>10 DEF ThreadOK
  <1>12. Hand(t) = th[t].res
    BY <1>1, IdleHand
  <1>13. Hand(t)' = d
    <2>1. InHand(t)' = d /\ HalfDone(t)' = 0
      BY <1>8 DEF InHand, HalfDone
    <2> QED BY <2>1 DEF Hand
  <1>14. Hand(t)' + used' = Hand(t) + used
    BY <1>1, <1>2, <1>3, <1>4, <1>5, <1>12, <1>13
  <1>15. UNCHANGED <<sb, cnt, enabled, online, lock, pool, hot, bug, ops>>
    BY DEF TransDone
  <1> QED BY <1>1, <1>6, <1>8, <1>11, <1>14, <1>15, CallerStep

LEMMA TransAllUsedKeeps ==
  ASSUME SbCorrect, NEW t \in Threads, Alone(t), TransAllUsed(t)
  PROVE  SbCorrect'
  <1>1. th[t].pc = "idle" /\ th \in [Threads -> Call] /\ ops \in Nat /\ used \in Nat
    BY DEF SbCorrect, SbBase, SbTypeOK, TransAllUsed
  <1>2. Hand(t) = th[t].res /\ th[t].res \in Nat
    BY <1>1, IdleHand
  <1>3. th' = [th EXCEPT ![t] = Idle] /\ th'[t] = Idle /\ used' = used + th[t].res
    BY <1>1 DEF TransAllUsed
  <1>4. ThreadOK(t)'
    BY <1>3, IdleIs DEF ThreadOK, PoolOK
  <1>5. Hand(t)' = 0
    BY <1>3, IdleIs DEF Hand, InHand, HalfDone
  <1>6. used' \in Nat /\ Hand(t)' + used' = Hand(t) + used
    BY <1>1, <1>2, <1>3, <1>5
  <1>7. UNCHANGED <<sb, cnt, enabled, online, lock, pool, hot, bug, ops>>
    BY DEF TransAllUsed
  <1> QED BY <1>1, <1>3, <1>4, <1>6, <1>7, IdleIs, CallerStep

LEMMA ReserveBlocksKeeps ==
  ASSUME SbCorrect, NEW t \in Threads, Alone(t), ReserveBlocks(t)
  PROVE  SbCorrect'
  <1>1. th[t].pc = "idle" /\ th[t].res = 0 /\ th \in [Threads -> Call] /\ ops \in Nat /\ used \in Nat
    BY DEF SbCorrect, SbBase, SbTypeOK, ReserveBlocks
  <1>2. PICK q \in Requests : th' = [th EXCEPT ![t].pc = "resblks", ![t].request = q]
    BY DEF ReserveBlocks
  <1>3. q \in Nat
    BY SbAssumption
  <1>4. Hand(t) = 0 /\ th[t].goal = "none" /\ th[t].ret = "ok" /\ th[t] \in Call
    BY <1>1, IdleHand
  <1>5. PICK r : r = [th[t] EXCEPT !.pc = "resblks", !.request = q]
    OBVIOUS
  <1>6. r \in Call /\ r.pc = "resblks" /\ r.goal = "none" /\ r.ret = "ok" /\ r.res = 0
    BY <1>1, <1>3, <1>4, <1>5 DEF Call, Places
  <1>7. th' = [th EXCEPT ![t] = r] /\ th'[t] = r
    BY <1>1, <1>2, <1>5
  <1>8. GoalOK(r)
    BY <1>3, <1>6 DEF GoalOK, OutOfModify
  <1>9. ThreadOK(t)'
    BY <1>6, <1>7, <1>8 DEF ThreadOK, PoolOK
  <1>10. Hand(t)' = 0
    BY <1>6, <1>7 DEF Hand, InHand, HalfDone
  <1>11. UNCHANGED <<sb, cnt, enabled, online, lock, pool, hot, used, bug>> /\ ops' \in Nat
    BY <1>1 DEF ReserveBlocks
  <1> QED BY <1>1, <1>4, <1>6, <1>7, <1>9, <1>10, <1>11, CallerStep

LEMMA DoneKeeps ==
  ASSUME SbCorrect, NEW t \in Threads, Alone(t), Done(t)
  PROVE  SbCorrect'
  <1>1. /\ th[t].pc = "done" /\ th \in [Threads -> Call] /\ th[t] \in Call /\ ops \in Nat /\ used \in Nat
        /\ GoalOK(th[t])
    BY DEF SbCorrect, SbBase, SbTypeOK, ThreadOK, Done
  <1>2. UNCHANGED <<sb, cnt, enabled, online, lock, pool, hot, used, bug, ops>>
    BY DEF Done
  <1>3. HalfDone(t) = 0
    BY <1>1 DEF HalfDone
  <1>4. CASE th[t].goal = "reserve" /\ th[t].ret = "ok"
    <2>1. PICK r : r = [Idle EXCEPT !.res = -th[t].delta, !.rsvd = th[t].rsvd]
      OBVIOUS
    <2>2. th[t].delta \in Int /\ th[t].delta < 0 /\ th[t].rsvd \in BOOLEAN
      BY <1>1, <1>4 DEF GoalOK, Call
    <2>3. -th[t].delta \in Nat
      BY <2>2
    <2>4. r \in Call /\ r.pc = "idle" /\ r.goal = "none" /\ r.ret = "ok" /\ r.res = -th[t].delta
      <3>1. Idle \in Call /\ Idle.pc = "idle" /\ Idle.goal = "none" /\ Idle.ret = "ok"
        BY IdleIs
      <3>2. PICK i, v, w : i = Idle /\ v = -th[t].delta /\ w = th[t].rsvd
        OBVIOUS
      <3>3. i \in Call /\ v \in Nat /\ w \in BOOLEAN /\ r = [i EXCEPT !.res = v, !.rsvd = w]
        BY <2>1, <2>2, <2>3, <3>1, <3>2
      <3>4. r \in Call /\ r.pc = i.pc /\ r.goal = i.goal /\ r.ret = i.ret /\ r.res = v
        BY <3>3 DEF Call
      <3> QED BY <3>1, <3>2, <3>4
    <2>5. th' = [th EXCEPT ![t] = r] /\ th'[t] = r
      BY <1>1, <1>4, <2>1 DEF Done
    <2>6. ThreadOK(t)'
      BY <2>4, <2>5 DEF ThreadOK, PoolOK, GoalOK, OutOfModify
    <2>7. InHand(t) = -th[t].delta
      BY <1>1, <1>4 DEF InHand
    <2>8. InHand(t)' = -th[t].delta /\ HalfDone(t)' = 0
      BY <2>4, <2>5 DEF InHand, HalfDone
    <2>9. Hand(t)' = Hand(t)
      BY <1>3, <2>7, <2>8 DEF Hand
    <2> QED BY <1>1, <1>2, <2>4, <2>5, <2>6, <2>9, CallerStep
  <1>5. CASE ~(th[t].goal = "reserve" /\ th[t].ret = "ok")
    <2>1. th[t].goal = "pool" => th[t].ret = "ok"
      BY <1>1 DEF GoalOK, Call
    <2>2. th' = [th EXCEPT ![t] = Idle] /\ th'[t] = Idle
      BY <1>1, <1>5, <2>1 DEF Done
    <2>3. ThreadOK(t)'
      BY <2>2, IdleIs DEF ThreadOK, PoolOK
    <2>4. Hand(t)' = 0
      BY <2>2, IdleIs DEF Hand, InHand, HalfDone
    <2>5. InHand(t) = 0
      BY <1>1, <1>5 DEF InHand, GoalOK, Decided, OutOfModify, Call
    <2>6. Hand(t)' = Hand(t)
      BY <1>3, <2>4, <2>5 DEF Hand
    <2> QED BY <1>1, <1>2, <2>2, <2>3, <2>6, IdleIs, CallerStep
  <1> QED BY <1>4, <1>5

\* xfs_reserve_blocks finds at least what must stay free.
LEMMA ResizesAlone ==
  ASSUME SbCorrect, NEW t \in Threads, th[t].pc \in {"resblks", "resblks2"}
  PROVE  FreeBlocks \in Int /\ FreeBlocks >= Aside
  <1>2. DeadShare = 0
    BY DEF SbCorrect, SbBase, Resizing, DeadShare, Dead
  <1>3. FreeBlocks \in Int
    BY FreeIsNatural DEF SbCorrect
  <1>4. FreeBlocks + DeadShare >= Aside
    BY DEF SbCorrect, BlocksAreCountedOnce
  <1>5. PICK f \in Int : f = FreeBlocks
    BY <1>3
  <1>6. f + 0 >= Aside
    BY <1>2, <1>4, <1>5
  <1>7. f >= Aside
    BY <1>6, SbAssumption
  <1> QED BY <1>5, <1>7

LEMMA PoolFirstKeeps ==
  ASSUME SbCorrect, NEW t \in Threads, Alone(t), PoolFirst(t)
  PROVE  SbCorrect'
  <1>1. /\ SbTypeOK /\ th \in [Threads -> Call] /\ th[t] \in Call /\ th[t].pc = "resblks"
        /\ pool \in Pool /\ sb \in Int /\ used \in Nat
    BY DEF SbCorrect, SbBase, SbTypeOK, PoolFirst
  <1>2. FreeBlocks \in Int /\ FreeBlocks >= Aside
    BY <1>1, ResizesAlone
  <1>3. UNCHANGED <<cnt, enabled, online, hot, used, bug, ops>> /\ sb' = FreeBlocks
    BY DEF PoolFirst, SyncCounters, FreeBlocks
  <1>4. FreeBlocks' = FreeBlocks
    BY <1>3 DEF FreeBlocks
  <1>5. CountOK(Counters, online)'
    <2>1. FreeBlocks >= 0
      BY FreeIsNatural DEF SbCorrect
    <2> QED BY <1>3, <2>1 DEF SbCorrect, SbBase, CountOK, Counters
  <1>6. PICK q : q = th[t].request
    OBVIOUS
  <1>7. q \in Nat /\ pool.resblks \in Int /\ pool.avail \in Int /\ Aside \in Nat
    BY <1>1, <1>6, SbAssumption DEF Call, Pool
  <1>8. PICK m : /\ m = PoolDelta(FreeBlocks, pool, q)
                 /\ pool' = IF Shrinks(t) THEN [pool EXCEPT !.avail = pool.avail - m.delta]
                            ELSE [pool EXCEPT !.resblks = m.resblks]
                 /\ th' = [th EXCEPT ![t].pc = "resblks2", ![t].delta = m.delta]
    BY <1>6 DEF PoolFirst, SyncCounters, FreeBlocks
  <1>9. Hand(t) = 0 /\ th[t].goal = "none" /\ th[t].ret = "ok" /\ th[t].res = 0
    BY <1>1, IdleHand
  <1>10. /\ m.delta \in Int
         /\ pool' \in Pool /\ pool'.avail \in Int
         /\ pool.resblks > q => m.delta >= 0 /\ pool'.resblks > q /\ pool'.avail = pool.avail - m.delta
         /\ ~(pool.resblks > q) => /\ m.delta <= 0 /\ FreeBlocks - Aside + m.delta >= 0
                                   /\ ~(pool'.resblks > q) /\ pool'.avail = pool.avail
    <2>1. PICK f \in Int : f = FreeBlocks /\ f >= Aside
      BY <1>2
    <2>2. CASE pool.resblks > q
      <3>1. m = [delta |-> LargerOf(0, pool.avail - q), resblks |-> q]
        BY <1>8, <2>2 DEF PoolDelta
      <3>2. m.delta \in Int /\ m.delta >= 0
        BY <1>7, <3>1 DEF LargerOf
      <3>3. pool' = [pool EXCEPT !.avail = pool.avail - m.delta] /\ pool.avail - m.delta \in Int
        BY <1>6, <1>7, <1>8, <2>2, <3>2 DEF Shrinks
      <3>4. pool' \in Pool /\ pool'.avail = pool.avail - m.delta /\ pool'.resblks = pool.resblks
        BY <1>1, <3>3 DEF Pool
      <3> QED BY <2>2, <3>2, <3>3, <3>4
    <2>3. CASE ~(pool.resblks > q)
      <3>1. pool' = [pool EXCEPT !.resblks = m.resblks]
        BY <1>6, <1>8, <2>3 DEF Shrinks
      <3>2. CASE f - Aside < q - pool.resblks
        <4>1. m = [delta |-> -(f - Aside), resblks |-> pool.resblks + f - Aside]
          BY <1>8, <2>1, <2>3, <3>2 DEF PoolDelta
        <4>2. /\ m.delta \in Int /\ m.delta <= 0 /\ f - Aside + m.delta >= 0
              /\ m.resblks \in Int /\ ~(m.resblks > q)
          BY <1>7, <2>1, <3>2, <4>1
        <4>3. pool' \in Pool /\ pool'.resblks = m.resblks /\ pool'.avail = pool.avail
          BY <1>1, <3>1, <4>2 DEF Pool
        <4> QED BY <1>7, <2>1, <2>3, <4>2, <4>3
      <3>3. CASE ~(f - Aside < q - pool.resblks)
        <4>1. m = [delta |-> -(q - pool.resblks), resblks |-> q]
          BY <1>8, <2>1, <2>3, <3>3 DEF PoolDelta
        <4>2. /\ m.delta \in Int /\ m.delta <= 0 /\ f - Aside + m.delta >= 0
              /\ m.resblks \in Int /\ ~(m.resblks > q)
          BY <1>7, <2>1, <2>3, <3>3, <4>1
        <4>3. pool' \in Pool /\ pool'.resblks = m.resblks /\ pool'.avail = pool.avail
          BY <1>1, <3>1, <4>2 DEF Pool
        <4> QED BY <1>7, <2>1, <2>3, <4>2, <4>3
      <3> QED BY <3>2, <3>3
    <2> QED BY <2>2, <2>3
  <1>11. PICK r : r = [th[t] EXCEPT !.pc = "resblks2", !.delta = m.delta]
    OBVIOUS
  <1>12. /\ r \in Call /\ r.pc = "resblks2" /\ r.goal = "none" /\ r.ret = "ok" /\ r.res = 0
         /\ r.delta = m.delta /\ r.request = q
    BY <1>1, <1>6, <1>9, <1>10, <1>11 DEF Call, Places
  <1>13. th' = [th EXCEPT ![t] = r] /\ th'[t] = r
    BY <1>1, <1>8, <1>11
  <1>14. th' \in [Threads -> Call] /\ \A u \in Threads : u # t => th'[u] = th[u]
    BY <1>1, <1>12, <1>13
  <1>15. lock' \in [cpu : [Cpus -> Holder], mutex : Holder, sb : Holder]
    BY <1>1, LockTyped DEF PoolFirst, SbTypeOK, Holder
  <1>16. SbTypeOK'
    BY <1>1, <1>2, <1>3, <1>10, <1>14, <1>15 DEF SbTypeOK
  <1>17. GoalOK(r)
    <2>1. GoalOK(th[t])
      BY DEF SbCorrect, SbBase, ThreadOK
    <2> QED BY <1>1, <1>12, <2>1 DEF GoalOK, OutOfModify
  <1>18. Shrinks(t)' <=> pool.resblks > q
    BY <1>10, <1>12, <1>13 DEF Shrinks
  <1>19. PoolOK(t)'
    <2>1. m.delta >= 0 \/ FreeBlocks - Aside + m.delta >= 0
      BY <1>10
    <2>2. IF Shrinks(t)' THEN m.delta >= 0 ELSE m.delta <= 0
      BY <1>10, <1>18
    <2> QED BY <1>4, <1>12, <1>13, <2>1, <2>2 DEF PoolOK
  <1>20. ThreadOK(t)'
    BY <1>12, <1>13, <1>17, <1>19 DEF ThreadOK
  <1>21. pool'.avail + Hand(t)' = pool.avail
    <2>1. InHand(t)' = 0
      BY <1>12, <1>13 DEF InHand
    <2>2. HalfDone(t)' = IF pool.resblks > q THEN m.delta ELSE 0
      BY <1>12, <1>13, <1>18 DEF HalfDone
    <2>3. Hand(t)' = IF pool.resblks > q THEN m.delta ELSE 0
      BY <1>10, <2>1, <2>2 DEF Hand
    <2> QED BY <1>7, <1>10, <2>3
  <1>22. FreeBlocks' + pool'.avail + used' + Hand(t)' = FreeBlocks + pool.avail + used + Hand(t)
    <2>1. Hand(t)' \in Int
      <3>1. \A u \in Threads : u # t => th'[u] = th[u] /\ th[u].pc # "resblks2"
        BY <1>14 DEF Alone, Resizing
      <3> QED BY <1>1, <1>10, <1>14, <3>1, HandsMove
    <2>2. PICK f, a, a1, u, h1 : /\ f = FreeBlocks /\ a = pool.avail /\ a1 = pool'.avail /\ u = used /\ h1 = Hand(t)'
      OBVIOUS
    <2>3. f \in Int /\ a \in Int /\ a1 \in Int /\ u \in Int /\ h1 \in Int /\ a1 + h1 = a
      BY <1>1, <1>2, <1>7, <1>10, <1>21, <2>1, <2>2
    <2>4. f + a1 + u + h1 = f + a + u + 0
      BY <2>3
    <2> QED BY <1>3, <1>4, <1>9, <2>2, <2>4
  <1>23. FreeBlocks' >= Aside
    BY <1>2, <1>4
  <1> QED BY <1>2, <1>3, <1>5, <1>14, <1>16, <1>20, <1>22, <1>23, ThreadStep

LEMMA PoolSecondKeeps ==
  ASSUME SbCorrect, NEW t \in Threads, Alone(t), PoolSecond(t)
  PROVE  SbCorrect'
  <1>1. /\ SbTypeOK /\ th \in [Threads -> Call] /\ th[t] \in Call /\ th[t].pc = "resblks2"
        /\ pool \in Pool /\ used \in Nat
    BY DEF SbCorrect, SbBase, SbTypeOK, PoolSecond
  <1>2. FreeBlocks \in Int /\ FreeBlocks >= Aside
    BY <1>1, ResizesAlone
  <1>3. UNCHANGED <<sb, cnt, enabled, online, hot, used, bug, ops>>
    BY DEF PoolSecond
  <1>4. FreeBlocks' = FreeBlocks /\ CountOK(Counters, online)'
    BY <1>3, CountersStay DEF SbCorrect, SbBase
  <1>5. PICK d \in Int : d = th[t].delta
    BY <1>1 DEF Call
  <1>6. th[t].request \in Nat /\ pool.resblks \in Int /\ pool.avail \in Int
    BY <1>1 DEF Call, Pool
  <1>7. /\ GoalOK(th[t])
        /\ IF Shrinks(t) THEN d >= 0 ELSE d <= 0
        /\ d >= 0 \/ FreeBlocks - Aside + d >= 0
    BY <1>1, <1>5 DEF SbCorrect, SbBase, ThreadOK, PoolOK
  <1>8. th[t].goal = "none" /\ th[t].ret = "ok" /\ th[t].res = 0
    BY <1>1, <1>7 DEF GoalOK, OutOfModify, Decided, Call
  <1>9. Hand(t) = IF Shrinks(t) THEN d ELSE 0
    <2>1. InHand(t) = 0 /\ HalfDone(t) = IF Shrinks(t) THEN d ELSE 0
      BY <1>1, <1>5, <1>8 DEF InHand, HalfDone
    <2> QED BY <2>1 DEF Hand
  <1>10. /\ pool' \in Pool /\ pool'.avail \in Int
         /\ pool'.avail = IF Shrinks(t) THEN pool.avail ELSE pool.avail - d
    <2>1. CASE Shrinks(t)
      <3>1. pool' = [pool EXCEPT !.resblks = th[t].request]
        BY <2>1 DEF PoolSecond
      <3> QED BY <1>1, <1>6, <2>1, <3>1 DEF Pool
    <2>2. CASE ~Shrinks(t)
      <3>1. pool' = [pool EXCEPT !.avail = pool.avail - d] /\ pool.avail - d \in Int
        <4>1. pool' = [pool EXCEPT !.avail = pool.avail - th[t].delta]
          BY <2>2 DEF PoolSecond
        <4> QED BY <1>5, <1>6, <4>1
      <3> QED BY <1>1, <2>2, <3>1 DEF Pool
    <2> QED BY <2>1, <2>2
  <1>11. PICK r \in Call : /\ th' = [th EXCEPT ![t] = r] /\ th'[t] = r /\ GoalOK(r)
                           /\ r.pc \in {"idle", "again"}
                           /\ d = 0 => r = Idle
                           /\ d # 0 => r.delta = d /\ r.goal = "pool" /\ r.ret = "ok"
    <2>1. CASE d = 0
      <3>1. th' = [th EXCEPT ![t] = Idle] /\ th'[t] = Idle
        BY <1>1, <1>5, <2>1 DEF PoolSecond
      <3> QED BY <2>1, <3>1, IdleIs
    <2>2. CASE d # 0
      <3>1. Modify(t, d, FALSE, "pool")
        BY <1>5, <2>2 DEF PoolSecond
      <3>2. PICK r : r = Asked(th[t], d, FALSE, "pool")
        OBVIOUS
      <3>3. /\ r \in Call /\ th' = [th EXCEPT ![t] = r] /\ th'[t] = r
            /\ r.pc = "again" /\ r.delta = d /\ r.goal = "pool" /\ r.ret = "ok" /\ r.res = 0
        <4>1. PICK rsvd \in BOOLEAN, goal \in {"reserve", "commit", "pool"} : rsvd = FALSE /\ goal = "pool"
          OBVIOUS
        <4>2. Modify(t, d, rsvd, goal) /\ r = Asked(th[t], d, rsvd, goal)
          BY <3>1, <3>2, <4>1
        <4>3. /\ r \in Call /\ th' = [th EXCEPT ![t] = r] /\ th'[t] = r
              /\ r.pc = "again" /\ r.delta = d /\ r.goal = goal /\ r.ret = "ok" /\ r.res = th[t].res
          BY <1>1, <1>5, <4>1, <4>2, ModifyDoes
        <4> QED BY <1>8, <4>1, <4>3
      <3>4. GoalOK(r)
        BY <1>8, <3>3 DEF GoalOK, OutOfModify, Decided
      <3> QED BY <2>2, <3>3, <3>4
    <2> QED BY <2>1, <2>2
  <1>12. th' \in [Threads -> Call] /\ \A u \in Threads : u # t => th'[u] = th[u]
    BY <1>1, <1>11
  <1>13. lock' \in [cpu : [Cpus -> Holder], mutex : Holder, sb : Holder]
    BY <1>1, LockTyped DEF PoolSecond, SbTypeOK, Holder
  <1>14. SbTypeOK'
    BY <1>1, <1>3, <1>10, <1>12, <1>13 DEF SbTypeOK
  <1>15. Hand(t)' = d
    <2>1. HalfDone(t)' = 0
      BY <1>11 DEF HalfDone
    <2>2. InHand(t)' = d
      <3>1. CASE d = 0
        BY <1>11, <3>1, IdleIs DEF InHand
      <3>2. CASE d # 0
        BY <1>11, <3>2 DEF InHand
      <3> QED BY <3>1, <3>2
    <2> QED BY <2>1, <2>2 DEF Hand
  <1>16. PoolOK(t)'
    <2>1. CASE d = 0
      BY <1>11, <2>1, IdleIs DEF PoolOK
    <2>2. CASE d # 0
      BY <1>4, <1>7, <1>11, <2>2 DEF PoolOK
    <2> QED BY <2>1, <2>2
  <1>17. ThreadOK(t)'
    BY <1>11, <1>16 DEF ThreadOK
  <1>18. FreeBlocks' + pool'.avail + used' + Hand(t)' = FreeBlocks + pool.avail + used + Hand(t)
    <2>1. PICK f, a, a1, u, h : /\ f = FreeBlocks /\ a = pool.avail /\ a1 = pool'.avail /\ u = used /\ h = Hand(t)
      OBVIOUS
    <2>2. f \in Int /\ a \in Int /\ a1 \in Int /\ u \in Int
      BY <1>1, <1>2, <1>6, <1>10, <2>1
    <2>3. (h = d /\ a1 = a) \/ (h = 0 /\ a1 = a - d)
      BY <1>9, <1>10, <2>1
    <2>4. f + a1 + u + d = f + a + u + h
      BY <2>2, <2>3
    <2> QED BY <1>3, <1>4, <1>15, <2>1, <2>4
  <1>19. FreeBlocks' >= Aside
    BY <1>2, <1>4
  <1> QED BY <1>2, <1>3, <1>4, <1>12, <1>14, <1>17, <1>18, <1>19, ThreadStep

----------------------------------------------------------------------------
(* Steps of no thread *)

LEMMA LazySyncKeeps ==
  ASSUME Quiet, SbCorrect, LazySync
  PROVE  SbCorrect'
  <1>1. SbTypeOK /\ enabled
    BY DEF SbCorrect, SbBase, LazySync
  <1>2. UNCHANGED <<cnt, enabled, online, lock, pool, th, hot, used, bug, ops>> /\ sb' = FreeBlocks
    BY <1>1 DEF LazySync, FreeBlocks
  <1>3. FreeBlocks \in Int
    BY FreeIsNatural DEF SbCorrect
  <1>4. SbTypeOK'
    BY <1>1, <1>2, <1>3 DEF SbTypeOK
  <1>5. CountOK(Counters, online)' /\ FreeBlocks' = FreeBlocks
    BY <1>1, <1>2 DEF SbCorrect, SbBase, CountOK, Counters, FreeBlocks
  <1>6. DeadOK' /\ DeadShare' = DeadShare
    BY <1>2 DEF SbCorrect, SbBase, DeadOK, Dead, DeadShare
  <1>7. \A t \in Threads : th[t].pc \in {"lock", "locked"} => th[t].cpu \in online'
    BY <1>2 DEF SbCorrect, SbBase, ThreadOK
  <1> QED BY <1>2, <1>4, <1>5, <1>6, <1>7, OtherStep

\* A cpu that comes starts from 0.
LEMMA CpuUpKeeps ==
  ASSUME Quiet, SbCorrect, CpuUp
  PROVE  SbCorrect'
  <1>1. SbTypeOK /\ hot = <<>> /\ online \subseteq Cpus /\ online # {} /\ cnt \in [Cpus -> Int]
    BY DEF SbCorrect, SbBase, SbTypeOK, CpuUp
  <1>2. PICK c \in Cpus \ online : /\ cnt' = [cnt EXCEPT ![c] = 0]
                                   /\ online' = online \cup {c}
                                   /\ hot' = <<"online", c>>
    BY DEF CpuUp
  <1>3. UNCHANGED <<sb, enabled, lock, pool, th, used, bug>> /\ ops' = ops + 1
    BY DEF CpuUp
  <1>4. cnt' \in [Cpus -> Int] /\ cnt'[c] = 0 /\ \A k \in online : cnt'[k] = cnt[k]
    BY <1>1, <1>2
  <1>5. SbTypeOK'
    <2>1. hot' = <<>> \/ \E e \in {"online", "dead"}, k \in Cpus : hot' = <<e, k>>
      BY <1>2
    <2>2. online' \subseteq Cpus /\ online' # {}
      BY <1>1, <1>2
    <2>3. ops' \in Nat
      BY <1>1, <1>3 DEF SbTypeOK
    <2> QED BY <1>1, <1>3, <1>4, <2>1, <2>2, <2>3 DEF SbTypeOK
  <1>6. DeadOK' /\ DeadShare' = 0 /\ DeadShare = 0
    <2>1. hot'[1] = "online"
      BY <1>2
    <2> QED BY <1>1, <2>1 DEF DeadOK, Dead, DeadShare
  <1>7. CountOK(Counters, online)'
    BY <1>2, <1>3, <1>4 DEF SbCorrect, SbBase, CountOK, Counters
  <1>8. FreeBlocks' = FreeBlocks
    <2>1. CASE enabled
      <3>1. PICK f, g, on : f = cnt /\ g = cnt' /\ on = online'
        OBVIOUS
      <3>2. IsFiniteSet(on) /\ IsFiniteSet(online)
        BY <1>1, <1>5, <3>1, OnlineIsFinite DEF SbTypeOK
      <3>3. \A k \in on : g[k] \in Int
        BY <1>4, <1>5, <3>1 DEF SbTypeOK
      <3>4. SumFunctionOnSet(g, on) = g[c] + SumFunctionOnSet(g, on \ {c})
        <4>1. \A k \in on : SumFunctionOnSet(g, on) = g[k] + SumFunctionOnSet(g, on \ {k})
          BY <3>2, <3>3, SumTake
        <4>2. c \in on
          BY <1>2, <3>1
        <4> QED BY <4>1, <4>2
      <3>5. on \ {c} = online
        BY <1>2, <3>1
      <3>6. \A k \in online : f[k] \in Int /\ f[k] = g[k] /\ g[k] \in Int
        BY <1>1, <1>4, <3>1
      <3>7. SumFunctionOnSet(g, online) = SumFunctionOnSet(f, online) /\ SumFunctionOnSet(f, online) \in Int
        BY <3>2, <3>6, SumSame, SumTake
      <3>8. SumFunctionOnSet(g, on) = SumFunctionOnSet(f, online)
        BY <1>4, <3>1, <3>4, <3>5, <3>7
      <3> QED BY <1>3, <2>1, <3>1, <3>8 DEF FreeBlocks, SumOf
    <2>2. CASE ~enabled
      BY <1>3, <2>2 DEF FreeBlocks
    <2> QED BY <2>1, <2>2
  <1>9. \A t \in Threads : th[t].pc \in {"lock", "locked"} => th[t].cpu \in online'
    BY <1>2 DEF SbCorrect, SbBase, ThreadOK
  <1>10. FreeBlocks' + DeadShare' = FreeBlocks + DeadShare
    BY <1>6, <1>8
  <1> QED BY <1>3, <1>5, <1>6, <1>7, <1>9, <1>10, OtherStep

\* What a cpu that goes has counted is its share until the notifier takes it over.
LEMMA CpuDownKeeps ==
  ASSUME FALSE \notin HotUnplug, Quiet, SbCorrect, CpuDown
  PROVE  SbCorrect'
  <1>1. /\ SbTypeOK /\ hot = <<>> /\ online \subseteq Cpus /\ online # {} /\ cnt \in [Cpus -> Int]
        /\ enabled \in HotUnplug /\ Cardinality(online) > 1 /\ enabled \in BOOLEAN
    BY DEF SbCorrect, SbBase, SbTypeOK, CpuDown
  <1>2. enabled
    BY <1>1
  <1>3. PICK c \in online : ~OnCpu(c) /\ online' = online \ {c} /\ hot' = <<"dead", c>>
    BY DEF CpuDown
  <1>4. UNCHANGED <<sb, cnt, enabled, lock, pool, th, used, bug>> /\ ops' = ops + 1
    BY DEF CpuDown
  <1>5. online' # {} /\ online' \subseteq Cpus
    <2>1. CASE online' = {}
      <3>1. online = {c}
        BY <1>3, <2>1
      <3>2. Cardinality(online) = 1
        BY <3>1, FS_Singleton
      <3> QED BY <1>1, <3>2
    <2> QED BY <1>1, <1>3, <2>1
  <1>6. SbTypeOK'
    <2>1. hot' = <<>> \/ \E e \in {"online", "dead"}, k \in Cpus : hot' = <<e, k>>
      BY <1>1, <1>3
    <2>2. ops' \in Nat
      BY <1>1, <1>4 DEF SbTypeOK
    <2> QED BY <1>1, <1>4, <1>5, <2>1, <2>2 DEF SbTypeOK
  <1>7. \A k \in online : cnt[k] \in Int /\ cnt[k] >= 0
    BY <1>1, <1>2 DEF SbCorrect, SbBase, CountOK, Counters
  <1>8. hot'[1] = "dead" /\ hot'[2] = c /\ hot' # <<>>
    BY <1>3
  <1>9. DeadOK' /\ DeadShare' = cnt[c] /\ DeadShare = 0
    BY <1>1, <1>2, <1>3, <1>4, <1>7, <1>8 DEF DeadOK, Dead, DeadShare
  <1>10. CountOK(Counters, online)'
    BY <1>2, <1>3, <1>4, <1>7 DEF CountOK, Counters
  <1>11. FreeBlocks = cnt[c] + FreeBlocks' /\ FreeBlocks' \in Int
    <2>1. PICK f, on : f = cnt /\ on = online'
      OBVIOUS
    <2>2. IsFiniteSet(online) /\ IsFiniteSet(on)
      BY <1>1, <1>5, <2>1, OnlineIsFinite
    <2>3. SumFunctionOnSet(f, online) = f[c] + SumFunctionOnSet(f, online \ {c})
      BY <1>7, <2>1, <2>2, SumTake
    <2>4. SumFunctionOnSet(f, on) \in Int
      BY <1>3, <1>7, <2>1, <2>2, SumTake
    <2> QED BY <1>2, <1>3, <1>4, <2>1, <2>3, <2>4 DEF FreeBlocks, SumOf
  <1>12. FreeBlocks' + DeadShare' = FreeBlocks + DeadShare
    <2>1. PICK f, f1, n : f = FreeBlocks /\ f1 = FreeBlocks' /\ n = cnt[c]
      OBVIOUS
    <2>2. n \in Int /\ f1 \in Int /\ f = n + f1
      BY <1>3, <1>7, <1>11, <2>1
    <2>3. f1 + n = f + 0
      BY <2>2
    <2> QED BY <1>9, <2>1, <2>3
  <1>13. \A t \in Threads : th[t].pc \in {"lock", "locked"} => th[t].cpu \in online'
    BY <1>3 DEF SbCorrect, SbBase, ThreadOK, OnCpu
  <1> QED BY <1>4, <1>6, <1>9, <1>10, <1>12, <1>13, OtherStep

LEMMA CpuOnlineKeeps ==
  ASSUME Quiet, SbCorrect, CpuOnline
  PROVE  SbCorrect'
  <1>1. SbTypeOK /\ hot[1] = "online" /\ hot' = <<>>
    BY DEF SbCorrect, SbBase, CpuOnline
  <1>2. UNCHANGED <<online, lock, pool, th, used, bug, ops>> /\ Install(BalanceCounter(Counters, online, 0))
    BY DEF CpuOnline
  <1>3. /\ FreeBlocks' = FreeBlocks /\ CountOK(Counters, online)'
        /\ sb' \in Int /\ cnt' \in [Cpus -> Int] /\ enabled' \in BOOLEAN
    BY <1>2, BalanceStep
  <1>4. SbTypeOK'
    BY <1>1, <1>2, <1>3 DEF SbTypeOK
  <1>5. DeadOK' /\ DeadShare' = 0 /\ DeadShare = 0
    BY <1>1 DEF DeadOK, Dead, DeadShare
  <1>6. \A t \in Threads : th[t].pc \in {"lock", "locked"} => th[t].cpu \in online'
    BY <1>2 DEF SbCorrect, SbBase, ThreadOK
  <1>7. FreeBlocks' + DeadShare' = FreeBlocks + DeadShare
    BY <1>3, <1>5
  <1> QED BY <1>2, <1>3, <1>4, <1>5, <1>6, <1>7, OtherStep

LEMMA CpuDeadKeeps ==
  ASSUME Quiet, SbCorrect, CpuDead
  PROVE  SbCorrect'
  <1>1. SbTypeOK /\ Dead /\ hot' = <<>> /\ hot # <<>>
    BY DEF SbCorrect, SbBase, CpuDead, Dead
  <1>2. PICK c : c = hot[2]
    OBVIOUS
  <1>3. c \in Cpus \ online /\ cnt[c] >= 0 /\ cnt[c] \in Int /\ cnt \in [Cpus -> Int]
    BY <1>1, <1>2 DEF SbCorrect, SbBase, DeadOK, SbTypeOK
  <1>4. UNCHANGED <<online, lock, pool, th, used, bug, ops>>
    BY DEF CpuDead
  <1>5. PICK s, on, d, f, b : /\ s = Counters /\ on = online /\ d = DisableCounter(s, on)
                             /\ f = Folded(d, c) /\ b = BalanceCounter(f, on, 0)
    OBVIOUS
  <1>6. Install(b)
    BY <1>2, <1>5 DEF CpuDead
  <1>7. s \in CounterSet /\ on \subseteq Cpus /\ on # {} /\ CountOK(s, on) /\ s.cnt = cnt
    BY <1>1, <1>5, CountersAreTyped DEF SbCorrect, SbBase, SbTypeOK, Counters
  <1>8. d \in CounterSet /\ ~d.enabled /\ d.cnt = cnt /\ d.sb = Total(s, on) /\ d.sb >= 0 /\ d.sb \in Int
    BY <1>5, <1>7, DisableKeeps DEF CounterSet
  <1>9. PICK v \in Int : v = d.sb + cnt[c] /\ v >= 0
    BY <1>3, <1>8
  <1>10. f = [d EXCEPT !.sb = v, !.cnt[c] = 0]
    BY <1>5, <1>8, <1>9 DEF Folded
  <1>11. f \in CounterSet /\ ~f.enabled /\ f.sb = v /\ CountOK(f, on)
    <2>1. f.cnt = [cnt EXCEPT ![c] = 0] /\ f.sb = v /\ f.enabled = d.enabled /\ f = [d EXCEPT !.sb = v, !.cnt = f.cnt]
      BY <1>8, <1>10 DEF CounterSet
    <2>2. f.cnt \in [Cpus -> Int]
      BY <1>3, <2>1
    <2>3. f \in CounterSet
      BY <1>8, <2>1, <2>2 DEF CounterSet
    <2> QED BY <1>8, <1>9, <2>1, <2>3 DEF CountOK
  <1>12. b \in CounterSet /\ CountOK(b, on) /\ Total(b, on) = v
    <2>1. b \in CounterSet /\ CountOK(b, on) /\ Total(b, on) = Total(f, on)
      BY <1>5, <1>7, <1>11, BalanceKeeps
    <2> QED BY <1>11, <2>1 DEF Total
  <1>13. sb' = b.sb /\ cnt' = b.cnt /\ enabled' = b.enabled
    BY <1>6 DEF Install
  <1>14. FreeBlocks' = v /\ FreeBlocks = d.sb
    BY <1>4, <1>5, <1>8, <1>12, <1>13 DEF FreeBlocks, Total, Counters
  <1>15. CountOK(Counters, online)'
    BY <1>4, <1>5, <1>12, <1>13 DEF CountOK, Counters
  <1>16. SbTypeOK'
    BY <1>1, <1>4, <1>12, <1>13 DEF SbTypeOK, CounterSet
  <1>17. DeadOK' /\ DeadShare' = 0 /\ DeadShare = cnt[c]
    BY <1>1, <1>2 DEF DeadOK, Dead, DeadShare
  <1>18. \A t \in Threads : th[t].pc \in {"lock", "locked"} => th[t].cpu \in online'
    BY <1>4 DEF SbCorrect, SbBase, ThreadOK
  <1>19. FreeBlocks' + DeadShare' = FreeBlocks + DeadShare
    BY <1>3, <1>8, <1>9, <1>14, <1>17
  <1> QED BY <1>4, <1>15, <1>16, <1>17, <1>18, <1>19, OtherStep

----------------------------------------------------------------------------
(* Every execution *)

LEMMA SbStarts == ASSUME SbInit PROVE SbCorrect
  <1> DEFINE mounted == [sb |-> Blocks - Resblks, cnt |-> [c \in Cpus |-> 0], enabled |-> FALSE]
  <1>0. PICK on \in {Cpus, {Min(Cpus)}} : online = on
    BY DEF SbInit
  <1>1. PICK s : s = Rebalanced(mounted, on, 0) /\ sb = s.sb /\ cnt = s.cnt /\ enabled = s.enabled
    BY <1>0 DEF SbInit
  <1>2. on \subseteq Cpus /\ on # {}
    BY SbAssumption, MinIsIn
  <1>3. PICK d : d = mounted
    OBVIOUS
  <1>4. Blocks \in Nat /\ Resblks \in Nat /\ Aside \in Nat /\ Blocks - Resblks >= Aside
    BY SbAssumption
  <1>5. d \in CounterSet /\ ~d.enabled /\ d.sb >= 0 /\ d.sb = Blocks - Resblks
    BY <1>3, <1>4 DEF CounterSet
  <1>6. s \in CounterSet /\ CountOK(s, on) /\ Total(s, on) = Blocks - Resblks
    BY <1>1, <1>2, <1>3, <1>5, RebalanceKeeps
  <1>7. FreeBlocks = Blocks - Resblks /\ CountOK(Counters, online)
    BY <1>0, <1>1, <1>6 DEF FreeBlocks, Total, Counters, CountOK
  <1>8. /\ pool = [resblks |-> Resblks, avail |-> Resblks]
        /\ th = [t \in Threads |-> Idle]
        /\ hot = <<>> /\ used = 0 /\ bug = FALSE /\ ops = 0
        /\ lock = [cpu |-> [c \in Cpus |-> NoThread], mutex |-> NoThread, sb |-> NoThread]
    BY DEF SbInit
  <1>9. SbTypeOK
    <2>1. lock \in [cpu : [Cpus -> Holder], mutex : Holder, sb : Holder]
      BY <1>8 DEF Holder
    <2>2. pool \in Pool
      BY <1>4, <1>8 DEF Pool
    <2>3. th \in [Threads -> Call]
      BY <1>8, IdleIs
    <2> QED BY <1>0, <1>1, <1>2, <1>6, <1>8, <2>1, <2>2, <2>3 DEF SbTypeOK, CounterSet
  <1>10. DeadOK /\ DeadShare = 0
    BY <1>8 DEF DeadOK, Dead, DeadShare
  <1>11. ASSUME NEW t \in Threads PROVE ThreadOK(t) /\ ~Resizing(t) /\ Hand(t) = 0
    <2>1. th[t] = Idle
      BY <1>8
    <2> QED BY <2>1, IdleIs DEF ThreadOK, PoolOK, Resizing, Hand, InHand, HalfDone
  <1>12. SumOf(Hands, Threads) = 0
    <2>1. PICK h : h = Hands
      OBVIOUS
    <2>2. \A t \in Threads : h[t] = 0
      BY <1>11, <2>1 DEF Hands
    <2>3. SumFunctionOnSet(h, Threads) = 0
      BY <2>2, SumOfNone, SbAssumption
    <2> QED BY <2>1, <2>3 DEF SumOf
  <1>13. BlocksAreCountedOnce
    <2>1. pool.avail = Resblks
      BY <1>8
    <2>2. /\ FreeBlocks + DeadShare + pool.avail + used + SumOf(Hands, Threads) = Blocks
          /\ FreeBlocks + DeadShare >= Aside
      BY <1>4, <1>7, <1>8, <1>10, <1>12, <2>1
    <2> QED BY <2>2, CountedIs
  <1> QED BY <1>7, <1>9, <1>10, <1>11, <1>13 DEF SbCorrect, SbBase

\* A thread that takes a step moves on.
LEMMA StepMoves ==
  ASSUME SbCorrect, NEW t \in Threads,
         \/ InModify(t) \/ Done(t) \/ Reserve(t) \/ TransDone(t) \/ TransAllUsed(t)
         \/ ReserveBlocks(t) \/ PoolFirst(t) \/ PoolSecond(t)
  PROVE  th'[t] # th[t]
  <1>1. th \in [Threads -> Call] /\ th[t] \in Call
    BY DEF SbCorrect, SbBase, SbTypeOK
  <1>2. CASE InModify(t)
    <2>1. ASSUME NEW x, x # th[t].pc, To(t, x) PROVE th'[t] # th[t]
      <3>1. th'[t].pc = x
        BY <1>1, <2>1 DEF To, Call
      <3> QED BY <2>1, <3>1
    <2>2. CASE Again(t)
      <3>1. th'[t].pc # "again" /\ th[t].pc = "again"
        BY <1>1, <2>2 DEF Again, Call
      <3> QED BY <3>1
    <2>3. CASE LockCntr(t)
      BY <2>1, <2>3 DEF LockCntr
    <2>4. CASE FastPath(t)
      BY <2>1, <2>4 DEF FastPath
    <2>5. CASE LockIcsb(t)
      BY <2>1, <2>5 DEF LockIcsb
    <2>6. CASE SlowPath(t)
      <3>1. CASE enabled
        BY <2>1, <2>6, <3>1 DEF SlowPath
      <3>2. CASE ~enabled
        <4>1. th'[t].pc = "slowbalance" /\ th[t].pc = "slowmod"
          BY <1>1, <2>6, <3>2 DEF SlowPath, Call
        <4> QED BY <4>1
      <3> QED BY <3>1, <3>2
    <2>7. CASE SlowBalance(t)
      BY <2>1, <2>7 DEF SlowBalance
    <2>8. CASE Balance(t)
      BY <2>1, <2>8 DEF Balance
    <2> QED BY <1>2, <2>2, <2>3, <2>4, <2>5, <2>6, <2>7, <2>8 DEF InModify
  <1>3. CASE Done(t) \/ TransAllUsed(t)
    <2>1. Idle.pc = "idle" /\ Idle.res = 0 /\ [Idle EXCEPT !.pc = "resblks", !.request = th[t].request].pc = "resblks"
          /\ [Idle EXCEPT !.res = -th[t].delta, !.rsvd = th[t].rsvd].pc = "idle"
      BY DEF Idle
    <2>2. CASE Done(t)
      <3>1. th'[t].pc \in {"idle", "resblks"} /\ th[t].pc = "done"
        BY <1>1, <2>1, <2>2 DEF Done
      <3> QED BY <3>1
    <2>3. CASE TransAllUsed(t)
      <3>1. th'[t].res = 0 /\ th[t].res > 0
        BY <1>1, <2>1, <2>3 DEF TransAllUsed
      <3> QED BY <3>1
    <2> QED BY <1>3, <2>2, <2>3
  <1>4. CASE Reserve(t) \/ TransDone(t)
    <2>1. PICK d, rsvd, goal : Modify(t, d, rsvd, goal) /\ th[t].pc = "idle"
      BY <1>4 DEF Reserve, TransDone
    <2>2. th'[t].pc = "again"
      BY <1>1, <2>1 DEF Modify, Call
    <2> QED BY <2>1, <2>2
  <1>5. CASE ReserveBlocks(t)
    <2>1. th'[t].pc = "resblks" /\ th[t].pc = "idle"
      BY <1>1, <1>5 DEF ReserveBlocks, Call
    <2> QED BY <2>1
  <1>6. CASE PoolFirst(t)
    <2>1. th'[t].pc = "resblks2" /\ th[t].pc = "resblks"
      BY <1>1, <1>6 DEF PoolFirst, Call
    <2> QED BY <2>1
  <1>7. CASE PoolSecond(t)
    <2>1. CASE th[t].delta = 0
      <3>1. th'[t] = Idle /\ th[t].pc = "resblks2"
        BY <1>1, <1>7, <2>1 DEF PoolSecond
      <3> QED BY <3>1, IdleIs
    <2>2. CASE th[t].delta # 0
      <3>1. Modify(t, th[t].delta, FALSE, "pool") /\ th[t].pc = "resblks2"
        BY <1>7, <2>2 DEF PoolSecond
      <3>2. th'[t].pc = "again"
        BY <1>1, <3>1 DEF Modify, Call
      <3> QED BY <3>1, <3>2
    <2> QED BY <2>1, <2>2
  <1> QED BY <1>2, <1>3, <1>4, <1>5, <1>6, <1>7

LEMMA SbStepKeeps ==
  ASSUME FALSE \notin HotUnplug, SbCorrect, [SbNext /\ Quiet]_sbVars
  PROVE  SbCorrect'
  <1>1. ASSUME NEW t \in Threads, Quiet,
               \/ InModify(t) \/ Done(t) \/ Reserve(t) \/ TransDone(t) \/ TransAllUsed(t)
               \/ ReserveBlocks(t) \/ PoolFirst(t) \/ PoolSecond(t)
        PROVE  SbCorrect'
    <2>1. Alone(t)
      <3>1. th'[t] # th[t]
        BY <1>1, StepMoves
      <3> QED BY <1>1, <3>1 DEF Quiet, Alone
    <2>2. CASE InModify(t)
      BY <2>1, <2>2, AgainKeeps, LockCntrKeeps, FastPathKeeps, LockIcsbKeeps, SlowPathKeeps, SlowBalanceKeeps,
         BalanceKeepsAll DEF InModify
    <2>3. CASE Done(t) \/ Reserve(t) \/ TransDone(t) \/ TransAllUsed(t)
      BY <2>1, <2>3, DoneKeeps, ReserveKeeps, TransDoneKeeps, TransAllUsedKeeps
    <2>4. CASE ReserveBlocks(t) \/ PoolFirst(t) \/ PoolSecond(t)
      BY <2>1, <2>4, ReserveBlocksKeeps, PoolFirstKeeps, PoolSecondKeeps
    <2> QED BY <1>1, <2>2, <2>3, <2>4
  <1>2. CASE Quiet /\ (LazySync \/ CpuUp \/ CpuDown \/ CpuOnline \/ CpuDead)
    BY <1>2, LazySyncKeeps, CpuUpKeeps, CpuDownKeeps, CpuOnlineKeeps, CpuDeadKeeps
  <1>3. CASE UNCHANGED sbVars
    BY <1>3 DEF sbVars, SbCorrect, SbBase, SbTypeOK, CountOK, Counters, DeadOK, Dead, ThreadOK, PoolOK, Shrinks,
                Resizing, FreeBlocks, BlocksAreCountedOnce, DeadShare, InHand, HalfDone
  <1> QED BY <1>1, <1>2, <1>3 DEF SbNext

\* While cpus go away only with the counter enabled, and the other threads stand still
\* during xfs_reserve_blocks, every block is counted once, whatever the threads, the
\* notifier and the balances do, and what must stay free is not promised.
THEOREM CountedOnce == ASSUME FALSE \notin HotUnplug PROVE QuietSpec => []BlocksAreCountedOnce
  <1>1. SbInit => SbCorrect
    BY SbStarts
  <1>2. SbCorrect /\ [SbNext /\ Quiet]_sbVars => SbCorrect'
    BY SbStepKeeps
  <1>3. SbCorrect => BlocksAreCountedOnce
    BY DEF SbCorrect
  <1> QED BY <1>1, <1>2, <1>3, PTL DEF QuietSpec

\* Under the same conditions every variable keeps its type, and no counter that counts
\* goes below zero.
THEOREM CountersAreSound ==
  ASSUME FALSE \notin HotUnplug PROVE QuietSpec => [](SbTypeOK /\ CountOK(Counters, online))
  <1>1. SbInit => SbCorrect
    BY SbStarts
  <1>2. SbCorrect /\ [SbNext /\ Quiet]_sbVars => SbCorrect'
    BY SbStepKeeps
  <1>3. SbCorrect => SbTypeOK /\ CountOK(Counters, online)
    BY DEF SbCorrect, SbBase
  <1> QED BY <1>1, <1>2, <1>3, PTL DEF QuietSpec

-----------------------------------------------------------------------------
(* Quota.                                                                  *)

Trx == [res : Int, used : Int, delta : Int, del : Int, ires : Int, iused : Int, idelta : Int]
TaskPlaces == {"idle", "res_user", "res_group", "failed", "open", "noresv", "delay",
               "chown_del", "chown_old", "chown"}
Task == [pc : TaskPlaces, i : Inodes \cup {0}, qa : [Dquots -> Trx], u : Uids \cup {0}, g : Gids \cup {0},
         n : Nat, k : {0, 1}, then : {"none", "open", "delay", "chown_del", "chown_old"}]
Dquot == [b : Int, i : Int, rb : Int, ri : Int, timer : {"off", "on", "expired"}]
Inode == [live : BOOLEAN, u : Uids, g : Gids, nblocks : Nat, del : Nat]

TdTypeOK ==
  dq \in [Dquots -> Dquot] /\ ip \in [Inodes -> Inode] /\ tp \in [Tasks -> Task] /\ calls \in Nat

\* What a transaction has reserved covers what it used of it.
TrxOK(x) ==
  /\ 0 <= x.used /\ x.used <= x.res /\ (x.res # 0 => x.delta = x.used)
  /\ 0 <= x.iused /\ x.iused <= x.ires /\ (x.ires # 0 => x.idelta = x.iused)
  /\ x.del >= 0
Fresh(x) == x.used = 0 /\ x.delta = 0 /\ x.del = 0 /\ x.iused = 0 /\ x.idelta = 0
HasRes(x, n, k) == x.res = n /\ x.ires = k

\* What thread f, at work on inode r, has reserved so far in its transaction
Reserving(f) == f.pc \in {"res_user", "res_group"}
Giving(f)    == f.then \in {"chown_del", "chown_old"}
ReservedOK(f, r) ==
  \A d \in Dquots :
    /\ (Reserving(f) /\ f.then = "chown_old") \/ f.pc \in {"chown_del", "chown_old", "chown"} =>
         IF d \in {f.u, f.g} THEN HasRes(f.qa[d], r.nblocks, 1) ELSE HasRes(f.qa[d], 0, 0)
    /\ f.pc = "res_group" /\ f.then \in {"open", "chown_del"} =>
         IF d = f.u THEN HasRes(f.qa[d], f.n, f.k) ELSE HasRes(f.qa[d], 0, 0)
    /\ (Reserving(f) /\ f.then = "delay") \/ f.pc \in {"delay", "noresv"}
       \/ (f.pc = "res_user" /\ f.then # "chown_old") => HasRes(f.qa[d], 0, 0)

\* what its place in the code says of the call
PlaceOK(f, r) ==
  /\ f.pc # "idle"
  /\ Reserving(f) => f.then # "none"
  /\ f.pc = "delay" => f.then = "delay"
  /\ f.pc \in {"chown_del", "chown_old", "chown"} => Giving(f)
  /\ f.pc = "chown_old" => f.then = "chown_old"
  /\ Reserving(f) \/ f.pc = "delay" => (f.then \in {"open", "delay"} => f.u = r.u /\ f.g = r.g)
  /\ f.pc \notin {"failed", "open", "noresv"} => 
       /\ Giving(f) => f.u # r.u /\ f.g # r.g
       /\ Giving(f) \/ f.then = "delay" => r.live
       /\ f.then = "chown_del" => f.n = r.nblocks /\ f.k = 1
       /\ f.then = "chown_old" => f.n = r.del
       /\ f.then \in {"delay", "chown_old"} => f.k = 0
PartsOK(f, r) ==
  \A d \in Dquots :
    LET x == f.qa[d]
    IN /\ TrxOK(x)
       /\ f.pc \notin {"open", "noresv"} => Fresh(x)
       /\ f.pc = "noresv" /\ d \in {r.u, r.g} => x.delta + x.del <= r.nblocks
       /\ f.pc = "open" /\ ~r.live => x.iused = 0
TaskOK(f, r) == PlaceOK(f, r) /\ ReservedOK(f, r) /\ PartsOK(f, r)
LiveOK(r) == ~r.live => r.nblocks = 0 /\ r.del = 0
Sole(t) == \A u \in Tasks \ {t} : tp[u].i # tp[t].i

----------------------------------------------------------------------------
(* What thread f and inode r make of dquot d's counts.                     *)

\* blocks reserved without a transaction, and not yet on the inode
Held(f, d) ==
  IF \/ f.pc = "res_group" /\ f.then \in {"delay", "chown_old"} /\ d = f.u
     \/ f.pc \in {"delay", "chown_old"} /\ d \in {f.u, f.g}
  THEN f.n ELSE 0
\* the owners that the delayed blocks are charged to
NewOwners(f, r) == {IF f.u # 0 THEN f.u ELSE r.u, IF f.g # 0 THEN f.g ELSE r.g}
ChargedIn(T, r, i, d) ==
  \/ d \in {r.u, r.g} /\ \A t \in Tasks : ~(T[t].i = i /\ T[t].pc = "chown")
  \/ \E t \in Tasks : T[t].i = i /\ T[t].pc = "chown" /\ d \in NewOwners(T[t], r)
DelayedIn(T, r, i, d) == IF ChargedIn(T, r, i, d) THEN r.del ELSE 0

UsedBy(f, d)   == f.qa[d].delta + f.qa[d].del
KeptBy(f, d)   == f.qa[d].res + f.qa[d].del + Held(f, d)
BlocksIn(r, d) == IF d \in {r.u, r.g} THEN r.nblocks ELSE 0
CountIn(r, d)  == IF r.live /\ d \in {r.u, r.g} THEN 1 ELSE 0

UsedBlocks(d)    == SumFunctionOnSet([t \in Tasks |-> UsedBy(tp[t], d)], Tasks)
UsedInodes(d) == SumFunctionOnSet([t \in Tasks |-> tp[t].qa[d].idelta], Tasks)
KeptBlocks(d) == SumFunctionOnSet([t \in Tasks |-> KeptBy(tp[t], d)], Tasks)
KeptInodes(d) == SumFunctionOnSet([t \in Tasks |-> tp[t].qa[d].ires], Tasks)
OwnBlocks(d)  == SumFunctionOnSet([i \in Inodes |-> BlocksIn(ip[i], d)], Inodes)
OwnInodes(d)   == SumFunctionOnSet([i \in Inodes |-> CountIn(ip[i], d)], Inodes)
OwnDelayed(d) == SumFunctionOnSet([i \in Inodes |-> DelayedIn(tp, ip[i], i, d)], Inodes)

Balanced(d) ==
  LET q == dq[d]
  IN /\ q.b + UsedBlocks(d) = OwnBlocks(d)
     /\ q.i + UsedInodes(d) = OwnInodes(d)
     /\ q.rb - q.b = OwnDelayed(d) + KeptBlocks(d)
     /\ q.ri - q.i = KeptInodes(d)
     /\ q.timer # "off" <=> Over(d, q.b)

TdBase ==
  /\ TdTypeOK
  /\ \A i \in Inodes : LiveOK(ip[i])
  /\ \A t \in Tasks : IF tp[t].pc = "idle" THEN tp[t] = NoCall
                      ELSE tp[t].i \in Inodes /\ TaskOK(tp[t], ip[tp[t].i]) /\ Sole(t)
TdCorrect == TdBase /\ \A d \in Dquots : Balanced(d)

----------------------------------------------------------------------------
(* One thread and the inode it has take a step.                            *)

\* the owners charged with the delayed blocks of r while only f may have it
DelayedBy(f, r, d) ==
  IF d \in (IF f.pc = "chown" THEN NewOwners(f, r) ELSE {r.u, r.g}) THEN r.del ELSE 0

LEMMA DelayedIs ==
  ASSUME NEW T, NEW r, NEW i, NEW d, NEW t \in Tasks, \A u \in Tasks \ {t} : T[u].i # i,
         T[t].pc = "chown" => T[t].i = i
  PROVE  DelayedIn(T, r, i, d) = DelayedBy(T[t], r, d)
  BY DEF DelayedIn, DelayedBy, ChargedIn

LEMMA DelayedStays ==
  ASSUME NEW T, NEW U, NEW r, NEW j, NEW d, NEW t \in Tasks, \A u \in Tasks \ {t} : T[u] = U[u],
         T[t].i # j, U[t].i # j
  PROVE  DelayedIn(T, r, j, d) = DelayedIn(U, r, j, d)
  BY DEF DelayedIn, ChargedIn

\* what a step of f on r does to d's counts is what it does to what f and r make of them
Moved(d, q, q2, f, f2, r, r2) ==
  /\ (q2.b - q.b) + (UsedBy(f2, d) - UsedBy(f, d)) = BlocksIn(r2, d) - BlocksIn(r, d)
  /\ (q2.i - q.i) + (f2.qa[d].idelta - f.qa[d].idelta) = CountIn(r2, d) - CountIn(r, d)
  /\ (q2.rb - q2.b) - (q.rb - q.b) = (DelayedBy(f2, r2, d) - DelayedBy(f, r, d)) + (KeptBy(f2, d) - KeptBy(f, d))
  /\ (q2.ri - q2.i) - (q.ri - q.i) = f2.qa[d].ires - f.qa[d].ires
  /\ q2.timer # "off" <=> Over(d, q2.b)

LEMMA PartsAreInts ==
  ASSUME NEW f \in Task, NEW r \in Inode, NEW d \in Dquots
  PROVE  /\ f.qa[d] \in Trx
         /\ UsedBy(f, d) \in Int /\ f.qa[d].idelta \in Int /\ KeptBy(f, d) \in Int /\ f.qa[d].ires \in Int
         /\ BlocksIn(r, d) \in Int /\ CountIn(r, d) \in Int
         /\ DelayedBy(f, r, d) \in Int /\ Held(f, d) \in Nat
  <1>1. f.qa[d] \in Trx
    BY DEF Task
  <1>2. Held(f, d) \in Nat
    BY DEF Held, Task
  <1>3. r.nblocks \in Nat /\ r.del \in Nat
    BY DEF Inode
  <1> QED BY <1>1, <1>2, <1>3 DEF Trx, UsedBy, KeptBy, BlocksIn, CountIn, DelayedBy

\* A sum of which one summand changes
LEMMA SumMoves ==
  ASSUME NEW S, IsFiniteSet(S), NEW x \in S, NEW f, NEW g,
         \A y \in S : f[y] \in Int /\ g[y] \in Int, \A y \in S \ {x} : f[y] = g[y]
  PROVE  /\ SumFunctionOnSet(f, S) \in Int /\ SumFunctionOnSet(g, S) \in Int
         /\ SumFunctionOnSet(g, S) - SumFunctionOnSet(f, S) = g[x] - f[x]
  <1>1. SumFunctionOnSet(f, S) \in Int /\ SumFunctionOnSet(g, S) \in Int
    BY SumTake
  <1>2. SumFunctionOnSet(g, S) = SumFunctionOnSet(f, S) - f[x] + g[x]
    BY SumChange
  <1> QED BY <1>1, <1>2

LEMMA StepKeeps ==
  ASSUME TdCorrect, NEW t \in Tasks, NEW i \in Inodes,
         NEW f2 \in Task, NEW r2 \in Inode, NEW q2 \in [Dquots -> Dquot],
         tp' = [tp EXCEPT ![t] = f2], ip' = [ip EXCEPT ![i] = r2], dq' = q2, calls' \in Nat,
         tp[t].pc # "idle" => tp[t].i = i, \A u \in Tasks \ {t} : tp[u].i # i,
         IF f2.pc = "idle" THEN f2 = NoCall ELSE f2.i = i /\ TaskOK(f2, r2),
         LiveOK(r2),
         \A d \in Dquots : Moved(d, dq[d], q2[d], tp[t], f2, ip[i], r2)
  PROVE  TdCorrect'
  <1>1. /\ tp \in [Tasks -> Task] /\ ip \in [Inodes -> Inode] /\ dq \in [Dquots -> Dquot]
        /\ tp' \in [Tasks -> Task] /\ ip' \in [Inodes -> Inode]
        /\ tp'[t] = f2 /\ \A u \in Tasks \ {t} : tp'[u] = tp[u]
        /\ ip'[i] = r2 /\ \A j \in Inodes \ {i} : ip'[j] = ip[j]
    BY DEF TdCorrect, TdBase, TdTypeOK
  <1>2. TdTypeOK'
    BY <1>1 DEF TdTypeOK
  <1>3. (\A j \in Inodes : LiveOK(ip[j]))'
    BY <1>1 DEF TdCorrect, TdBase, LiveOK
  <1>4. 0 \notin Inodes /\ NoCall.i = 0 /\ NoCall.pc = "idle"
    BY TdAssumption DEF NoCall
  <1>5. /\ tp[t].i \in {0, i} /\ f2.i \in {0, i} /\ (tp[t].pc = "chown" => tp[t].i = i) /\ (f2.pc = "chown" => f2.i = i)
        /\ \A u \in Tasks \ {t} : tp[u].pc # "idle" => tp[u].i \in Inodes \ {i}
    BY <1>1, <1>4 DEF TdCorrect, TdBase
  <1>6. ASSUME NEW u \in Tasks
        PROVE  (IF tp[u].pc = "idle" THEN tp[u] = NoCall
                ELSE tp[u].i \in Inodes /\ TaskOK(tp[u], ip[tp[u].i]) /\ Sole(u))'
    <2>1. CASE u = t
      <3>1. f2.pc # "idle" => Sole(t)'
        BY <1>1 DEF Sole
      <3>2. CASE f2.pc = "idle"
        BY <1>1, <2>1, <3>2
      <3>3. CASE f2.pc # "idle"
        <4>1. f2.i = i /\ TaskOK(f2, r2) /\ Sole(t)'
          BY <3>1, <3>3
        <4>2. TaskOK(tp'[t], ip'[tp'[t].i])
          BY <1>1, <4>1
        <4> QED BY <1>1, <2>1, <3>3, <4>1, <4>2
      <3> QED BY <3>2, <3>3
    <2>2. CASE u # t
      <3>1. tp'[u] = tp[u]
        BY <1>1, <2>2
      <3>2. CASE tp[u].pc = "idle"
        BY <3>1, <3>2 DEF TdCorrect, TdBase
      <3>3. CASE tp[u].pc # "idle"
        <4>1. tp[u].i \in Inodes \ {i} /\ TaskOK(tp[u], ip[tp[u].i]) /\ Sole(u)
          BY <1>5, <2>2, <3>3 DEF TdCorrect, TdBase
        <4>2. TaskOK(tp'[u], ip'[tp'[u].i])
          BY <1>1, <3>1, <4>1
        <4>3. Sole(u)'
          BY <1>1, <1>4, <1>5, <3>1, <4>1 DEF Sole
        <4> QED BY <3>1, <3>3, <4>1, <4>2, <4>3
      <3> QED BY <3>2, <3>3
    <2> QED BY <2>1, <2>2
  <1>7. ASSUME NEW d \in Dquots PROVE Balanced(d)'
    <2>1. /\ IsFiniteSet(Tasks) /\ IsFiniteSet(Inodes)
          /\ Balanced(d) /\ Moved(d, dq[d], q2[d], tp[t], f2, ip[i], r2)
      BY TdAssumption DEF TdCorrect
    <2>2. PICK ub, ub2 : ub = [u \in Tasks |-> UsedBy(tp[u], d)] /\ ub2 = [u \in Tasks |-> UsedBy(tp'[u], d)]
      OBVIOUS
    <2>3. PICK ui, ui2 : ui = [u \in Tasks |-> tp[u].qa[d].idelta] /\ ui2 = [u \in Tasks |-> tp'[u].qa[d].idelta]
      OBVIOUS
    <2>4. PICK kb, kb2 : kb = [u \in Tasks |-> KeptBy(tp[u], d)] /\ kb2 = [u \in Tasks |-> KeptBy(tp'[u], d)]
      OBVIOUS
    <2>5. PICK ki, ki2 : ki = [u \in Tasks |-> tp[u].qa[d].ires] /\ ki2 = [u \in Tasks |-> tp'[u].qa[d].ires]
      OBVIOUS
    <2>6. PICK bl, bl2 : bl = [j \in Inodes |-> BlocksIn(ip[j], d)] /\ bl2 = [j \in Inodes |-> BlocksIn(ip'[j], d)]
      OBVIOUS
    <2>7. PICK ct, ct2 : ct = [j \in Inodes |-> CountIn(ip[j], d)] /\ ct2 = [j \in Inodes |-> CountIn(ip'[j], d)]
      OBVIOUS
    <2>8. PICK de, de2 : /\ de = [j \in Inodes |-> DelayedIn(tp, ip[j], j, d)]
                         /\ de2 = [j \in Inodes |-> DelayedIn(tp', ip'[j], j, d)]
      OBVIOUS
    <2>9. ASSUME NEW u \in Tasks
          PROVE  /\ ub[u] \in Int /\ ub2[u] \in Int /\ ui[u] \in Int /\ ui2[u] \in Int
                 /\ kb[u] \in Int /\ kb2[u] \in Int /\ ki[u] \in Int /\ ki2[u] \in Int
                 /\ u # t => ub[u] = ub2[u] /\ ui[u] = ui2[u] /\ kb[u] = kb2[u] /\ ki[u] = ki2[u]
      <3>1. tp[u] \in Task /\ tp'[u] \in Task /\ ip[i] \in Inode
        BY <1>1
      <3>2. /\ UsedBy(tp[u], d) \in Int /\ tp[u].qa[d].idelta \in Int /\ KeptBy(tp[u], d) \in Int
            /\ tp[u].qa[d].ires \in Int
        BY <3>1, PartsAreInts
      <3>3. /\ UsedBy(tp'[u], d) \in Int /\ tp'[u].qa[d].idelta \in Int /\ KeptBy(tp'[u], d) \in Int
            /\ tp'[u].qa[d].ires \in Int
        BY <3>1, PartsAreInts
      <3>4. u # t => tp'[u] = tp[u]
        BY <1>1
      <3> QED BY <2>2, <2>3, <2>4, <2>5, <3>2, <3>3, <3>4
    <2>10. /\ de[i] = DelayedBy(tp[t], ip[i], d)
           /\ de2[i] = DelayedBy(f2, r2, d)
      <3>1. DelayedIn(tp, ip[i], i, d) = DelayedBy(tp[t], ip[i], d)
        BY <1>5, DelayedIs
      <3>2. PICK T, r : T = tp' /\ r = ip'[i]
        OBVIOUS
      <3>3. T[t] = f2 /\ r = r2 /\ \A u \in Tasks \ {t} : T[u].i # i
        BY <1>1, <3>2
      <3>4. T[t].pc = "chown" => T[t].i = i
        BY <1>5, <3>3
      <3>5. DelayedIn(T, r, i, d) = DelayedBy(T[t], r, d)
        BY <3>3, <3>4, DelayedIs
      <3>6. de[i] = DelayedIn(tp, ip[i], i, d)
        BY <2>8
      <3>7. de2[i] = DelayedIn(T, r, i, d)
        BY <2>8, <3>2
      <3> QED BY <3>1, <3>3, <3>5, <3>6, <3>7
    <2>11. ASSUME NEW j \in Inodes
           PROVE  /\ bl[j] \in Int /\ bl2[j] \in Int /\ ct[j] \in Int /\ ct2[j] \in Int
                  /\ de[j] \in Int /\ de2[j] \in Int
                  /\ j # i => bl[j] = bl2[j] /\ ct[j] = ct2[j] /\ de[j] = de2[j]
      <3>1. ip[j] \in Inode /\ ip'[j] \in Inode /\ tp[t] \in Task
        BY <1>1
      <3>2. BlocksIn(ip[j], d) \in Int /\ CountIn(ip[j], d) \in Int
        BY <3>1, PartsAreInts
      <3>3. BlocksIn(ip'[j], d) \in Int /\ CountIn(ip'[j], d) \in Int
        BY <3>1, PartsAreInts
      <3>4. ip[j].del \in Int /\ ip'[j].del \in Int
        BY <3>1 DEF Inode
      <3>5. de[j] \in Int /\ de2[j] \in Int
        BY <2>8, <3>4 DEF DelayedIn
      <3>6. j # i => ip'[j] = ip[j] /\ DelayedIn(tp, ip[j], j, d) = DelayedIn(tp', ip[j], j, d)
        <4>1. PICK T : T = tp'
          OBVIOUS
        <4>2. T[t] = f2 /\ \A u \in Tasks \ {t} : tp[u] = T[u]
          BY <1>1, <4>1
        <4>3. PICK r : r = ip[j]
          OBVIOUS
        <4>4. j # i => tp[t].i # j /\ T[t].i # j
          BY <1>4, <1>5, <4>2
        <4>5. j # i => DelayedIn(tp, r, j, d) = DelayedIn(T, r, j, d)
          BY <4>2, <4>4, DelayedStays
        <4> QED BY <1>1, <4>1, <4>3, <4>5
      <3> QED BY <2>6, <2>7, <2>8, <3>2, <3>3, <3>5, <3>6
    <2>12. /\ UsedBlocks(d) = SumFunctionOnSet(ub, Tasks) /\ UsedBlocks(d)' = SumFunctionOnSet(ub2, Tasks)
           /\ UsedInodes(d) = SumFunctionOnSet(ui, Tasks) /\ UsedInodes(d)' = SumFunctionOnSet(ui2, Tasks)
           /\ KeptBlocks(d) = SumFunctionOnSet(kb, Tasks) /\ KeptBlocks(d)' = SumFunctionOnSet(kb2, Tasks)
           /\ KeptInodes(d) = SumFunctionOnSet(ki, Tasks) /\ KeptInodes(d)' = SumFunctionOnSet(ki2, Tasks)
      BY <2>2, <2>3, <2>4, <2>5 DEF UsedBlocks, UsedInodes, KeptBlocks, KeptInodes
    <2>13. /\ OwnBlocks(d) = SumFunctionOnSet(bl, Inodes) /\ OwnBlocks(d)' = SumFunctionOnSet(bl2, Inodes)
           /\ OwnInodes(d) = SumFunctionOnSet(ct, Inodes) /\ OwnInodes(d)' = SumFunctionOnSet(ct2, Inodes)
           /\ OwnDelayed(d) = SumFunctionOnSet(de, Inodes) /\ OwnDelayed(d)' = SumFunctionOnSet(de2, Inodes)
      BY <2>6, <2>7, <2>8 DEF OwnBlocks, OwnInodes, OwnDelayed
    <2>14. /\ UsedBlocks(d) \in Int /\ UsedBlocks(d)' \in Int /\ UsedBlocks(d)' - UsedBlocks(d) = ub2[t] - ub[t]
           /\ UsedInodes(d) \in Int /\ UsedInodes(d)' \in Int /\ UsedInodes(d)' - UsedInodes(d) = ui2[t] - ui[t]
      BY <2>1, <2>9, <2>12, SumMoves
    <2>15. /\ KeptBlocks(d) \in Int /\ KeptBlocks(d)' \in Int /\ KeptBlocks(d)' - KeptBlocks(d) = kb2[t] - kb[t]
           /\ KeptInodes(d) \in Int /\ KeptInodes(d)' \in Int /\ KeptInodes(d)' - KeptInodes(d) = ki2[t] - ki[t]
      BY <2>1, <2>9, <2>12, SumMoves
    <2>16. /\ OwnBlocks(d) \in Int /\ OwnBlocks(d)' \in Int /\ OwnBlocks(d)' - OwnBlocks(d) = bl2[i] - bl[i]
           /\ OwnInodes(d) \in Int /\ OwnInodes(d)' \in Int /\ OwnInodes(d)' - OwnInodes(d) = ct2[i] - ct[i]
           /\ OwnDelayed(d) \in Int /\ OwnDelayed(d)' \in Int /\ OwnDelayed(d)' - OwnDelayed(d) = de2[i] - de[i]
      BY <2>1, <2>11, <2>13, SumMoves
    <2>17. /\ ub[t] = UsedBy(tp[t], d) /\ ub2[t] = UsedBy(f2, d)
           /\ ui[t] = tp[t].qa[d].idelta /\ ui2[t] = f2.qa[d].idelta
           /\ kb[t] = KeptBy(tp[t], d) /\ kb2[t] = KeptBy(f2, d)
           /\ ki[t] = tp[t].qa[d].ires /\ ki2[t] = f2.qa[d].ires
           /\ bl[i] = BlocksIn(ip[i], d) /\ bl2[i] = BlocksIn(r2, d)
           /\ ct[i] = CountIn(ip[i], d) /\ ct2[i] = CountIn(r2, d)
      BY <1>1, <2>2, <2>3, <2>4, <2>5, <2>6, <2>7
    <2>18. PICK qb \in Int, qi \in Int, qrb \in Int, qri \in Int :
             qb = dq[d].b /\ qi = dq[d].i /\ qrb = dq[d].rb /\ qri = dq[d].ri
      BY <1>1 DEF Dquot
    <2>19. PICK pb \in Int, pi \in Int, prb \in Int, pri \in Int :
             pb = q2[d].b /\ pi = q2[d].i /\ prb = q2[d].rb /\ pri = q2[d].ri
      BY DEF Dquot
    <2>20. PICK mu \in Int, mc \in Int, mk \in Int, mn \in Int :
             mu = ub2[t] - ub[t] /\ mc = ui2[t] - ui[t] /\ mk = kb2[t] - kb[t] /\ mn = ki2[t] - ki[t]
      <3>1. ub2[t] - ub[t] \in Int /\ ui2[t] - ui[t] \in Int
        BY <2>9
      <3>2. kb2[t] - kb[t] \in Int /\ ki2[t] - ki[t] \in Int
        BY <2>9
      <3> QED BY <3>1, <3>2
    <2>21. PICK mb \in Int, mm \in Int, me \in Int :
             mb = bl2[i] - bl[i] /\ mm = ct2[i] - ct[i] /\ me = de2[i] - de[i]
      BY <2>11
    <2>22. /\ (pb - qb) + mu = mb
           /\ (pi - qi) + mc = mm
           /\ (prb - pb) - (qrb - qb) = me + mk
           /\ (pri - pi) - (qri - qi) = mn
      BY <2>1, <2>10, <2>17, <2>18, <2>19, <2>20, <2>21 DEF Moved
    <2>23. PICK u \in Int, u2 \in Int, c \in Int, c2 \in Int :
             u = UsedBlocks(d) /\ u2 = UsedBlocks(d)' /\ c = UsedInodes(d) /\ c2 = UsedInodes(d)'
      BY <2>14
    <2>24. PICK k \in Int, k2 \in Int, n \in Int, n2 \in Int :
             k = KeptBlocks(d) /\ k2 = KeptBlocks(d)' /\ n = KeptInodes(d) /\ n2 = KeptInodes(d)'
      BY <2>15
    <2>25. PICK b \in Int, b2 \in Int, m \in Int, m2 \in Int :
             b = OwnBlocks(d) /\ b2 = OwnBlocks(d)' /\ m = OwnInodes(d) /\ m2 = OwnInodes(d)'
      BY <2>16
    <2>26. PICK e \in Int, e2 \in Int : e = OwnDelayed(d) /\ e2 = OwnDelayed(d)'
      BY <2>16
    <2>27. /\ u \in Int /\ u2 \in Int /\ u2 - u = mu
           /\ c \in Int /\ c2 \in Int /\ c2 - c = mc
           /\ k \in Int /\ k2 \in Int /\ k2 - k = mk
           /\ n \in Int /\ n2 \in Int /\ n2 - n = mn
      BY <2>14, <2>15, <2>20, <2>23, <2>24
    <2>28. /\ b \in Int /\ b2 \in Int /\ b2 - b = mb
           /\ m \in Int /\ m2 \in Int /\ m2 - m = mm
           /\ e \in Int /\ e2 \in Int /\ e2 - e = me
      BY <2>16, <2>21, <2>25, <2>26
    <2>29. qb + u = b /\ qi + c = m /\ qrb - qb = e + k /\ qri - qi = n
      BY <2>1, <2>18, <2>23, <2>24, <2>25, <2>26 DEF Balanced
    <2>30. pb + u2 = b2 /\ pi + c2 = m2
      <3>1. pb + u2 = b2
        <4>1. pb \in Int /\ qb \in Int /\ u \in Int /\ u2 \in Int /\ b \in Int /\ b2 \in Int /\ mu \in Int /\ mb \in Int
          BY <2>18, <2>19, <2>20, <2>21, <2>27, <2>28
        <4>2. (pb - qb) + mu = mb /\ u2 - u = mu /\ b2 - b = mb /\ qb + u = b
          BY <2>22, <2>27, <2>28, <2>29
        <4> QED BY <4>1, <4>2
      <3>2. pi + c2 = m2
        <4>1. pi \in Int /\ qi \in Int /\ c \in Int /\ c2 \in Int /\ m \in Int /\ m2 \in Int /\ mc \in Int /\ mm \in Int
          BY <2>18, <2>19, <2>20, <2>21, <2>27, <2>28
        <4>2. (pi - qi) + mc = mm /\ c2 - c = mc /\ m2 - m = mm /\ qi + c = m
          BY <2>22, <2>27, <2>28, <2>29
        <4> QED BY <4>1, <4>2
      <3> QED BY <3>1, <3>2
    <2>31. prb - pb = e2 + k2 /\ pri - pi = n2
      <3>1. prb - pb = e2 + k2
        <4>1. PICK x \in Int, y \in Int : x = prb - pb /\ y = qrb - qb
          BY <2>18, <2>19
        <4>2. /\ x \in Int /\ y \in Int /\ e \in Int /\ e2 \in Int /\ k \in Int /\ k2 \in Int
              /\ me \in Int /\ mk \in Int
          BY <2>20, <2>21, <2>27, <2>28, <4>1
        <4>3. x - y = me + mk /\ e2 - e = me /\ k2 - k = mk /\ y = e + k
          BY <2>22, <2>27, <2>28, <2>29, <4>1
        <4>4. x = e2 + k2
          BY <4>2, <4>3
        <4> QED BY <4>1, <4>4
      <3>2. pri - pi = n2
        <4>1. pri \in Int /\ qri \in Int /\ pi \in Int /\ qi \in Int /\ n \in Int /\ n2 \in Int /\ mn \in Int
          BY <2>18, <2>19, <2>20, <2>21, <2>27, <2>28
        <4>2. (pri - pi) - (qri - qi) = mn /\ n2 - n = mn /\ qri - qi = n
          BY <2>22, <2>27, <2>28, <2>29
        <4> QED BY <4>1, <4>2
      <3> QED BY <3>1, <3>2
    <2>32. pb + UsedBlocks(d)' = OwnBlocks(d)' /\ pi + UsedInodes(d)' = OwnInodes(d)'
      BY <2>23, <2>25, <2>30
    <2>33. prb - pb = OwnDelayed(d)' + KeptBlocks(d)' /\ pri - pi = KeptInodes(d)'
      BY <2>24, <2>26, <2>31
    <2>34. q2[d].timer # "off" <=> Over(d, q2[d].b)
      BY <2>1 DEF Moved
    <2> QED BY <2>19, <2>32, <2>33, <2>34 DEF Balanced, Over
  <1> QED BY <1>2, <1>3, <1>6, <1>7 DEF TdCorrect, TdBase

----------------------------------------------------------------------------
(* What the functions on a dquot and on a t_dqinfo do to the counts.       *)

LEMMA TrxIs ==
  /\ NoTrx \in Trx /\ TrxOK(NoTrx) /\ Fresh(NoTrx) /\ HasRes(NoTrx, 0, 0)
  /\ NoTrx.res = 0 /\ NoTrx.used = 0 /\ NoTrx.delta = 0 /\ NoTrx.del = 0
  /\ NoTrx.ires = 0 /\ NoTrx.iused = 0 /\ NoTrx.idelta = 0
  BY DEF NoTrx, Trx, TrxOK, Fresh, HasRes

LEMMA ResvDoes ==
  ASSUME NEW q \in Dquot, NEW n \in Int, NEW k \in Int
  PROVE  /\ Resv(q, n, k) \in Dquot
         /\ Resv(q, n, k).b = q.b /\ Resv(q, n, k).i = q.i /\ Resv(q, n, k).timer = q.timer
         /\ Resv(q, n, k).rb = q.rb + n /\ Resv(q, n, k).ri = q.ri + k
  <1>1. q.rb \in Int /\ q.ri \in Int
    BY DEF Dquot
  <1>2. PICK x \in Int, y \in Int : x = q.rb + n /\ y = q.ri + k
    BY <1>1
  <1>3. Resv(q, n, k) = [q EXCEPT !.rb = x, !.ri = y]
    BY <1>2 DEF Resv
  <1>4. /\ [q EXCEPT !.rb = x, !.ri = y] \in Dquot
        /\ [q EXCEPT !.rb = x, !.ri = y].b = q.b /\ [q EXCEPT !.rb = x, !.ri = y].i = q.i
        /\ [q EXCEPT !.rb = x, !.ri = y].timer = q.timer
        /\ [q EXCEPT !.rb = x, !.ri = y].rb = x /\ [q EXCEPT !.rb = x, !.ri = y].ri = y
    BY <1>2 DEF Dquot
  <1> QED BY <1>2, <1>3, <1>4

LEMMA ResvTrxDoes ==
  ASSUME NEW x \in Trx, NEW n \in Int, NEW k \in Int
  PROVE  /\ ResvTrx(x, n, k) \in Trx
         /\ ResvTrx(x, n, k).used = x.used /\ ResvTrx(x, n, k).delta = x.delta /\ ResvTrx(x, n, k).del = x.del
         /\ ResvTrx(x, n, k).iused = x.iused /\ ResvTrx(x, n, k).idelta = x.idelta
         /\ ResvTrx(x, n, k).res = x.res + n /\ ResvTrx(x, n, k).ires = x.ires + k
  <1>1. x.res \in Int /\ x.ires \in Int
    BY DEF Trx
  <1>2. PICK y \in Int, z \in Int : y = x.res + n /\ z = x.ires + k
    BY <1>1
  <1>3. PICK x2 : x2 = ResvTrx(x, n, k)
    OBVIOUS
  <1>4. x2 = [x EXCEPT !.res = y, !.ires = z]
    BY <1>2, <1>3 DEF ResvTrx
  <1>5. /\ x2 \in Trx /\ x2.used = x.used /\ x2.delta = x.delta /\ x2.del = x.del
        /\ x2.iused = x.iused /\ x2.idelta = x.idelta /\ x2.res = y /\ x2.ires = z
    BY <1>2, <1>4 DEF Trx
  <1> QED BY <1>2, <1>3, <1>5

LEMMA ResvNone ==
  /\ \A x \in Trx : ResvTrx(x, 0, 0) = x
  /\ \A q \in Dquot : Resv(q, 0, 0) = q
  <1>1. ASSUME NEW x \in Trx PROVE ResvTrx(x, 0, 0) = x
    <2>1. x.res + 0 = x.res /\ x.ires + 0 = x.ires
      BY DEF Trx
    <2>2. [x EXCEPT !.res = x.res, !.ires = x.ires] = x
      BY DEF Trx
    <2> QED BY <2>1, <2>2 DEF ResvTrx
  <1>2. ASSUME NEW q \in Dquot PROVE Resv(q, 0, 0) = q
    <2>1. q.rb + 0 = q.rb /\ q.ri + 0 = q.ri
      BY DEF Dquot
    <2>2. [q EXCEPT !.rb = q.rb, !.ri = q.ri] = q
      BY DEF Dquot
    <2> QED BY <2>1, <2>2 DEF Resv
  <1> QED BY <1>1, <1>2

\* Reservations, in a transaction or without one
LEMMA ReserveMoves ==
  ASSUME NEW d \in Dquots, NEW q \in Dquot, NEW f \in Task, NEW f2 \in Task, NEW r \in Inode, NEW r2 \in Inode,
         NEW w \in Int, NEW n \in Int, NEW k \in Int,
         q.timer # "off" <=> Over(d, q.b),
         f2.qa[d] = ResvTrx(f.qa[d], n, k),
         w = n + ((Held(f2, d) - Held(f, d)) + (DelayedBy(f2, r2, d) - DelayedBy(f, r, d))),
         BlocksIn(r2, d) = BlocksIn(r, d), CountIn(r2, d) = CountIn(r, d)
  PROVE  Moved(d, q, Resv(q, w, k), f, f2, r, r2)
  <1>1. f.qa[d] \in Trx
    BY DEF Task
  <1>2. PICK q2 : q2 = Resv(q, w, k)
    OBVIOUS
  <1>3. PICK x, x2 : x = f.qa[d] /\ x2 = f2.qa[d]
    OBVIOUS
  <1>4. q2.b = q.b /\ q2.i = q.i /\ q2.timer = q.timer /\ q2.rb = q.rb + w /\ q2.ri = q.ri + k
    BY <1>2, ResvDoes
  <1>5. /\ x2.delta = x.delta /\ x2.del = x.del /\ x2.idelta = x.idelta
        /\ x2.res = x.res + n /\ x2.ires = x.ires + k
    BY <1>1, <1>3, ResvTrxDoes
  <1>6. PICK b \in Int, i \in Int, rb \in Int, ri \in Int :
          b = q.b /\ i = q.i /\ rb = q.rb /\ ri = q.ri
    BY DEF Dquot
  <1>7. PICK res \in Int, delta \in Int, del \in Int, ires \in Int, idelta \in Int :
          /\ res = x.res /\ delta = x.delta /\ del = x.del /\ ires = x.ires /\ idelta = x.idelta
    BY <1>1, <1>3 DEF Trx
  <1>8. PICK h \in Int, h2 \in Int, e \in Int, e2 \in Int :
          h = Held(f, d) /\ h2 = Held(f2, d) /\ e = DelayedBy(f, r, d) /\ e2 = DelayedBy(f2, r2, d)
    BY PartsAreInts
  <1>9. PICK l \in Int, c \in Int : l = BlocksIn(r, d) /\ c = CountIn(r, d)
    BY PartsAreInts
  <1>10. (q2.b - q.b) + (UsedBy(f2, d) - UsedBy(f, d)) = BlocksIn(r2, d) - BlocksIn(r, d)
    <2>1. (b - b) + ((delta + del) - (delta + del)) = l - l
      BY <1>6, <1>7, <1>9
    <2> QED BY <1>3, <1>4, <1>5, <1>6, <1>7, <1>9, <2>1 DEF UsedBy
  <1>11. (q2.i - q.i) + (f2.qa[d].idelta - f.qa[d].idelta) = CountIn(r2, d) - CountIn(r, d)
    <2>1. (i - i) + (idelta - idelta) = c - c
      BY <1>6, <1>7, <1>9
    <2> QED BY <1>3, <1>4, <1>5, <1>6, <1>7, <1>9, <2>1
  <1>12. (q2.rb - q2.b) - (q.rb - q.b) = (DelayedBy(f2, r2, d) - DelayedBy(f, r, d)) + (KeptBy(f2, d) - KeptBy(f, d))
    <2>1. w = n + ((h2 - h) + (e2 - e))
      BY <1>8
    <2>2. ((rb + w) - b) - (rb - b) = (e2 - e) + (((res + n) + del + h2) - (res + del + h))
      BY <1>6, <1>7, <1>8, <2>1
    <2>3. KeptBy(f2, d) = (res + n) + del + h2 /\ KeptBy(f, d) = res + del + h
      BY <1>3, <1>5, <1>7, <1>8 DEF KeptBy
    <2> QED BY <1>4, <1>6, <1>8, <2>2, <2>3
  <1>13. (q2.ri - q2.i) - (q.ri - q.i) = f2.qa[d].ires - f.qa[d].ires
    <2>1. ((ri + k) - i) - (ri - i) = (ires + k) - ires
      BY <1>6, <1>7
    <2> QED BY <1>3, <1>4, <1>5, <1>6, <1>7, <2>1
  <1>14. q2.timer # "off" <=> Over(d, q2.b)
    BY <1>4
  <1> QED BY <1>2, <1>10, <1>11, <1>12, <1>13, <1>14 DEF Moved

\* Blocks and inodes that a transaction takes or gives up
LEMMA ModMoves ==
  ASSUME NEW d \in Dquots, NEW q \in Dquot, NEW f \in Task, NEW f2 \in Task, NEW r \in Inode, NEW r2 \in Inode,
         q.timer # "off" <=> Over(d, q.b),
         f2.qa[d].res = f.qa[d].res, f2.qa[d].ires = f.qa[d].ires, Held(f2, d) = Held(f, d),
         (f2.qa[d].delta - f.qa[d].delta) + (f2.qa[d].del - f.qa[d].del) = BlocksIn(r2, d) - BlocksIn(r, d),
         f2.qa[d].del - f.qa[d].del = DelayedBy(f, r, d) - DelayedBy(f2, r2, d),
         f2.qa[d].idelta - f.qa[d].idelta = CountIn(r2, d) - CountIn(r, d)
  PROVE  Moved(d, q, q, f, f2, r, r2)
  <1>1. f.qa[d] \in Trx /\ f2.qa[d] \in Trx
    BY DEF Task
  <1>2. PICK b \in Int, i \in Int, rb \in Int, ri \in Int :
          b = q.b /\ i = q.i /\ rb = q.rb /\ ri = q.ri
    BY DEF Dquot
  <1>3. PICK x, x2 : x = f.qa[d] /\ x2 = f2.qa[d]
    OBVIOUS
  <1>4. PICK res \in Int, delta \in Int, del \in Int, ires \in Int, delta2 \in Int, del2 \in Int :
          /\ res = x.res /\ delta = x.delta /\ del = x.del /\ ires = x.ires
          /\ delta2 = x2.delta /\ del2 = x2.del
    BY <1>1, <1>3 DEF Trx
  <1>5. PICK h \in Int, e \in Int, e2 \in Int, l \in Int, l2 \in Int :
          /\ h = Held(f, d) /\ e = DelayedBy(f, r, d) /\ e2 = DelayedBy(f2, r2, d)
          /\ l = BlocksIn(r, d) /\ l2 = BlocksIn(r2, d)
    BY PartsAreInts
  <1>6. (q.b - q.b) + (UsedBy(f2, d) - UsedBy(f, d)) = BlocksIn(r2, d) - BlocksIn(r, d)
    <2>1. (delta2 - delta) + (del2 - del) = l2 - l
      BY <1>3, <1>4, <1>5
    <2>2. (b - b) + ((delta2 + del2) - (delta + del)) = l2 - l
      BY <1>2, <1>4, <1>5, <2>1
    <2> QED BY <1>2, <1>3, <1>4, <1>5, <2>2 DEF UsedBy
  <1>7. (q.i - q.i) + (f2.qa[d].idelta - f.qa[d].idelta) = CountIn(r2, d) - CountIn(r, d)
    <2>1. PICK c \in Int, c2 \in Int : c = f.qa[d].idelta /\ c2 = f2.qa[d].idelta
      BY <1>1 DEF Trx
    <2>2. (i - i) + (c2 - c) = c2 - c
      BY <1>2, <2>1
    <2> QED BY <1>2, <2>1, <2>2
  <1>8. (q.rb - q.b) - (q.rb - q.b) = (DelayedBy(f2, r2, d) - DelayedBy(f, r, d)) + (KeptBy(f2, d) - KeptBy(f, d))
    <2>1. del2 - del = e - e2
      BY <1>3, <1>4, <1>5
    <2>2. (rb - b) - (rb - b) = (e2 - e) + ((res + del2 + h) - (res + del + h))
      BY <1>2, <1>4, <1>5, <2>1
    <2>3. KeptBy(f2, d) = res + del2 + h /\ KeptBy(f, d) = res + del + h
      BY <1>3, <1>4, <1>5 DEF KeptBy
    <2> QED BY <1>2, <1>5, <2>2, <2>3
  <1>9. (q.ri - q.i) - (q.ri - q.i) = f2.qa[d].ires - f.qa[d].ires
    <2>1. (ri - i) - (ri - i) = ires - ires
      BY <1>2, <1>4
    <2> QED BY <1>2, <1>3, <1>4, <2>1
  <1> QED BY <1>6, <1>7, <1>8, <1>9 DEF Moved

LEMMA AdjustIs ==
  ASSUME NEW res \in Int, NEW taken \in Int, NEW delta \in Int, taken <= res, res # 0 => delta = taken
  PROVE  Adjust(res, taken, delta) = delta - res /\ Adjust(res, taken, delta) \in Int
  BY DEF Adjust

LEMMA AppliedIs ==
  ASSUME NEW d \in Dquots, NEW q, q = dq[d], q \in Dquot, NEW y \in Trx, TrxOK(y), NEW q2, q2 = Applied(d, y)
  PROVE  /\ q2 \in Dquot
         /\ q2.b = q.b + y.delta + y.del /\ q2.i = q.i + y.idelta
         /\ q2.rb = q.rb + (y.delta - y.res) /\ q2.ri = q.ri + (y.idelta - y.ires)
         /\ q2.timer # "off" <=> Over(d, q2.b)
  <1>1. PICK a \in Int, c \in Int :
          /\ a = Adjust(y.res, y.used, y.delta) /\ c = Adjust(y.ires, y.iused, y.idelta)
          /\ a = y.delta - y.res /\ c = y.idelta - y.ires
    <2>1. /\ y.res \in Int /\ y.used \in Int /\ y.delta \in Int /\ y.ires \in Int /\ y.iused \in Int /\ y.idelta \in Int
          /\ y.used <= y.res /\ (y.res # 0 => y.delta = y.used)
          /\ y.iused <= y.ires /\ (y.ires # 0 => y.idelta = y.iused)
      BY DEF Trx, TrxOK
    <2>2. Adjust(y.res, y.used, y.delta) = y.delta - y.res /\ Adjust(y.res, y.used, y.delta) \in Int
      BY <2>1, AdjustIs
    <2>3. Adjust(y.ires, y.iused, y.idelta) = y.idelta - y.ires /\ Adjust(y.ires, y.iused, y.idelta) \in Int
      BY <2>1, AdjustIs
    <2> QED BY <2>2, <2>3
  <1>2. PICK b2 \in Int, i2 \in Int, rb2 \in Int, ri2 \in Int :
          b2 = q.b + y.delta + y.del /\ i2 = q.i + y.idelta /\ rb2 = q.rb + a /\ ri2 = q.ri + c
    <2>1. q.b \in Int /\ q.i \in Int /\ q.rb \in Int /\ q.ri \in Int
      BY DEF Dquot
    <2>2. y.delta \in Int /\ y.del \in Int /\ y.idelta \in Int
      BY DEF Trx
    <2>3. q.b + y.delta + y.del \in Int /\ q.i + y.idelta \in Int /\ q.rb + a \in Int /\ q.ri + c \in Int
      BY <2>1, <2>2
    <2> QED BY <2>3
  <1>3. PICK tm : tm = Timer(d, b2, q.timer) /\ tm \in {"off", "on", "expired"} /\ (tm # "off" <=> Over(d, b2))
    BY DEF Timer, Dquot
  <1>4. q2 = [q EXCEPT !.b = b2, !.i = i2, !.timer = tm, !.rb = rb2, !.ri = ri2]
    BY <1>1, <1>2, <1>3 DEF Applied
  <1>5. q2 \in Dquot /\ q2.b = b2 /\ q2.i = i2 /\ q2.timer = tm /\ q2.rb = rb2 /\ q2.ri = ri2
    BY <1>2, <1>3, <1>4 DEF Dquot
  <1> QED BY <1>1, <1>2, <1>3, <1>5

\* The end of a transaction, or of the first part of it
LEMMA ApplyMoves ==
  ASSUME NEW d \in Dquots, dq[d] \in Dquot, NEW f \in Task, NEW f2 \in Task, NEW r \in Inode, NEW y \in Trx, TrxOK(y),
         f.qa[d].res = y.res + f2.qa[d].res, f.qa[d].ires = y.ires + f2.qa[d].ires,
         f.qa[d].delta = y.delta, f.qa[d].del = y.del, f.qa[d].idelta = y.idelta,
         f2.qa[d].delta = 0, f2.qa[d].del = 0, f2.qa[d].idelta = 0,
         Held(f, d) = 0, Held(f2, d) = 0, DelayedBy(f2, r, d) = DelayedBy(f, r, d)
  PROVE  Applied(d, y) \in Dquot /\ Moved(d, dq[d], Applied(d, y), f, f2, r, r)
  <1>1. PICK q, q2 : q = dq[d] /\ q2 = Applied(d, y)
    OBVIOUS
  <1>2. /\ q2 \in Dquot
        /\ q2.b = q.b + y.delta + y.del /\ q2.i = q.i + y.idelta
        /\ q2.rb = q.rb + (y.delta - y.res) /\ q2.ri = q.ri + (y.idelta - y.ires)
        /\ q2.timer # "off" <=> Over(d, q2.b)
    BY <1>1, AppliedIs
  <1>3. PICK b \in Int, i \in Int, rb \in Int, ri \in Int :
          b = q.b /\ i = q.i /\ rb = q.rb /\ ri = q.ri
    BY <1>1 DEF Dquot
  <1>4. PICK res \in Int, delta \in Int, del \in Int, ires \in Int, idelta \in Int :
          /\ res = y.res /\ delta = y.delta /\ del = y.del /\ ires = y.ires /\ idelta = y.idelta
    BY DEF Trx
  <1>5. PICK res2 \in Int, ires2 \in Int : res2 = f2.qa[d].res /\ ires2 = f2.qa[d].ires
    BY DEF Task, Trx
  <1>6. PICK l \in Int, c \in Int, e \in Int :
          l = BlocksIn(r, d) /\ c = CountIn(r, d) /\ e = DelayedBy(f, r, d)
    BY PartsAreInts
  <1>7. (q2.b - q.b) + (UsedBy(f2, d) - UsedBy(f, d)) = BlocksIn(r, d) - BlocksIn(r, d)
    <2>1. ((b + delta + del) - b) + ((0 + 0) - (delta + del)) = l - l
      BY <1>3, <1>4, <1>6
    <2> QED BY <1>2, <1>3, <1>4, <1>6, <2>1 DEF UsedBy
  <1>8. (q2.i - q.i) + (f2.qa[d].idelta - f.qa[d].idelta) = CountIn(r, d) - CountIn(r, d)
    <2>1. ((i + idelta) - i) + (0 - idelta) = c - c
      BY <1>3, <1>4, <1>6
    <2> QED BY <1>2, <1>3, <1>4, <1>6, <2>1
  <1>9. (q2.rb - q2.b) - (q.rb - q.b) = (DelayedBy(f2, r, d) - DelayedBy(f, r, d)) + (KeptBy(f2, d) - KeptBy(f, d))
    <2>1. ((rb + (delta - res)) - (b + delta + del)) - (rb - b) = (e - e) + ((res2 + 0 + 0) - ((res + res2) + del + 0))
      OBVIOUS
    <2>2. KeptBy(f2, d) = res2 + 0 + 0 /\ KeptBy(f, d) = (res + res2) + del + 0
      BY <1>4, <1>5 DEF KeptBy
    <2>3. q2.rb = rb + (delta - res) /\ q2.b = b + delta + del /\ q.rb = rb /\ q.b = b
      BY <1>2, <1>3, <1>4
    <2>4. DelayedBy(f2, r, d) = e /\ DelayedBy(f, r, d) = e
      BY <1>6
    <2> QED BY <2>1, <2>2, <2>3, <2>4
  <1>10. (q2.ri - q2.i) - (q.ri - q.i) = f2.qa[d].ires - f.qa[d].ires
    <2>1. ((ri + (idelta - ires)) - (i + idelta)) - (ri - i) = ires2 - (ires + ires2)
      BY <1>3, <1>4, <1>5
    <2> QED BY <1>2, <1>3, <1>4, <1>5, <2>1
  <1> QED BY <1>1, <1>2, <1>7, <1>8, <1>9, <1>10 DEF Moved

----------------------------------------------------------------------------
(* Reservations.                                                           *)

LEMMA AtWork ==
  ASSUME TdCorrect, NEW t \in Tasks, tp[t].pc # "idle"
  PROVE  /\ tp[t].i \in Inodes /\ tp[t] \in Task /\ ip[tp[t].i] \in Inode
         /\ \A u \in Tasks \ {t} : tp[u].i # tp[t].i
         /\ TaskOK(tp[t], ip[tp[t].i]) /\ LiveOK(ip[tp[t].i])
  <1>1. tp[t].i \in Inodes /\ TaskOK(tp[t], ip[tp[t].i]) /\ Sole(t)
    BY DEF TdCorrect, TdBase
  <1> QED BY <1>1 DEF TdCorrect, TdBase, TdTypeOK, Sole

LEMMA DquotIs ==
  ASSUME TdCorrect
  PROVE  /\ dq \in [Dquots -> Dquot]
         /\ \A d \in Dquots : dq[d] \in Dquot /\ (dq[d].timer # "off" <=> Over(d, dq[d].b))
  BY DEF TdCorrect, TdBase, TdTypeOK, Balanced

\* What f reserves or gives back of dquot d in a step, with its transaction or without
ReservedBy(d, q, q2, f, f2, r, r2) ==
  \E w \in Int, n \in Int, k \in Int :
    /\ q2 = Resv(q, w, k) /\ f2.qa[d] = ResvTrx(f.qa[d], n, k)
    /\ w = n + ((Held(f2, d) - Held(f, d)) + (DelayedBy(f2, r2, d) - DelayedBy(f, r, d)))

LEMMA ReservedAlike ==
  ASSUME NEW d \in Dquots, NEW q, NEW q2, NEW f \in Task, NEW f2 \in Task, NEW r \in Inode, NEW r2 \in Inode,
         NEW n \in Int, NEW k \in Int, q2 = Resv(q, n, k), f2.qa[d] = ResvTrx(f.qa[d], n, k),
         Held(f2, d) = Held(f, d), DelayedBy(f2, r2, d) = DelayedBy(f, r, d)
  PROVE  ReservedBy(d, q, q2, f, f2, r, r2)
  <1>1. PICK h \in Int, e \in Int : h = Held(f, d) /\ e = DelayedBy(f, r, d)
    BY PartsAreInts
  <1>2. n = n + ((h - h) + (e - e))
    BY <1>1
  <1>3. n = n + ((Held(f2, d) - Held(f, d)) + (DelayedBy(f2, r2, d) - DelayedBy(f, r, d)))
    BY <1>1, <1>2
  <1> QED BY <1>3 DEF ReservedBy

LEMMA ReservedNone ==
  ASSUME NEW d \in Dquots, NEW q \in Dquot, NEW f \in Task, NEW f2 \in Task, NEW r \in Inode, NEW r2 \in Inode,
         f2.qa[d] = f.qa[d], Held(f2, d) = Held(f, d), DelayedBy(f2, r2, d) = DelayedBy(f, r, d)
  PROVE  ReservedBy(d, q, q, f, f2, r, r2)
  <1>1. f.qa[d] \in Trx
    BY DEF Task
  <1>2. PICK z \in Int : z = 0
    OBVIOUS
  <1>3. q = Resv(q, z, z) /\ f2.qa[d] = ResvTrx(f.qa[d], z, z)
    BY <1>1, <1>2, ResvNone
  <1> QED BY <1>3, ReservedAlike

LEMMA ReservedApart ==
  ASSUME NEW d \in Dquots, NEW q, NEW q2, NEW f \in Task, NEW f2 \in Task, NEW r \in Inode, NEW r2 \in Inode,
         NEW w \in Int, q2 = Resv(q, w, 0), f2.qa[d] = f.qa[d],
         w = (Held(f2, d) - Held(f, d)) + (DelayedBy(f2, r2, d) - DelayedBy(f, r, d))
  PROVE  ReservedBy(d, q, q2, f, f2, r, r2)
  <1>1. f.qa[d] \in Trx
    BY DEF Task
  <1>2. PICK z \in Int : z = 0
    OBVIOUS
  <1>3. q2 = Resv(q, w, z) /\ f2.qa[d] = ResvTrx(f.qa[d], z, z)
    BY <1>1, <1>2, ResvNone
  <1>4. w = z + w
    BY <1>2
  <1>5. w = z + ((Held(f2, d) - Held(f, d)) + (DelayedBy(f2, r2, d) - DelayedBy(f, r, d)))
    BY <1>4
  <1> QED BY <1>3, <1>5 DEF ReservedBy

LEMMA ReservationKeeps ==
  ASSUME TdCorrect, NEW t \in Tasks, NEW i \in Inodes,
         NEW f2 \in Task, NEW r2 \in Inode, NEW q2 \in [Dquots -> Dquot],
         tp' = [tp EXCEPT ![t] = f2], ip' = [ip EXCEPT ![i] = r2], dq' = q2, calls' \in Nat,
         tp[t].pc # "idle" => tp[t].i = i, \A u \in Tasks \ {t} : tp[u].i # i,
         IF f2.pc = "idle" THEN f2 = NoCall ELSE f2.i = i /\ TaskOK(f2, r2),
         LiveOK(r2),
         \A d \in Dquots : BlocksIn(r2, d) = BlocksIn(ip[i], d) /\ CountIn(r2, d) = CountIn(ip[i], d),
         \A d \in Dquots : ReservedBy(d, dq[d], q2[d], tp[t], f2, ip[i], r2)
  PROVE  TdCorrect'
  <1>1. ASSUME NEW d \in Dquots PROVE Moved(d, dq[d], q2[d], tp[t], f2, ip[i], r2)
    <2>1. PICK q, f, r : q = dq[d] /\ f = tp[t] /\ r = ip[i]
      OBVIOUS
    <2>2. q \in Dquot /\ f \in Task /\ r \in Inode /\ (q.timer # "off" <=> Over(d, q.b))
      BY <2>1, DquotIs DEF TdCorrect, TdBase, TdTypeOK
    <2>3. PICK w \in Int, n \in Int, k \in Int :
            /\ q2[d] = Resv(q, w, k) /\ f2.qa[d] = ResvTrx(f.qa[d], n, k)
            /\ w = n + ((Held(f2, d) - Held(f, d)) + (DelayedBy(f2, r2, d) - DelayedBy(f, r, d)))
      BY <2>1 DEF ReservedBy
    <2>4. BlocksIn(r2, d) = BlocksIn(r, d) /\ CountIn(r2, d) = CountIn(r, d)
      BY <2>1
    <2>5. Moved(d, q, Resv(q, w, k), f, f2, r, r2)
      BY <2>2, <2>3, <2>4, ReserveMoves
    <2> QED BY <2>1, <2>3, <2>5
  <1> QED BY <1>1, StepKeeps

\* What is fresh is in order, as long as nothing was given back that was not there.
LEMMA FreshParts ==
  ASSUME NEW f \in Task, NEW r \in Inode,
         \A d \in Dquots : Fresh(f.qa[d]) /\ f.qa[d].res >= 0 /\ f.qa[d].ires >= 0
  PROVE  PartsOK(f, r)
  <1>1. r.nblocks \in Nat
    BY DEF Inode
  <1>2. ASSUME NEW d \in Dquots PROVE TrxOK(f.qa[d])
    <2>1. PICK x : x = f.qa[d]
      OBVIOUS
    <2>2. x \in Trx /\ Fresh(x) /\ x.res >= 0 /\ x.ires >= 0
      BY <2>1 DEF Task
    <2>3. TrxOK(x)
      BY <2>2 DEF Trx, Fresh, TrxOK
    <2> QED BY <2>1, <2>3
  <1> QED BY <1>1, <1>2 DEF PartsOK, Fresh

LEMMA HasResIs ==
  ASSUME NEW x \in Trx, Fresh(x), NEW a \in Int, NEW b \in Int, HasRes(x, a, b), NEW n \in Int, NEW k \in Int
  PROVE  /\ Fresh(ResvTrx(x, n, k)) /\ HasRes(ResvTrx(x, n, k), a + n, b + k)
  BY ResvTrxDoes DEF Fresh, HasRes

\* A step of a call that only reserves or gives back, the inode as it was
LEMMA CallKeeps ==
  ASSUME TdCorrect, NEW t \in Tasks, NEW f, f = tp[t], f.pc # "idle", NEW r, r = ip[f.i],
         NEW f2 \in Task, NEW q2 \in [Dquots -> Dquot],
         tp' = [tp EXCEPT ![t] = f2], dq' = q2, UNCHANGED <<ip, calls>>,
         f2.pc # "idle", f2.i = f.i, PlaceOK(f2, r), ReservedOK(f2, r),
         \A d \in Dquots : Fresh(f2.qa[d]) /\ f2.qa[d].res >= 0 /\ f2.qa[d].ires >= 0,
         \A d \in Dquots : ReservedBy(d, dq[d], q2[d], f, f2, r, r)
  PROVE  TdCorrect'
  <1>1. /\ f.i \in Inodes /\ r \in Inode /\ LiveOK(r)
        /\ \A u \in Tasks \ {t} : tp[u].i # f.i
    BY AtWork
  <1>2. PartsOK(f2, r)
    BY <1>1, FreshParts
  <1>3. TaskOK(f2, r)
    BY <1>2 DEF TaskOK
  <1>4. ip' = [ip EXCEPT ![f.i] = r] /\ calls' \in Nat
    BY <1>1 DEF TdCorrect, TdBase, TdTypeOK
  <1> QED BY <1>1, <1>3, <1>4, ReservationKeeps

\* Before a call holds anything its transaction is as it was when it began, or holds a reservation.
LEMMA FreshIs ==
  ASSUME NEW f \in Task, NEW r \in Inode, TaskOK(f, r), f.pc \notin {"open", "noresv"}
  PROVE  \A d \in Dquots : f.qa[d] \in Trx /\ Fresh(f.qa[d]) /\ f.qa[d].res >= 0 /\ f.qa[d].ires >= 0
  <1>1. ASSUME NEW d \in Dquots
        PROVE  f.qa[d] \in Trx /\ Fresh(f.qa[d]) /\ f.qa[d].res >= 0 /\ f.qa[d].ires >= 0
    <2>1. PICK x \in Trx : x = f.qa[d]
      BY DEF Task
    <2>2. TrxOK(x) /\ Fresh(x)
      BY <2>1 DEF TaskOK, PartsOK
    <2>3. x.res >= 0 /\ x.ires >= 0
      BY <2>2 DEF TrxOK, Fresh, Trx
    <2> QED BY <2>1, <2>2, <2>3
  <1> QED BY <1>1

\* The owners of a call are dquots, the user and the group distinct, or 0 for none.
LEMMA OwnersAre ==
  /\ 0 \notin Dquots /\ Uids \cap Gids = {}
  /\ \A f \in Task : (f.u # 0 => f.u \in Dquots) /\ (f.g # 0 => f.g \in Dquots) /\ (f.u = f.g => f.u = 0)
  /\ \A r \in Inode : r.u \in Dquots /\ r.g \in Dquots /\ r.u # r.g
  BY TdAssumption DEF Dquots, Task, Inode

LEMMA ResUserKeeps ==
  ASSUME TdCorrect, NEW t \in Tasks, ResUser(t)
  PROVE  TdCorrect'
  <1>1. PICK f, r : f = tp[t] /\ r = ip[f.i]
    OBVIOUS
  <1>2. f.pc = "res_user" /\ UNCHANGED <<ip, calls>>
    BY <1>1 DEF ResUser
  <1>3. f \in Task /\ r \in Inode /\ TaskOK(f, r) /\ PlaceOK(f, r) /\ ReservedOK(f, r)
    BY <1>1, <1>2, AtWork DEF TaskOK
  <1>4. \A d \in Dquots : f.qa[d] \in Trx /\ Fresh(f.qa[d]) /\ f.qa[d].res >= 0 /\ f.qa[d].ires >= 0
    BY <1>2, <1>3, FreshIs
  <1>5. tp \in [Tasks -> Task] /\ dq \in [Dquots -> Dquot] /\ \A d \in Dquots : dq[d] \in Dquot
    BY DquotIs DEF TdCorrect, TdBase, TdTypeOK
  <1>6. CASE f.u = 0 \/ Refused(f.u, f.n, f.k)
    <2>1. PICK pc : pc = IF f.u = 0 THEN "res_group" ELSE "failed"
      OBVIOUS
    <2>2. PICK f2 : f2 = [f EXCEPT !.pc = pc, !.qa = f.qa]
      OBVIOUS
    <2>3. tp' = [tp EXCEPT ![t] = f2] /\ dq' = dq
      <3>1. tp' = [tp EXCEPT ![t].pc = pc] /\ dq' = dq
        BY <1>1, <1>6, <2>1 DEF ResUser
      <3>2. f2 = [f EXCEPT !.pc = pc]
        BY <1>3, <2>2 DEF Task
      <3> QED BY <1>1, <1>5, <3>1, <3>2
    <2>4. /\ f2 \in Task /\ f2.pc = pc /\ f2.qa = f.qa /\ f2.i = f.i /\ f2.u = f.u /\ f2.g = f.g
          /\ f2.n = f.n /\ f2.k = f.k /\ f2.then = f.then
      BY <1>3, <2>1, <2>2 DEF TaskPlaces, Task
    <2>5. PlaceOK(f2, r)
      BY <1>2, <1>3, <2>1, <2>4 DEF PlaceOK, Reserving, Giving
    <2>6. ReservedOK(f2, r)
      BY <1>2, <1>3, <2>1, <2>4, OwnersAre DEF ReservedOK, Reserving
    <2>7. ASSUME NEW d \in Dquots PROVE ReservedBy(d, dq[d], dq[d], f, f2, r, r)
      <3>1. Held(f2, d) = Held(f, d)
        BY <1>2, <2>1, <2>4, OwnersAre DEF Held
      <3>2. DelayedBy(f2, r, d) = DelayedBy(f, r, d)
        BY <1>2, <2>1, <2>4 DEF DelayedBy
      <3> QED BY <1>3, <1>5, <2>4, <3>1, <3>2, ReservedNone
    <2> QED BY <1>1, <1>2, <1>4, <1>5, <2>1, <2>3, <2>4, <2>5, <2>6, <2>7, CallKeeps
  <1>7. CASE f.u # 0 /\ ~Refused(f.u, f.n, f.k)
    <2>1. PICK qa : qa = IF InTrans(t) THEN [f.qa EXCEPT ![f.u] = ResvTrx(f.qa[f.u], f.n, f.k)] ELSE f.qa
      OBVIOUS
    <2>2. PICK f2 : f2 = [f EXCEPT !.pc = "res_group", !.qa = qa]
      OBVIOUS
    <2>3. PICK q2 : q2 = [dq EXCEPT ![f.u] = Resv(dq[f.u], f.n, f.k)]
      OBVIOUS
    <2>4. f.u \in Dquots /\ f.n \in Int /\ f.k \in Int /\ f.n >= 0 /\ f.k >= 0 /\ f.qa \in [Dquots -> Trx]
      BY <1>3, <1>7, OwnersAre DEF Task
    <2>5. q2 \in [Dquots -> Dquot] /\ qa \in [Dquots -> Trx]
      <3>1. Resv(dq[f.u], f.n, f.k) \in Dquot
        BY <1>5, <2>4, ResvDoes
      <3>2. ResvTrx(f.qa[f.u], f.n, f.k) \in Trx
        BY <1>4, <2>4, ResvTrxDoes
      <3> QED BY <1>5, <2>1, <2>3, <2>4, <3>1, <3>2
    <2>6. tp' = [tp EXCEPT ![t] = f2] /\ dq' = q2
      <3>1. /\ dq' = [dq EXCEPT ![f.u] = Resv(dq[f.u], f.n, f.k)]
            /\ tp' = [tp EXCEPT ![t].pc = "res_group",
                        ![t].qa[f.u] = IF InTrans(t) THEN ResvTrx(f.qa[f.u], f.n, f.k) ELSE @]
        BY <1>1, <1>7 DEF ResUser
      <3>2. tp' = [tp EXCEPT ![t] = f2]
        BY <1>1, <1>3, <1>5, <2>1, <2>2, <2>4, <3>1 DEF Task
      <3> QED BY <2>3, <3>1, <3>2
    <2>7. /\ f2 \in Task /\ f2.pc = "res_group" /\ f2.qa = qa /\ f2.i = f.i /\ f2.u = f.u /\ f2.g = f.g
          /\ f2.n = f.n /\ f2.k = f.k /\ f2.then = f.then
      BY <1>3, <2>2, <2>5 DEF TaskPlaces, Task
    <2>8. PlaceOK(f2, r)
      BY <1>2, <1>3, <2>7 DEF PlaceOK, Reserving, Giving
    <2>9. f.then \in {"open", "delay", "chown_del", "chown_old"}
      BY <1>2, <1>3 DEF PlaceOK, Reserving, Task
    <2>10. ASSUME NEW d \in Dquots
           PROVE  Fresh(qa[d]) /\ qa[d].res >= 0 /\ qa[d].ires >= 0
      <3>1. CASE qa[d] = f.qa[d]
        BY <1>4, <3>1
      <3>2. CASE d = f.u /\ qa[d] = ResvTrx(f.qa[d], f.n, f.k)
        <4>1. PICK x \in Trx : x = f.qa[d]
          BY <1>4
        <4>2. PICK m \in Int, k \in Int : m = f.n /\ k = f.k
          BY <2>4
        <4>3. Fresh(ResvTrx(x, m, k)) /\ ResvTrx(x, m, k).res = x.res + m /\ ResvTrx(x, m, k).ires = x.ires + k
          BY <1>4, <4>1, <4>2, ResvTrxDoes DEF Fresh
        <4>4. x.res \in Int /\ x.ires \in Int /\ x.res >= 0 /\ x.ires >= 0 /\ m >= 0 /\ k >= 0
          BY <1>4, <2>4, <4>1, <4>2 DEF Trx
        <4> QED BY <3>2, <4>1, <4>2, <4>3, <4>4
      <3> QED BY <2>1, <2>4, <3>1, <3>2
    <2>11. ReservedOK(f2, r)
      <3>1. CASE InTrans(t)
        <4>1. f.then \in {"open", "chown_del"}
          BY <1>1, <3>1 DEF InTrans
        <4>2. \A d \in Dquots : HasRes(f.qa[d], 0, 0)
          BY <1>2, <1>3, <4>1 DEF ReservedOK
        <4>3. HasRes(qa[f.u], f.n, f.k)
          <5>1. PICK x \in Trx : x = f.qa[f.u]
            BY <1>4, <2>4
          <5>2. PICK m \in Int, k \in Int : m = f.n /\ k = f.k
            BY <2>4
          <5>3. HasRes(ResvTrx(x, m, k), 0 + m, 0 + k)
            BY <1>4, <2>4, <4>2, <5>1, HasResIs
          <5> QED BY <2>1, <2>4, <3>1, <5>1, <5>2, <5>3
        <4>4. \A d \in Dquots : d # f.u => HasRes(qa[d], 0, 0)
          BY <2>1, <2>4, <3>1, <4>2
        <4> QED BY <2>7, <4>1, <4>3, <4>4 DEF ReservedOK, Reserving
      <3>2. CASE ~InTrans(t)
        <4>1. f.then \in {"delay", "chown_old"} /\ qa = f.qa
          BY <1>1, <2>1, <2>9, <3>2 DEF InTrans
        <4> QED BY <1>2, <1>3, <2>7, <4>1 DEF ReservedOK, Reserving
      <3> QED BY <3>1, <3>2
    <2>12. ASSUME NEW d \in Dquots PROVE ReservedBy(d, dq[d], q2[d], f, f2, r, r)
      <3>1. DelayedBy(f2, r, d) = DelayedBy(f, r, d) /\ Held(f, d) = 0
        BY <1>2, <2>7 DEF DelayedBy, Held
      <3>2. CASE d # f.u
        <4>1. q2[d] = dq[d] /\ f2.qa[d] = f.qa[d] /\ Held(f2, d) = Held(f, d)
          BY <1>5, <2>1, <2>3, <2>4, <2>7, <3>1, <3>2 DEF Held
        <4> QED BY <1>3, <1>5, <2>7, <3>1, <4>1, ReservedNone
      <3>3. CASE d = f.u /\ InTrans(t)
        <4>1. q2[d] = Resv(dq[d], f.n, f.k) /\ f2.qa[d] = ResvTrx(f.qa[d], f.n, f.k)
          BY <1>5, <2>1, <2>3, <2>4, <2>7, <3>3
        <4>2. Held(f2, d) = Held(f, d)
          BY <1>1, <2>7, <3>1, <3>3 DEF Held, InTrans
        <4> QED BY <1>3, <2>4, <2>7, <3>1, <4>1, <4>2, ReservedAlike
      <3>4. CASE d = f.u /\ ~InTrans(t)
        <4>1. f.then \in {"delay", "chown_old"} /\ f.k = 0
          BY <1>1, <1>2, <1>3, <2>9, <3>4 DEF InTrans, PlaceOK
        <4>2. q2[d] = Resv(dq[d], f.n, 0) /\ f2.qa[d] = f.qa[d] /\ Held(f2, d) = f.n
          BY <1>5, <2>1, <2>3, <2>4, <2>7, <3>4, <4>1 DEF Held
        <4>3. f.n = (Held(f2, d) - Held(f, d)) + (DelayedBy(f2, r, d) - DelayedBy(f, r, d))
          <5>1. PICK e \in Int, m \in Int : e = DelayedBy(f, r, d) /\ m = f.n
            BY <1>3, <2>4, PartsAreInts
          <5>2. m = (m - 0) + (e - e)
            OBVIOUS
          <5> QED BY <3>1, <4>2, <5>1, <5>2
        <4> QED BY <1>3, <2>4, <2>7, <4>2, <4>3, ReservedApart
      <3> QED BY <3>2, <3>3, <3>4
    <2> QED BY <1>1, <1>2, <2>5, <2>6, <2>7, <2>8, <2>10, <2>11, <2>12, CallKeeps
  <1> QED BY <1>6, <1>7

\* A reservation changes what one dquot has reserved, in the transaction or outside it.
LEMMA TakesSome ==
  ASSUME NEW d \in Dquots, NEW q \in Dquot, NEW q2, NEW f \in Task, NEW f2 \in Task, NEW r \in Inode,
         NEW n \in Int, NEW k \in Int, q2 = Resv(q, n, k), DelayedBy(f2, r, d) = DelayedBy(f, r, d),
         NEW intrans \in BOOLEAN,
         intrans => f2.qa[d] = ResvTrx(f.qa[d], n, k) /\ Held(f2, d) = Held(f, d),
         ~intrans => f2.qa[d] = f.qa[d] /\ k = 0 /\ Held(f2, d) - Held(f, d) = n
  PROVE  ReservedBy(d, q, q2, f, f2, r, r)
  <1>1. CASE intrans
    BY <1>1, ReservedAlike
  <1>2. CASE ~intrans
    <2>1. PICK e \in Int, h \in Int, h2 \in Int : e = DelayedBy(f, r, d) /\ h = Held(f, d) /\ h2 = Held(f2, d)
      BY PartsAreInts
    <2>2. h2 - h = n
      BY <1>2, <2>1
    <2>3. n = (h2 - h) + (e - e)
      BY <2>2
    <2>4. n = (Held(f2, d) - Held(f, d)) + (DelayedBy(f2, r, d) - DelayedBy(f, r, d))
      BY <2>1, <2>3
    <2>5. q2 = Resv(q, n, 0) /\ f2.qa[d] = f.qa[d]
      BY <1>2
    <2> QED BY <2>4, <2>5, ReservedApart
  <1> QED BY <1>1, <1>2

LEMMA ResGroupKeeps ==
  ASSUME TdCorrect, NEW t \in Tasks, ResGroup(t)
  PROVE  TdCorrect'
  <1>1. PICK f, r : f = tp[t] /\ r = ip[f.i]
    OBVIOUS
  <1>2. f.pc = "res_group" /\ UNCHANGED <<ip, calls>>
    BY <1>1 DEF ResGroup
  <1>3. f \in Task /\ r \in Inode /\ TaskOK(f, r) /\ PlaceOK(f, r) /\ ReservedOK(f, r)
    BY <1>1, <1>2, AtWork DEF TaskOK
  <1>4. \A d \in Dquots : f.qa[d] \in Trx /\ Fresh(f.qa[d]) /\ f.qa[d].res >= 0 /\ f.qa[d].ires >= 0
    BY <1>2, <1>3, FreshIs
  <1>5. tp \in [Tasks -> Task] /\ dq \in [Dquots -> Dquot] /\ \A d \in Dquots : dq[d] \in Dquot
    BY DquotIs DEF TdCorrect, TdBase, TdTypeOK
  <1>6. f.then \in {"open", "delay", "chown_del", "chown_old"} /\ f.n \in Int /\ f.k \in Int /\ f.n >= 0 /\ f.k >= 0
    BY <1>2, <1>3 DEF PlaceOK, Reserving, Task
  <1>7. f.qa \in [Dquots -> Trx]
    BY <1>3 DEF Task
  <1>8. ~InTrans(t) => f.then \in {"delay", "chown_old"} /\ f.k = 0
    BY <1>1, <1>2, <1>3, <1>6 DEF InTrans, PlaceOK
  <1>9. InTrans(t) => f.then \in {"open", "chown_del"}
    BY <1>1 DEF InTrans
  <1>10. CASE f.g = 0
    <2>1. PICK f2 : f2 = [f EXCEPT !.pc = f.then, !.qa = f.qa]
      OBVIOUS
    <2>2. tp' = [tp EXCEPT ![t] = f2] /\ dq' = dq
      <3>1. tp' = [tp EXCEPT ![t].pc = f.then] /\ dq' = dq
        BY <1>1, <1>10 DEF ResGroup
      <3>2. f2 = [f EXCEPT !.pc = f.then]
        BY <1>3, <2>1 DEF Task
      <3> QED BY <1>1, <1>5, <3>1, <3>2
    <2>3. f.then \in {"chown_del", "chown_old"}
      BY <1>2, <1>3, <1>6, <1>10, OwnersAre DEF PlaceOK, Reserving
    <2>4. /\ f2 \in Task /\ f2.pc = f.then /\ f2.qa = f.qa /\ f2.i = f.i /\ f2.u = f.u /\ f2.g = f.g
          /\ f2.n = f.n /\ f2.k = f.k /\ f2.then = f.then
      BY <1>3, <1>7, <2>1, <2>3 DEF TaskPlaces, Task
    <2>5. PlaceOK(f2, r)
      BY <1>2, <1>3, <2>3, <2>4 DEF PlaceOK, Reserving, Giving
    <2>6. ReservedOK(f2, r)
      <3>1. f.then = "chown_del" => f.n = r.nblocks /\ f.k = 1
        BY <1>2, <1>3 DEF PlaceOK
      <3> QED BY <1>2, <1>3, <1>10, <2>3, <2>4, <3>1, OwnersAre DEF ReservedOK, Reserving
    <2>7. ASSUME NEW d \in Dquots PROVE ReservedBy(d, dq[d], dq[d], f, f2, r, r)
      <3>1. Held(f2, d) = Held(f, d)
        BY <1>2, <1>10, <2>3, <2>4, OwnersAre DEF Held
      <3>2. DelayedBy(f2, r, d) = DelayedBy(f, r, d)
        BY <1>2, <2>3, <2>4 DEF DelayedBy
      <3> QED BY <1>3, <1>5, <2>4, <3>1, <3>2, ReservedNone
    <2> QED BY <1>1, <1>2, <1>4, <1>5, <2>2, <2>3, <2>4, <2>5, <2>6, <2>7, CallKeeps
  <1>11. CASE f.g # 0 /\ Refused(f.g, f.n, f.k)
    <2>1. PICK n \in Int, k \in Int : n = -f.n /\ k = -f.k
      BY <1>6
    <2>2. PICK q2 : q2 = IF f.u = 0 THEN dq ELSE [dq EXCEPT ![f.u] = Resv(dq[f.u], n, k)]
      OBVIOUS
    <2>3. PICK qa : qa = IF f.u = 0 \/ ~InTrans(t) THEN f.qa ELSE [f.qa EXCEPT ![f.u] = ResvTrx(f.qa[f.u], n, k)]
      OBVIOUS
    <2>4. PICK f2 : f2 = [f EXCEPT !.pc = "failed", !.qa = qa]
      OBVIOUS
    <2>5. f.u # 0 => f.u \in Dquots
      BY <1>3, OwnersAre
    <2>6. q2 \in [Dquots -> Dquot] /\ qa \in [Dquots -> Trx]
      <3>1. f.u # 0 => Resv(dq[f.u], n, k) \in Dquot
        BY <1>5, <2>5, ResvDoes
      <3>2. f.u # 0 => ResvTrx(f.qa[f.u], n, k) \in Trx
        BY <1>4, <2>5, ResvTrxDoes
      <3> QED BY <1>5, <1>7, <2>2, <2>3, <2>5, <3>1, <3>2
    <2>7. tp' = [tp EXCEPT ![t] = f2] /\ dq' = q2
      <3>1. /\ dq' = (IF f.u = 0 THEN dq ELSE [dq EXCEPT ![f.u] = Resv(dq[f.u], n, k)])
            /\ tp' = [tp EXCEPT ![t].pc = "failed", ![t].qa =
                        IF f.u = 0 \/ ~InTrans(t) THEN @
                        ELSE [f.qa EXCEPT ![f.u] = ResvTrx(f.qa[f.u], n, k)]]
        BY <1>1, <1>11, <2>1 DEF ResGroup
      <3>2. tp' = [tp EXCEPT ![t] = f2]
        BY <1>1, <1>3, <1>5, <2>3, <2>4, <3>1 DEF Task
      <3> QED BY <2>2, <3>1, <3>2
    <2>8. /\ f2 \in Task /\ f2.pc = "failed" /\ f2.qa = qa /\ f2.i = f.i /\ f2.u = f.u /\ f2.g = f.g
          /\ f2.n = f.n /\ f2.k = f.k /\ f2.then = f.then
      BY <1>3, <2>4, <2>6 DEF TaskPlaces, Task
    <2>9. PlaceOK(f2, r) /\ ReservedOK(f2, r)
      BY <2>8 DEF PlaceOK, ReservedOK, Reserving, Giving
    <2>10. ASSUME NEW d \in Dquots PROVE Fresh(qa[d]) /\ qa[d].res >= 0 /\ qa[d].ires >= 0
      <3>1. CASE qa[d] = f.qa[d]
        BY <1>4, <3>1
      <3>2. CASE InTrans(t) /\ d = f.u /\ qa[d] = ResvTrx(f.qa[d], n, k)
        <4>1. PICK x \in Trx, a \in Int, b \in Int : x = f.qa[d] /\ a = f.n /\ b = f.k
          BY <1>4, <1>6
        <4>2. HasRes(x, a, b) /\ Fresh(x)
          BY <1>2, <1>3, <1>4, <1>9, <3>2, <4>1 DEF ReservedOK
        <4>3. Fresh(ResvTrx(x, n, k)) /\ HasRes(ResvTrx(x, n, k), a + n, b + k)
          BY <4>2, HasResIs
        <4>4. a + n = 0 /\ b + k = 0
          BY <2>1, <4>1
        <4> QED BY <3>2, <4>1, <4>3, <4>4 DEF HasRes
      <3> QED BY <1>7, <2>3, <2>5, <3>1, <3>2
    <2>11. ASSUME NEW d \in Dquots PROVE ReservedBy(d, dq[d], q2[d], f, f2, r, r)
      <3>1. DelayedBy(f2, r, d) = DelayedBy(f, r, d) /\ Held(f2, d) = 0
        BY <1>2, <2>8 DEF DelayedBy, Held
      <3>2. CASE d # f.u
        <4>1. q2[d] = dq[d] /\ f2.qa[d] = f.qa[d] /\ Held(f2, d) = Held(f, d)
          BY <1>2, <1>5, <1>7, <2>2, <2>3, <2>5, <2>8, <3>1, <3>2 DEF Held
        <4> QED BY <1>3, <1>5, <2>8, <3>1, <4>1, ReservedNone
      <3>3. CASE d = f.u
        <4>1. q2[d] = Resv(dq[d], n, k) /\ f.u # 0
          BY <1>5, <2>2, <3>3, OwnersAre
        <4>2. InTrans(t) => f2.qa[d] = ResvTrx(f.qa[d], n, k) /\ Held(f2, d) = Held(f, d)
          BY <1>2, <1>7, <1>9, <2>3, <2>8, <3>1, <3>3, <4>1 DEF Held
        <4>3. ~InTrans(t) => f2.qa[d] = f.qa[d] /\ Held(f, d) = f.n /\ f.k = 0
          BY <1>2, <1>8, <2>3, <2>8, <3>3 DEF Held
        <4>4. ~InTrans(t) => f2.qa[d] = f.qa[d] /\ k = 0 /\ Held(f2, d) - Held(f, d) = n
          <5>1. PICK a \in Int : a = f.n
            BY <1>6
          <5>2. n = 0 - a /\ (f.k = 0 => k = 0)
            BY <2>1, <5>1
          <5> QED BY <3>1, <4>3, <5>1, <5>2
        <4>5. InTrans(t) \in BOOLEAN
          BY DEF InTrans
        <4> QED BY <1>3, <1>5, <2>8, <3>1, <4>1, <4>2, <4>4, <4>5, TakesSome
      <3> QED BY <3>2, <3>3
    <2> QED BY <1>1, <1>2, <2>6, <2>7, <2>8, <2>9, <2>10, <2>11, CallKeeps
  <1>12. CASE f.g # 0 /\ ~Refused(f.g, f.n, f.k)
    <2>1. PICK qa : qa = IF InTrans(t) THEN [f.qa EXCEPT ![f.g] = ResvTrx(f.qa[f.g], f.n, f.k)] ELSE f.qa
      OBVIOUS
    <2>2. PICK f2 : f2 = [f EXCEPT !.pc = f.then, !.qa = qa]
      OBVIOUS
    <2>3. PICK q2 : q2 = [dq EXCEPT ![f.g] = Resv(dq[f.g], f.n, f.k)]
      OBVIOUS
    <2>4. f.g \in Dquots /\ f.g # f.u
      BY <1>3, <1>12, OwnersAre
    <2>5. q2 \in [Dquots -> Dquot] /\ qa \in [Dquots -> Trx]
      <3>1. Resv(dq[f.g], f.n, f.k) \in Dquot
        BY <1>5, <1>6, <2>4, ResvDoes
      <3>2. ResvTrx(f.qa[f.g], f.n, f.k) \in Trx
        BY <1>4, <1>6, <2>4, ResvTrxDoes
      <3> QED BY <1>5, <1>7, <2>1, <2>3, <2>4, <3>1, <3>2
    <2>6. tp' = [tp EXCEPT ![t] = f2] /\ dq' = q2
      <3>1. /\ dq' = [dq EXCEPT ![f.g] = Resv(dq[f.g], f.n, f.k)]
            /\ tp' = [tp EXCEPT ![t].pc = f.then,
                        ![t].qa[f.g] = IF InTrans(t) THEN ResvTrx(f.qa[f.g], f.n, f.k) ELSE @]
        BY <1>1, <1>12 DEF ResGroup
      <3>2. tp' = [tp EXCEPT ![t] = f2]
        BY <1>1, <1>3, <1>5, <1>7, <2>1, <2>2, <2>4, <3>1 DEF Task
      <3> QED BY <2>3, <3>1, <3>2
    <2>7. /\ f2 \in Task /\ f2.pc = f.then /\ f2.qa = qa /\ f2.i = f.i /\ f2.u = f.u /\ f2.g = f.g
          /\ f2.n = f.n /\ f2.k = f.k /\ f2.then = f.then
      BY <1>3, <1>6, <2>2, <2>5 DEF TaskPlaces, Task
    <2>8. PlaceOK(f2, r)
      BY <1>2, <1>3, <1>6, <2>7 DEF PlaceOK, Reserving, Giving
    <2>9. ASSUME NEW d \in Dquots PROVE Fresh(qa[d]) /\ qa[d].res >= 0 /\ qa[d].ires >= 0
      <3>1. CASE qa[d] = f.qa[d]
        BY <1>4, <3>1
      <3>2. CASE d = f.g /\ qa[d] = ResvTrx(f.qa[d], f.n, f.k)
        <4>1. PICK x \in Trx, m \in Int, k \in Int : x = f.qa[d] /\ m = f.n /\ k = f.k
          BY <1>4, <1>6
        <4>2. Fresh(ResvTrx(x, m, k)) /\ ResvTrx(x, m, k).res = x.res + m /\ ResvTrx(x, m, k).ires = x.ires + k
          BY <1>4, <4>1, ResvTrxDoes DEF Fresh
        <4>3. x.res \in Int /\ x.ires \in Int /\ x.res >= 0 /\ x.ires >= 0 /\ m >= 0 /\ k >= 0
          BY <1>4, <1>6, <4>1 DEF Trx
        <4> QED BY <3>2, <4>1, <4>2, <4>3
      <3> QED BY <1>7, <2>1, <2>4, <3>1, <3>2
    <2>10. ReservedOK(f2, r)
      <3>1. CASE InTrans(t)
        <4>1. ASSUME NEW d \in Dquots
              PROVE  IF d \in {f.u, f.g} THEN HasRes(qa[d], f.n, f.k) ELSE HasRes(qa[d], 0, 0)
          <5>1. IF d = f.u THEN HasRes(f.qa[d], f.n, f.k) ELSE HasRes(f.qa[d], 0, 0)
            BY <1>2, <1>3, <1>9, <3>1 DEF ReservedOK
          <5>2. CASE d = f.g
            <6>1. PICK x \in Trx, m \in Int, k \in Int : x = f.qa[d] /\ m = f.n /\ k = f.k
              BY <1>4, <1>6
            <6>2. HasRes(x, 0, 0) /\ Fresh(x)
              BY <1>4, <2>4, <5>1, <5>2, <6>1
            <6>3. HasRes(ResvTrx(x, m, k), 0 + m, 0 + k)
              BY <6>2, HasResIs
            <6> QED BY <1>7, <2>1, <2>4, <3>1, <5>2, <6>1, <6>3
          <5>3. CASE d # f.g
            BY <1>7, <2>1, <2>4, <3>1, <5>1, <5>3
          <5> QED BY <5>2, <5>3
        <4>2. f.then = "chown_del" => f.n = r.nblocks /\ f.k = 1
          BY <1>2, <1>3 DEF PlaceOK
        <4> QED BY <1>9, <2>7, <3>1, <4>1, <4>2 DEF ReservedOK, Reserving
      <3>2. CASE ~InTrans(t)
        <4>1. f.then \in {"delay", "chown_old"} /\ qa = f.qa
          BY <1>8, <2>1, <3>2
        <4> QED BY <1>2, <1>3, <2>7, <4>1 DEF ReservedOK, Reserving
      <3> QED BY <3>1, <3>2
    <2>11. ASSUME NEW d \in Dquots PROVE ReservedBy(d, dq[d], q2[d], f, f2, r, r)
      <3>1. DelayedBy(f2, r, d) = DelayedBy(f, r, d)
        BY <1>2, <1>6, <2>7 DEF DelayedBy
      <3>2. CASE d # f.g
        <4>1. q2[d] = dq[d] /\ f2.qa[d] = f.qa[d]
          BY <1>5, <1>7, <2>1, <2>3, <2>4, <2>7, <3>2
        <4>2. Held(f2, d) = Held(f, d)
          BY <1>2, <1>6, <2>7, <3>2 DEF Held
        <4> QED BY <1>3, <1>5, <2>7, <3>1, <4>1, <4>2, ReservedNone
      <3>3. CASE d = f.g
        <4>1. q2[d] = Resv(dq[d], f.n, f.k)
          BY <1>5, <2>3, <2>4, <3>3
        <4>2. Held(f, d) = 0
          BY <1>2, <2>4, <3>3 DEF Held
        <4>3. InTrans(t) => f2.qa[d] = ResvTrx(f.qa[d], f.n, f.k) /\ Held(f2, d) = Held(f, d)
          BY <1>7, <1>9, <2>1, <2>4, <2>7, <3>3, <4>2 DEF Held
        <4>4. ~InTrans(t) => f2.qa[d] = f.qa[d] /\ f.k = 0 /\ Held(f2, d) - Held(f, d) = f.n
          <5>1. ~InTrans(t) => f2.qa[d] = f.qa[d] /\ f.k = 0 /\ Held(f2, d) = f.n
            BY <1>8, <2>1, <2>7, <3>3 DEF Held
          <5> QED BY <1>6, <4>2, <5>1
        <4>5. InTrans(t) \in BOOLEAN
          BY DEF InTrans
        <4> QED BY <1>3, <1>5, <1>6, <2>7, <3>1, <4>1, <4>3, <4>4, <4>5, TakesSome
      <3> QED BY <3>2, <3>3
    <2> QED BY <1>1, <1>2, <1>6, <2>5, <2>6, <2>7, <2>8, <2>9, <2>10, <2>11, CallKeeps
  <1> QED BY <1>10, <1>11, <1>12

\* the end of a call that used nothing
LEMMA FreshEnds ==
  ASSUME NEW x \in Trx, Fresh(x), NEW n \in Int, NEW k \in Int, n = -x.res, k = -x.ires
  PROVE  NoTrx = ResvTrx(x, n, k)
  <1>1. PICK y : y = ResvTrx(x, n, k)
    OBVIOUS
  <1>2. PICK a \in Int, b \in Int : a = x.res /\ b = x.ires
    BY DEF Trx
  <1>3. a + n = 0 /\ b + k = 0
    BY <1>2
  <1>4. /\ y \in Trx /\ y.used = 0 /\ y.delta = 0 /\ y.del = 0 /\ y.iused = 0 /\ y.idelta = 0
        /\ y.res = 0 /\ y.ires = 0
    BY <1>1, <1>2, <1>3, ResvTrxDoes DEF Fresh
  <1>5. y = NoTrx
    BY <1>4 DEF Trx, NoTrx
  <1> QED BY <1>1, <1>5

LEMMA NoCallIs ==
  /\ NoCall \in Task /\ NoCall.pc = "idle" /\ \A d \in Dquots : NoCall.qa[d] = NoTrx /\ Held(NoCall, d) = 0
  BY TrxIs DEF NoCall, Task, TaskPlaces, Held

LEMMA CancelKeeps ==
  ASSUME TdCorrect, ~ChownFails, NEW t \in Tasks, Cancel(t)
  PROVE  TdCorrect'
  <1>1. PICK f, r : f = tp[t] /\ r = ip[f.i]
    OBVIOUS
  <1>2. /\ f.pc = "failed" \/ (f.pc = "open" /\ ~Dirty(f))
        /\ UNCHANGED <<ip, calls>> /\ tp' = [tp EXCEPT ![t] = NoCall]
        /\ dq' = [d \in Dquots |-> Resv(dq[d], -f.qa[d].res, -f.qa[d].ires)]
    BY <1>1 DEF Cancel
  <1>3. /\ f \in Task /\ f.i \in Inodes /\ r \in Inode /\ TaskOK(f, r) /\ LiveOK(r)
        /\ \A u \in Tasks \ {t} : tp[u].i # f.i
    BY <1>1, <1>2, AtWork
  <1>4. /\ \A d \in Dquots : dq[d] \in Dquot
        /\ ip' = [ip EXCEPT ![f.i] = r] /\ calls' \in Nat
    BY <1>1, <1>2, <1>3, DquotIs DEF TdCorrect, TdBase, TdTypeOK
  <1>5. \A d \in Dquots : f.qa[d] \in Trx /\ Fresh(f.qa[d])
    <2>1. CASE f.pc = "failed"
      BY <1>3, <2>1, FreshIs
    <2>2. CASE f.pc = "open" /\ ~Dirty(f)
      BY <1>3, <2>2 DEF Dirty, Fresh, Task
    <2> QED BY <1>2, <2>1, <2>2
  <1>6. PICK q2 : q2 = [d \in Dquots |-> Resv(dq[d], -f.qa[d].res, -f.qa[d].ires)]
    OBVIOUS
  <1>7. ASSUME NEW d \in Dquots PROVE q2[d] \in Dquot /\ ReservedBy(d, dq[d], q2[d], f, NoCall, r, r)
    <2>1. PICK n \in Int, k \in Int : n = -f.qa[d].res /\ k = -f.qa[d].ires
      BY <1>5 DEF Trx
    <2>2. q2[d] = Resv(dq[d], n, k)
      BY <1>6, <2>1
    <2>3. NoCall.qa[d] = ResvTrx(f.qa[d], n, k)
      BY <1>5, <2>1, NoCallIs, FreshEnds
    <2>4. Held(NoCall, d) = Held(f, d) /\ DelayedBy(NoCall, r, d) = DelayedBy(f, r, d)
      BY <1>2, NoCallIs DEF Held, DelayedBy
    <2>5. q2[d] \in Dquot
      BY <1>4, <2>2, ResvDoes
    <2> QED BY <1>3, <2>2, <2>3, <2>4, <2>5, NoCallIs, ReservedAlike
  <1>8. q2 \in [Dquots -> Dquot] /\ dq' = q2
    BY <1>2, <1>6, <1>7
  <1> QED BY <1>1, <1>2, <1>3, <1>4, <1>7, <1>8, NoCallIs, ReservationKeeps

\* Blocks of inode r become delayed, or are delayed no more.
LEMMA DelayIs ==
  ASSUME NEW r \in Inode, NEW m \in Int, r.del + m >= 0, NEW r2, r2 = [r EXCEPT !.del = @ + m]
  PROVE  /\ r2 \in Inode /\ r2.live = r.live /\ r2.u = r.u /\ r2.g = r.g /\ r2.nblocks = r.nblocks
         /\ r2.del = r.del + m
         /\ \A d : BlocksIn(r2, d) = BlocksIn(r, d) /\ CountIn(r2, d) = CountIn(r, d)
  <1>1. PICK n : n = r.del + m /\ n \in Nat
    BY DEF Inode
  <1>2. r2 = [r EXCEPT !.del = n]
    BY <1>1
  <1>3. /\ r2 \in Inode /\ r2.live = r.live /\ r2.u = r.u /\ r2.g = r.g /\ r2.nblocks = r.nblocks
        /\ r2.del = n
    BY <1>1, <1>2 DEF Inode
  <1> QED BY <1>1, <1>3 DEF BlocksIn, CountIn

LEMMA DelayKeeps ==
  ASSUME TdCorrect, NEW t \in Tasks, Delay(t)
  PROVE  TdCorrect'
  <1>1. PICK f, r : f = tp[t] /\ r = ip[f.i]
    OBVIOUS
  <1>2. f.pc = "delay" /\ UNCHANGED calls /\ tp' = [tp EXCEPT ![t] = NoCall]
    BY <1>1 DEF Delay
  <1>3. /\ f \in Task /\ f.i \in Inodes /\ r \in Inode /\ TaskOK(f, r) /\ LiveOK(r)
        /\ \A u \in Tasks \ {t} : tp[u].i # f.i
    BY <1>1, <1>2, AtWork
  <1>4. /\ dq \in [Dquots -> Dquot] /\ \A d \in Dquots : dq[d] \in Dquot
        /\ ip \in [Inodes -> Inode] /\ calls' \in Nat
    BY <1>2, DquotIs DEF TdCorrect, TdBase, TdTypeOK
  <1>5. f.u = r.u /\ f.g = r.g /\ r.live /\ f.n \in Nat
    BY <1>2, <1>3 DEF TaskOK, PlaceOK, Giving, Task
  <1>6. \A d \in Dquots : NoCall.qa[d] = f.qa[d]
    <2>1. ASSUME NEW d \in Dquots PROVE NoCall.qa[d] = f.qa[d]
      <3>1. f.qa[d] \in Trx /\ Fresh(f.qa[d])
        BY <1>2, <1>3, FreshIs
      <3>2. HasRes(f.qa[d], 0, 0)
        BY <1>2, <1>3 DEF TaskOK, ReservedOK
      <3>3. f.qa[d] = NoTrx
        BY <3>1, <3>2 DEF Trx, NoTrx, Fresh, HasRes
      <3> QED BY <3>3, NoCallIs
    <2> QED BY <2>1
  <1>7. \A d \in Dquots : Held(f, d) = IF d \in {r.u, r.g} THEN f.n ELSE 0
    BY <1>2, <1>5 DEF Held
  <1>8. CASE ip' = [ip EXCEPT ![f.i].del = @ + f.n] /\ UNCHANGED dq
    <2>1. PICK r2, m : m = f.n /\ r2 = [r EXCEPT !.del = @ + m]
      OBVIOUS
    <2>2. /\ r2 \in Inode /\ r2.live = r.live /\ r2.u = r.u /\ r2.g = r.g /\ r2.nblocks = r.nblocks
          /\ r2.del = r.del + m
          /\ \A d \in Dquots : BlocksIn(r2, d) = BlocksIn(r, d) /\ CountIn(r2, d) = CountIn(r, d)
      <3>1. m \in Int /\ r.del + m >= 0
        BY <1>3, <1>5, <2>1 DEF Inode
      <3> QED BY <1>3, <2>1, <3>1, DelayIs
    <2>3. ip' = [ip EXCEPT ![f.i] = r2] /\ LiveOK(r2)
      BY <1>1, <1>4, <1>5, <1>8, <2>1, <2>2 DEF LiveOK
    <2>4. ASSUME NEW d \in Dquots PROVE ReservedBy(d, dq[d], dq[d], f, NoCall, r, r2)
      <3>1. PICK z \in Int, n \in Int, l \in Int : z = 0 /\ n = m /\ l = r.del
        BY <1>3, <1>5, <2>1 DEF Inode
      <3>2. dq[d] = Resv(dq[d], 0, 0)
        BY <1>4, ResvNone
      <3>3. z = (Held(NoCall, d) - Held(f, d)) + (DelayedBy(NoCall, r2, d) - DelayedBy(f, r, d))
        <4>1. CASE d \in {r.u, r.g}
          <5>1. /\ Held(NoCall, d) = 0 /\ Held(f, d) = n
                /\ DelayedBy(NoCall, r2, d) = l + n /\ DelayedBy(f, r, d) = l
            BY <1>2, <1>7, <2>1, <2>2, <3>1, <4>1, NoCallIs DEF DelayedBy
          <5>2. z = (0 - n) + ((l + n) - l)
            BY <3>1
          <5> QED BY <5>1, <5>2
        <4>2. CASE d \notin {r.u, r.g}
          BY <1>2, <1>7, <2>2, <3>1, <4>2, NoCallIs DEF DelayedBy
        <4> QED BY <4>1, <4>2
      <3>4. dq[d] = Resv(dq[d], z, 0)
        BY <3>1, <3>2
      <3> QED BY <1>3, <1>6, <2>2, <3>3, <3>4, NoCallIs, ReservedApart
    <2> QED BY <1>1, <1>2, <1>3, <1>4, <1>8, <2>2, <2>3, <2>4, NoCallIs, ReservationKeeps
  <1>9. CASE dq' = [d \in Dquots |-> IF d \in Mapped(f.i) THEN Resv(dq[d], -f.n, 0) ELSE dq[d]] /\ UNCHANGED ip
    <2>1. PICK m \in Int : m = -f.n
      BY <1>5
    <2>2. PICK q2 : q2 = [d \in Dquots |-> IF d \in {r.u, r.g} THEN Resv(dq[d], m, 0) ELSE dq[d]]
      OBVIOUS
    <2>3. dq' = q2
      BY <1>1, <1>9, <2>1, <2>2 DEF Mapped
    <2>4. ASSUME NEW d \in Dquots PROVE q2[d] \in Dquot /\ ReservedBy(d, dq[d], q2[d], f, NoCall, r, r)
      <3>1. DelayedBy(NoCall, r, d) = DelayedBy(f, r, d) /\ Held(NoCall, d) = 0
        BY <1>2, NoCallIs DEF DelayedBy
      <3>2. CASE d \in {r.u, r.g}
        <4>1. q2[d] = Resv(dq[d], m, 0) /\ Held(f, d) = f.n
          BY <1>7, <2>2, <3>2
        <4>2. PICK e \in Int, n \in Int : e = DelayedBy(f, r, d) /\ n = f.n
          BY <1>3, <1>5, PartsAreInts
        <4>3. m = (0 - n) + (e - e)
          BY <2>1, <4>2
        <4>4. m = (Held(NoCall, d) - Held(f, d)) + (DelayedBy(NoCall, r, d) - DelayedBy(f, r, d))
          BY <3>1, <4>1, <4>2, <4>3
        <4>5. Resv(dq[d], m, 0) \in Dquot
          BY <1>4, ResvDoes
        <4> QED BY <1>3, <1>6, <4>1, <4>4, <4>5, NoCallIs, ReservedApart
      <3>3. CASE d \notin {r.u, r.g}
        <4>1. q2[d] = dq[d] /\ Held(NoCall, d) = Held(f, d)
          BY <1>7, <2>2, <3>1, <3>3
        <4> QED BY <1>3, <1>4, <1>6, <3>1, <4>1, NoCallIs, ReservedNone
      <3> QED BY <3>2, <3>3
    <2>5. q2 \in [Dquots -> Dquot] /\ ip' = [ip EXCEPT ![f.i] = r]
      BY <1>1, <1>3, <1>4, <1>9, <2>2, <2>4
    <2> QED BY <1>1, <1>2, <1>3, <1>4, <2>3, <2>4, <2>5, NoCallIs, ReservationKeeps
  <1> QED BY <1>1, <1>8, <1>9 DEF Delay

LEMMA UndelayKeeps ==
  ASSUME TdCorrect, NEW t \in Tasks, Undelay(t)
  PROVE  TdCorrect'
  <1>1. PICK f, r : f = tp[t] /\ r = ip[f.i]
    OBVIOUS
  <1>2. f.pc = "noresv" /\ UNCHANGED <<tp, calls>>
    BY <1>1 DEF Undelay
  <1>3. /\ f \in Task /\ f.i \in Inodes /\ r \in Inode /\ TaskOK(f, r) /\ LiveOK(r)
        /\ \A u \in Tasks \ {t} : tp[u].i # f.i
    BY <1>1, <1>2, AtWork
  <1>4. /\ dq \in [Dquots -> Dquot] /\ \A d \in Dquots : dq[d] \in Dquot
        /\ ip \in [Inodes -> Inode] /\ tp \in [Tasks -> Task] /\ calls' \in Nat
    BY <1>2, DquotIs DEF TdCorrect, TdBase, TdTypeOK
  <1>5. PICK m \in 1 .. r.del : /\ dq' = [d \in Dquots |-> IF d \in Mapped(f.i) THEN Resv(dq[d], -m, 0) ELSE dq[d]]
                                /\ ip' = [ip EXCEPT ![f.i].del = @ - m]
    BY <1>1 DEF Undelay
  <1>6. PICK n \in Int, l \in Int : n = 0 - m /\ l = r.del
    BY <1>3 DEF Inode
  <1>7. PICK r2 : r2 = [r EXCEPT !.del = @ + n]
    OBVIOUS
  <1>8. /\ r2 \in Inode /\ r2.live = r.live /\ r2.u = r.u /\ r2.g = r.g /\ r2.nblocks = r.nblocks /\ r2.del = l + n
        /\ \A d \in Dquots : BlocksIn(r2, d) = BlocksIn(r, d) /\ CountIn(r2, d) = CountIn(r, d)
    <2>1. r.del + n >= 0
      BY <1>5, <1>6
    <2> QED BY <1>3, <1>6, <1>7, <2>1, DelayIs
  <1>9. ip' = [ip EXCEPT ![f.i] = r2] /\ LiveOK(r2)
    <2>1. r.del - m = r.del + n
      BY <1>5, <1>6
    <2>2. ip' = [ip EXCEPT ![f.i] = r2]
      BY <1>1, <1>3, <1>4, <1>5, <1>7, <2>1 DEF Inode
    <2>3. r.live
      BY <1>3, <1>5 DEF LiveOK
    <2> QED BY <1>8, <2>2, <2>3 DEF LiveOK
  <1>10. TaskOK(f, r2)
    <2>1. PlaceOK(f, r2)
      BY <1>2, <1>3, <1>8 DEF TaskOK, PlaceOK, Reserving, Giving
    <2>2. ReservedOK(f, r2)
      BY <1>3, <1>8 DEF TaskOK, ReservedOK
    <2>3. PartsOK(f, r2)
      BY <1>3, <1>8 DEF TaskOK, PartsOK
    <2> QED BY <2>1, <2>2, <2>3 DEF TaskOK
  <1>11. PICK q2 : q2 = [d \in Dquots |-> IF d \in {r.u, r.g} THEN Resv(dq[d], n, 0) ELSE dq[d]]
    OBVIOUS
  <1>12. dq' = q2
    <2>1. -m = n
      BY <1>5, <1>6
    <2> QED BY <1>1, <1>5, <1>11, <2>1 DEF Mapped
  <1>13. ASSUME NEW d \in Dquots PROVE q2[d] \in Dquot /\ ReservedBy(d, dq[d], q2[d], f, f, r, r2)
    <2>1. CASE d \in {r.u, r.g}
      <3>1. q2[d] = Resv(dq[d], n, 0) /\ DelayedBy(f, r, d) = l /\ DelayedBy(f, r2, d) = l + n
        BY <1>2, <1>6, <1>8, <1>11, <2>1 DEF DelayedBy
      <3>2. PICK h \in Int : h = Held(f, d)
        BY <1>3, PartsAreInts
      <3>3. n = (h - h) + ((l + n) - l)
        OBVIOUS
      <3>4. n = (Held(f, d) - Held(f, d)) + (DelayedBy(f, r2, d) - DelayedBy(f, r, d))
        BY <3>1, <3>2, <3>3
      <3>5. Resv(dq[d], n, 0) \in Dquot
        BY <1>4, ResvDoes
      <3> QED BY <1>3, <1>8, <3>1, <3>4, <3>5, ReservedApart
    <2>2. CASE d \notin {r.u, r.g}
      <3>1. q2[d] = dq[d] /\ DelayedBy(f, r2, d) = DelayedBy(f, r, d)
        BY <1>2, <1>8, <1>11, <2>2 DEF DelayedBy
      <3> QED BY <1>3, <1>4, <1>8, <3>1, ReservedNone
    <2> QED BY <2>1, <2>2
  <1>14. q2 \in [Dquots -> Dquot] /\ tp' = [tp EXCEPT ![t] = f]
    BY <1>1, <1>2, <1>4, <1>11, <1>13
  <1> QED BY <1>1, <1>2, <1>3, <1>4, <1>8, <1>9, <1>10, <1>12, <1>13, <1>14, ReservationKeeps

LEMMA ChownDelKeeps ==
  ASSUME TdCorrect, NEW t \in Tasks, ChownDel(t)
  PROVE  TdCorrect'
  <1>1. PICK f, r : f = tp[t] /\ r = ip[f.i]
    OBVIOUS
  <1>2. f.pc = "chown_del" /\ UNCHANGED <<dq, ip, calls>>
    BY <1>1 DEF ChownDel
  <1>3. f \in Task /\ r \in Inode /\ TaskOK(f, r) /\ PlaceOK(f, r) /\ ReservedOK(f, r)
    BY <1>1, <1>2, AtWork DEF TaskOK
  <1>4. \A d \in Dquots : f.qa[d] \in Trx /\ Fresh(f.qa[d]) /\ f.qa[d].res >= 0 /\ f.qa[d].ires >= 0
    BY <1>2, <1>3, FreshIs
  <1>5. dq \in [Dquots -> Dquot] /\ \A d \in Dquots : dq[d] \in Dquot
    BY DquotIs
  <1>6. r.del \in Nat
    BY <1>3 DEF Inode
  <1>7. PICK f2 : f2 = IF r.del = 0 THEN [f EXCEPT !.pc = "chown"]
                       ELSE [f EXCEPT !.pc = "res_user", !.n = r.del, !.k = 0, !.then = "chown_old"]
    OBVIOUS
  <1>8. tp' = [tp EXCEPT ![t] = f2] /\ dq' = dq
    BY <1>1, <1>2, <1>7 DEF ChownDel
  <1>9. f2 \in Task /\ f2.qa = f.qa /\ f2.i = f.i /\ f2.u = f.u /\ f2.g = f.g
    BY <1>3, <1>6, <1>7 DEF Task, TaskPlaces
  <1>10. r.del = 0 => f2.pc = "chown" /\ f2.then = f.then /\ f2.n = f.n /\ f2.k = f.k
    BY <1>3, <1>7 DEF Task
  <1>11. r.del # 0 => f2.pc = "res_user" /\ f2.then = "chown_old" /\ f2.n = r.del /\ f2.k = 0
    BY <1>3, <1>7 DEF Task
  <1>12. PlaceOK(f2, r)
    BY <1>2, <1>3, <1>9, <1>10, <1>11 DEF PlaceOK, Reserving, Giving
  <1>13. ReservedOK(f2, r)
    BY <1>2, <1>3, <1>9, <1>10, <1>11 DEF ReservedOK, Reserving
  <1>14. ASSUME NEW d \in Dquots PROVE ReservedBy(d, dq[d], dq[d], f, f2, r, r)
    <2>1. Held(f2, d) = Held(f, d)
      BY <1>2, <1>10, <1>11 DEF Held
    <2>2. DelayedBy(f2, r, d) = DelayedBy(f, r, d)
      BY <1>2, <1>10, <1>11 DEF DelayedBy
    <2> QED BY <1>3, <1>5, <1>9, <2>1, <2>2, ReservedNone
  <1>15. f2.pc # "idle"
    BY <1>10, <1>11
  <1> QED BY <1>1, <1>2, <1>4, <1>5, <1>8, <1>9, <1>12, <1>13, <1>14, <1>15, CallKeeps

LEMMA ChownOldKeeps ==
  ASSUME TdCorrect, NEW t \in Tasks, ChownOld(t)
  PROVE  TdCorrect'
  <1>1. PICK f, r : f = tp[t] /\ r = ip[f.i]
    OBVIOUS
  <1>2. f.pc = "chown_old" /\ UNCHANGED <<ip, calls>>
    BY <1>1 DEF ChownOld
  <1>3. f \in Task /\ r \in Inode /\ TaskOK(f, r) /\ PlaceOK(f, r) /\ ReservedOK(f, r)
    BY <1>1, <1>2, AtWork DEF TaskOK
  <1>4. \A d \in Dquots : f.qa[d] \in Trx /\ Fresh(f.qa[d]) /\ f.qa[d].res >= 0 /\ f.qa[d].ires >= 0
    BY <1>2, <1>3, FreshIs
  <1>5. tp \in [Tasks -> Task] /\ dq \in [Dquots -> Dquot] /\ \A d \in Dquots : dq[d] \in Dquot
    BY DquotIs DEF TdCorrect, TdBase, TdTypeOK
  <1>6. f.u # r.u /\ f.g # r.g /\ f.n = r.del /\ f.then = "chown_old" /\ r.del \in Nat
    BY <1>2, <1>3 DEF PlaceOK, Giving, Inode
  <1>7. PICK m \in Int, l \in Int : l = r.del /\ m = 0 - l
    BY <1>6
  <1>8. PICK old : old = (IF f.u # 0 THEN {r.u} ELSE {}) \cup (IF f.g # 0 THEN {r.g} ELSE {})
    OBVIOUS
  <1>9. PICK q2 : q2 = [d \in Dquots |-> IF d \in old THEN Resv(dq[d], m, 0) ELSE dq[d]]
    OBVIOUS
  <1>10. PICK f2 : f2 = [f EXCEPT !.pc = "chown"]
    OBVIOUS
  <1>11. /\ f2 \in Task /\ f2.pc = "chown" /\ f2.qa = f.qa /\ f2.i = f.i /\ f2.u = f.u /\ f2.g = f.g
         /\ f2.n = f.n /\ f2.k = f.k /\ f2.then = f.then
    BY <1>3, <1>10 DEF Task, TaskPlaces
  <1>12. dq' = q2 /\ tp' = [tp EXCEPT ![t] = f2]
    <2>1. -f.n = m
      BY <1>6, <1>7
    <2>2. dq' = [d \in Dquots |-> IF d \in old THEN Resv(dq[d], -f.n, 0) ELSE dq[d]]
      BY <1>1, <1>8 DEF ChownOld
    <2>3. tp' = [tp EXCEPT ![t] = f2]
      BY <1>1, <1>5, <1>10 DEF ChownOld
    <2> QED BY <1>9, <2>1, <2>2, <2>3
  <1>13. PlaceOK(f2, r) /\ ReservedOK(f2, r)
    BY <1>2, <1>3, <1>11 DEF PlaceOK, ReservedOK, Reserving, Giving
  <1>14. ASSUME NEW d \in Dquots PROVE q2[d] \in Dquot /\ ReservedBy(d, dq[d], q2[d], f, f2, r, r)
    <2>1. Held(f2, d) = 0 /\ Held(f, d) = IF d \in {f.u, f.g} THEN l ELSE 0
      BY <1>2, <1>6, <1>7, <1>11 DEF Held
    <2>2. DelayedBy(f, r, d) = IF d \in {r.u, r.g} THEN l ELSE 0
      BY <1>2, <1>7 DEF DelayedBy
    <2>3. DelayedBy(f2, r, d) = IF d \in NewOwners(f, r) THEN l ELSE 0
      BY <1>7, <1>11 DEF DelayedBy, NewOwners
    <2>4. /\ f.u \in Uids \cup {0} /\ f.g \in Gids \cup {0} /\ r.u \in Uids /\ r.g \in Gids
          /\ Uids \cap Gids = {} /\ d # 0
      BY <1>3, TdAssumption DEF Task, Inode
    <2>5. CASE d \in old
      <3>1. d \notin {f.u, f.g} /\ d \in {r.u, r.g} /\ d \notin NewOwners(f, r)
        BY <1>6, <1>8, <2>4, <2>5 DEF NewOwners
      <3>2. q2[d] = Resv(dq[d], m, 0) /\ Resv(dq[d], m, 0) \in Dquot
        BY <1>5, <1>9, <2>5, ResvDoes
      <3>3. m = (0 - 0) + (0 - l)
        BY <1>7
      <3>4. m = (Held(f2, d) - Held(f, d)) + (DelayedBy(f2, r, d) - DelayedBy(f, r, d))
        BY <2>1, <2>2, <2>3, <3>1, <3>3
      <3> QED BY <1>3, <1>11, <3>2, <3>4, ReservedApart
    <2>6. CASE d \notin old
      <3>1. q2[d] = dq[d] /\ dq[d] = Resv(dq[d], 0, 0)
        BY <1>5, <1>9, <2>6, ResvNone
      <3>2. PICK z \in Int : z = 0
        OBVIOUS
      <3>3. d \in NewOwners(f, r) <=> d \in {f.u, f.g} \/ d \in {r.u, r.g}
        BY <1>8, <2>4, <2>6 DEF NewOwners
      <3>4. d \in {f.u, f.g} => d \notin {r.u, r.g}
        BY <1>6, <2>4
      <3>5. z = (Held(f2, d) - Held(f, d)) + (DelayedBy(f2, r, d) - DelayedBy(f, r, d))
        <4>1. CASE d \in {f.u, f.g}
          <5>1. z = (0 - l) + (l - 0)
            BY <3>2
          <5> QED BY <2>1, <2>2, <2>3, <3>3, <3>4, <4>1, <5>1
        <4>2. CASE d \notin {f.u, f.g} /\ d \in {r.u, r.g}
          <5>1. z = (0 - 0) + (l - l)
            BY <3>2
          <5> QED BY <2>1, <2>2, <2>3, <3>3, <4>2, <5>1
        <4>3. CASE d \notin {f.u, f.g} /\ d \notin {r.u, r.g}
          BY <2>1, <2>2, <2>3, <3>2, <3>3, <4>3
        <4> QED BY <4>1, <4>2, <4>3
      <3>6. q2[d] = Resv(dq[d], z, 0)
        BY <3>1, <3>2
      <3> QED BY <1>3, <1>5, <1>11, <3>1, <3>5, <3>6, ReservedApart
    <2> QED BY <2>5, <2>6
  <1>15. q2 \in [Dquots -> Dquot]
    BY <1>9, <1>14
  <1> QED BY <1>1, <1>2, <1>4, <1>11, <1>12, <1>13, <1>14, <1>15, CallKeeps

----------------------------------------------------------------------------
(* What a transaction maps, converts, frees, creates and removes.          *)

\* A step of a transaction that changes the counts of the owners of its inode alike
Mods(f, r, r2, qa, a, c, e) ==
  /\ r2.u = r.u /\ r2.g = r.g /\ r2.nblocks = r.nblocks + (a + c) /\ r2.del = r.del - c /\ LiveOK(r2)
  /\ (IF r2.live THEN 1 ELSE 0) = (IF r.live THEN 1 ELSE 0) + e
  /\ f.pc = "open" /\ ~r2.live => ~r.live
  /\ \A d \in Dquots : d \notin {r.u, r.g} => qa[d] = f.qa[d]
  /\ \A d \in Dquots : d \in {r.u, r.g} =>
       /\ TrxOK(qa[d]) /\ qa[d].res = f.qa[d].res /\ qa[d].ires = f.qa[d].ires
       /\ qa[d].delta = f.qa[d].delta + a /\ qa[d].del = f.qa[d].del + c
       /\ qa[d].idelta = f.qa[d].idelta + e /\ (f.pc = "open" /\ ~r2.live => qa[d].iused = 0)

LEMMA ModKeeps ==
  ASSUME TdCorrect, NEW t \in Tasks, NEW f, f = tp[t], f.pc \in {"open", "noresv"}, NEW r, r = ip[f.i],
         NEW a \in Int, NEW c \in Int, NEW e \in Int, NEW r2 \in Inode, NEW qa \in [Dquots -> Trx],
         tp' = [tp EXCEPT ![t] = [f EXCEPT !.qa = qa]], ip' = [ip EXCEPT ![f.i] = r2], UNCHANGED <<dq, calls>>,
         Mods(f, r, r2, qa, a, c, e)
  PROVE  TdCorrect'
  <1> USE DEF Mods
  <1>1. /\ f \in Task /\ f.i \in Inodes /\ r \in Inode /\ TaskOK(f, r) /\ LiveOK(r)
        /\ \A u \in Tasks \ {t} : tp[u].i # f.i
    BY AtWork
  <1>2. PICK f2 : f2 = [f EXCEPT !.qa = qa]
    OBVIOUS
  <1>3. /\ f2 \in Task /\ f2.pc = f.pc /\ f2.qa = qa /\ f2.i = f.i /\ f2.u = f.u /\ f2.g = f.g
        /\ f2.n = f.n /\ f2.k = f.k /\ f2.then = f.then
    BY <1>1, <1>2 DEF Task
  <1>4. dq \in [Dquots -> Dquot] /\ \A d \in Dquots : dq[d] \in Dquot /\ (dq[d].timer # "off" <=> Over(d, dq[d].b))
    BY DquotIs
  <1>5. \A d \in Dquots : f.qa[d] \in Trx /\ qa[d] \in Trx
    BY <1>1 DEF Task
  <1>6. PICK nb \in Int, dl \in Int : nb = r.nblocks /\ dl = r.del
    BY <1>1 DEF Inode
  <1>7. ASSUME NEW d \in Dquots PROVE Moved(d, dq[d], dq[d], f, f2, r, r2)
    <2>1. PICK x \in Trx, y \in Trx : x = f.qa[d] /\ y = qa[d]
      BY <1>5
    <2>2. PICK xd \in Int, xl \in Int, xi \in Int : xd = x.delta /\ xl = x.del /\ xi = x.idelta
      BY DEF Trx
    <2>3. Held(f2, d) = 0 /\ Held(f, d) = 0
      BY <1>3 DEF Held
    <2>4. DelayedBy(f, r, d) = (IF d \in {r.u, r.g} THEN dl ELSE 0)
      BY <1>6 DEF DelayedBy
    <2>5. DelayedBy(f2, r2, d) = (IF d \in {r.u, r.g} THEN dl - c ELSE 0)
      BY <1>3, <1>6 DEF DelayedBy
    <2>6. /\ y.res = x.res /\ y.ires = x.ires
          /\ (y.delta - x.delta) + (y.del - x.del) = BlocksIn(r2, d) - BlocksIn(r, d)
          /\ y.del - x.del = DelayedBy(f, r, d) - DelayedBy(f2, r2, d)
          /\ y.idelta - x.idelta = CountIn(r2, d) - CountIn(r, d)
      <3>1. CASE d \in {r.u, r.g}
        <4>1. /\ y.res = x.res /\ y.ires = x.ires
              /\ y.delta = xd + a /\ y.del = xl + c /\ y.idelta = xi + e
          BY <2>1, <2>2, <3>1
        <4>2. BlocksIn(r2, d) = nb + (a + c) /\ BlocksIn(r, d) = nb
          BY <1>6, <3>1 DEF BlocksIn
        <4>3. ((xd + a) - xd) + ((xl + c) - xl) = (nb + (a + c)) - nb
          OBVIOUS
        <4>4. (xl + c) - xl = dl - (dl - c)
          OBVIOUS
        <4>5. (xi + e) - xi = CountIn(r2, d) - CountIn(r, d)
          <5>1. PICK v \in Int : v = IF r.live THEN 1 ELSE 0
            OBVIOUS
          <5>2. CountIn(r, d) = v /\ CountIn(r2, d) = v + e
            BY <3>1, <5>1 DEF CountIn
          <5>3. (xi + e) - xi = (v + e) - v
            OBVIOUS
          <5> QED BY <5>2, <5>3
        <4> QED BY <2>2, <2>4, <2>5, <3>1, <4>1, <4>2, <4>3, <4>4, <4>5
      <3>2. CASE d \notin {r.u, r.g}
        <4>1. y = x
          BY <2>1, <3>2
        <4>2. BlocksIn(r2, d) = 0 /\ BlocksIn(r, d) = 0 /\ CountIn(r2, d) = 0 /\ CountIn(r, d) = 0
          BY <3>2 DEF BlocksIn, CountIn
        <4>3. (xd - xd) + (xl - xl) = 0 - 0 /\ xl - xl = 0 - 0 /\ xi - xi = 0 - 0
          OBVIOUS
        <4> QED BY <2>2, <2>4, <2>5, <3>2, <4>1, <4>2, <4>3
      <3> QED BY <3>1, <3>2
    <2>7. PICK q \in Dquot : q = dq[d] /\ (q.timer # "off" <=> Over(d, q.b))
      BY <1>4
    <2>8. Moved(d, q, q, f, f2, r, r2)
      BY <1>1, <1>3, <2>1, <2>3, <2>6, <2>7, ModMoves
    <2> QED BY <2>7, <2>8
  <1>8. TaskOK(f2, r2)
    <2>1. PlaceOK(f2, r2)
      BY <1>1, <1>3 DEF TaskOK, PlaceOK, Reserving, Giving
    <2>2. ReservedOK(f2, r2)
      <3>1. f.pc = "noresv" => \A d \in Dquots : HasRes(qa[d], 0, 0)
        BY <1>1 DEF TaskOK, ReservedOK, HasRes
      <3> QED BY <1>3, <3>1 DEF ReservedOK, Reserving
    <2>3. PartsOK(f2, r2)
      <3>1. ASSUME NEW d \in Dquots
            PROVE  /\ TrxOK(qa[d]) /\ (f.pc = "open" /\ ~r2.live => qa[d].iused = 0)
                   /\ f.pc = "noresv" /\ d \in {r.u, r.g} => qa[d].delta + qa[d].del <= r2.nblocks
        <4>1. CASE d \notin {r.u, r.g}
          BY <1>1, <4>1 DEF TaskOK, PartsOK
        <4>2. CASE d \in {r.u, r.g}
          <5>1. PICK xd \in Int, xl \in Int : xd = f.qa[d].delta /\ xl = f.qa[d].del
            BY <1>5 DEF Trx
          <5>2. f.pc = "noresv" => xd + xl <= nb
            BY <1>1, <1>6, <4>2, <5>1 DEF TaskOK, PartsOK
          <5>3. f.pc = "noresv" => (xd + a) + (xl + c) <= nb + (a + c)
            BY <5>2
          <5> QED BY <1>6, <4>2, <5>1, <5>3
        <4> QED BY <4>1, <4>2
      <3> QED BY <1>3, <3>1 DEF PartsOK
    <2> QED BY <2>1, <2>2, <2>3 DEF TaskOK
  <1>9. dq' = dq /\ calls' \in Nat
    BY DEF TdCorrect, TdBase, TdTypeOK
  <1> QED BY <1>1, <1>2, <1>3, <1>4, <1>7, <1>8, <1>9, StepKeeps

Fields == {"bcount", "delbcount", "icount"}

LEMMA ModDoes ==
  ASSUME NEW x \in Trx, NEW field \in Fields, NEW m \in Int, NEW y, y = ModDquot(x, field, m)
  PROVE  /\ y \in Trx /\ y.res = x.res /\ y.ires = x.ires
         /\ y.delta = x.delta + (IF field = "bcount" THEN m ELSE 0)
         /\ y.del = x.del + (IF field = "delbcount" THEN m ELSE 0)
         /\ y.idelta = x.idelta + (IF field = "icount" THEN m ELSE 0)
         /\ y.used = x.used + (IF field = "bcount" /\ x.res # 0 /\ m > 0 THEN m ELSE 0)
         /\ y.iused = x.iused + (IF field = "icount" /\ x.ires # 0 /\ m > 0 THEN m ELSE 0)
  <1>1. PICK taken \in Int, delta \in Int, del \in Int, iused \in Int, idelta \in Int :
          taken = x.used /\ delta = x.delta /\ del = x.del /\ iused = x.iused /\ idelta = x.idelta
    BY DEF Trx
  <1>2. taken + 0 = taken /\ delta + 0 = delta /\ del + 0 = del /\ iused + 0 = iused /\ idelta + 0 = idelta
    OBVIOUS
  <1>3. CASE field = "bcount"
    <2>1. PICK v \in Int, w \in Int : v = taken + (IF x.res # 0 /\ m > 0 THEN m ELSE 0) /\ w = delta + m
      OBVIOUS
    <2>2. (IF x.res # 0 /\ m > 0 THEN x.used + m ELSE x.used) = v
      BY <1>1, <1>2, <2>1
    <2>3. y = [x EXCEPT !.used = v, !.delta = w]
      BY <1>1, <1>3, <2>1, <2>2 DEF ModDquot, ModBcount
    <2>4. /\ y \in Trx /\ y.res = x.res /\ y.ires = x.ires /\ y.used = v /\ y.delta = w /\ y.del = del
          /\ y.iused = iused /\ y.idelta = idelta
      BY <1>1, <2>3 DEF Trx
    <2> QED BY <1>1, <1>2, <1>3, <2>1, <2>4
  <1>4. CASE field = "delbcount"
    <2>1. PICK w \in Int : w = del + m
      OBVIOUS
    <2>2. y = [x EXCEPT !.del = w]
      BY <1>1, <1>4, <2>1 DEF ModDquot, ModDelbcount
    <2>3. /\ y \in Trx /\ y.res = x.res /\ y.ires = x.ires /\ y.used = taken /\ y.delta = delta /\ y.del = w
          /\ y.iused = iused /\ y.idelta = idelta
      BY <1>1, <2>2 DEF Trx
    <2> QED BY <1>1, <1>2, <1>4, <2>1, <2>3
  <1>5. CASE field = "icount"
    <2>1. PICK v \in Int, w \in Int : v = iused + (IF x.ires # 0 /\ m > 0 THEN m ELSE 0) /\ w = idelta + m
      OBVIOUS
    <2>2. (IF x.ires # 0 /\ m > 0 THEN x.iused + m ELSE x.iused) = v
      BY <1>1, <1>2, <2>1
    <2>3. y = [x EXCEPT !.iused = v, !.idelta = w]
      BY <1>1, <1>5, <2>1, <2>2 DEF ModDquot, ModIcount
    <2>4. /\ y \in Trx /\ y.res = x.res /\ y.ires = x.ires /\ y.used = taken /\ y.delta = delta /\ y.del = del
          /\ y.iused = v /\ y.idelta = w
      BY <1>1, <2>3 DEF Trx
    <2> QED BY <1>1, <1>2, <1>5, <2>1, <2>4
  <1> QED BY <1>3, <1>4, <1>5 DEF Fields

\* What a transaction counts stays covered by what it reserved, if it takes no more than that.
LEMMA ModFits ==
  ASSUME NEW x \in Trx, TrxOK(x), NEW field \in Fields, NEW m \in Int,
         field = "bcount" /\ x.res # 0 => m >= 0 /\ x.used + m <= x.res,
         field = "icount" /\ x.ires # 0 => m >= 0 /\ x.iused + m <= x.ires,
         field = "delbcount" => m >= 0
  PROVE  TrxOK(ModDquot(x, field, m))
  <1>1. PICK y : y = ModDquot(x, field, m)
    OBVIOUS
  <1>2. PICK res \in Int, taken \in Int, delta \in Int, del \in Int, ires \in Int, iused \in Int, idelta \in Int :
          /\ res = x.res /\ taken = x.used /\ delta = x.delta /\ del = x.del
          /\ ires = x.ires /\ iused = x.iused /\ idelta = x.idelta
    BY DEF Trx
  <1>3. /\ y.res = res /\ y.ires = ires
        /\ y.delta = delta + (IF field = "bcount" THEN m ELSE 0)
        /\ y.del = del + (IF field = "delbcount" THEN m ELSE 0)
        /\ y.idelta = idelta + (IF field = "icount" THEN m ELSE 0)
        /\ y.used = taken + (IF field = "bcount" /\ res # 0 /\ m > 0 THEN m ELSE 0)
        /\ y.iused = iused + (IF field = "icount" /\ ires # 0 /\ m > 0 THEN m ELSE 0)
    <2>1. /\ y.res = x.res /\ y.ires = x.ires
          /\ y.delta = x.delta + (IF field = "bcount" THEN m ELSE 0)
          /\ y.del = x.del + (IF field = "delbcount" THEN m ELSE 0)
          /\ y.idelta = x.idelta + (IF field = "icount" THEN m ELSE 0)
          /\ y.used = x.used + (IF field = "bcount" /\ x.res # 0 /\ m > 0 THEN m ELSE 0)
          /\ y.iused = x.iused + (IF field = "icount" /\ x.ires # 0 /\ m > 0 THEN m ELSE 0)
      BY <1>1, ModDoes
    <2> QED BY <1>2, <2>1
  <1>4. /\ 0 <= taken /\ taken <= res /\ (res # 0 => delta = taken)
        /\ 0 <= iused /\ iused <= ires /\ (ires # 0 => idelta = iused) /\ del >= 0
    BY <1>2 DEF TrxOK
  <1>5. /\ 0 <= y.used /\ y.used <= y.res /\ (y.res # 0 => y.delta = y.used)
    <2>1. CASE field = "bcount" /\ res # 0
      BY <1>2, <1>3, <1>4, <2>1
    <2>2. CASE field # "bcount" \/ res = 0
      BY <1>3, <1>4, <2>2
    <2> QED BY <2>1, <2>2
  <1>6. /\ 0 <= y.iused /\ y.iused <= y.ires /\ (y.ires # 0 => y.idelta = y.iused)
    <2>1. CASE field = "icount" /\ ires # 0
      BY <1>2, <1>3, <1>4, <2>1
    <2>2. CASE field # "icount" \/ ires = 0
      BY <1>3, <1>4, <2>2
    <2> QED BY <2>1, <2>2
  <1>7. y.del >= 0
    BY <1>3, <1>4
  <1> QED BY <1>1, <1>5, <1>6, <1>7 DEF TrxOK

\* xfs_trans_mod_dquot_byino together with the change of the inode that it is for
Counts(f, field, m, r, r2) ==
  /\ r2.u = r.u /\ r2.g = r.g /\ LiveOK(r2) /\ (f.pc = "open" => r2.live)
  /\ r2.nblocks = r.nblocks + (IF field \in {"bcount", "delbcount"} THEN m ELSE 0)
  /\ r2.del = r.del - (IF field = "delbcount" THEN m ELSE 0)
  /\ (IF r2.live THEN 1 ELSE 0) = (IF r.live THEN 1 ELSE 0) + (IF field = "icount" THEN m ELSE 0)
  /\ \A d \in Dquots : d \in {r.u, r.g} => TrxOK(ModDquot(f.qa[d], field, m))

LEMMA ByInoKeeps ==
  ASSUME TdCorrect, NEW t \in Tasks, NEW f, f = tp[t], f.pc \in {"open", "noresv"}, NEW r, r = ip[f.i],
         NEW field \in Fields, NEW m \in Int, NEW r2 \in Inode, Counts(f, field, m, r, r2),
         tp' = [tp EXCEPT ![t] = ByIno(f, field, m)], ip' = [ip EXCEPT ![f.i] = r2], UNCHANGED <<dq, calls>>
  PROVE  TdCorrect'
  <1>1. PICK a \in Int, c \in Int, e \in Int :
          /\ a = (IF field = "bcount" THEN m ELSE 0) /\ c = (IF field = "delbcount" THEN m ELSE 0)
          /\ e = (IF field = "icount" THEN m ELSE 0)
    OBVIOUS
  <1>2. f \in Task
    BY AtWork
  <1>3. PICK qa : qa = [d \in Dquots |-> IF d \in {r.u, r.g} THEN ModDquot(f.qa[d], field, m) ELSE f.qa[d]]
    OBVIOUS
  <1>4. ByIno(f, field, m) = [f EXCEPT !.qa = qa]
    BY <1>3 DEF ByIno
  <1>5. \A d \in Dquots : f.qa[d] \in Trx
    BY <1>2 DEF Task
  <1>6. ASSUME NEW d \in Dquots
        PROVE  /\ qa[d] \in Trx /\ (d \notin {r.u, r.g} => qa[d] = f.qa[d])
               /\ d \in {r.u, r.g} =>
                    /\ TrxOK(qa[d]) /\ qa[d].res = f.qa[d].res /\ qa[d].ires = f.qa[d].ires
                    /\ qa[d].delta = f.qa[d].delta + a /\ qa[d].del = f.qa[d].del + c
                    /\ qa[d].idelta = f.qa[d].idelta + e
    <2>1. CASE d \in {r.u, r.g}
      <3>1. PICK x, y : x = f.qa[d] /\ y = ModDquot(x, field, m)
        OBVIOUS
      <3>2. x \in Trx
        BY <1>5, <3>1
      <3>3. /\ y \in Trx /\ y.res = x.res /\ y.ires = x.ires
            /\ y.delta = x.delta + a /\ y.del = x.del + c /\ y.idelta = x.idelta + e
        <4>1. /\ y \in Trx /\ y.res = x.res /\ y.ires = x.ires
              /\ y.delta = x.delta + (IF field = "bcount" THEN m ELSE 0)
              /\ y.del = x.del + (IF field = "delbcount" THEN m ELSE 0)
              /\ y.idelta = x.idelta + (IF field = "icount" THEN m ELSE 0)
          BY <3>1, <3>2, ModDoes
        <4>2. y.delta = x.delta + a
          BY <1>1, <4>1
        <4>3. y.del = x.del + c
          BY <1>1, <4>1
        <4>4. y.idelta = x.idelta + e
          BY <1>1, <4>1
        <4> QED BY <4>1, <4>2, <4>3, <4>4
      <3>4. qa[d] = y /\ TrxOK(y)
        BY <1>3, <2>1, <3>1 DEF Counts
      <3> QED BY <2>1, <3>1, <3>3, <3>4
    <2>2. CASE d \notin {r.u, r.g}
      BY <1>3, <1>5, <2>2
    <2> QED BY <2>1, <2>2
  <1>7. qa \in [Dquots -> Trx]
    BY <1>3, <1>6
  <1>8. tp' = [tp EXCEPT ![t] = [f EXCEPT !.qa = qa]] /\ UNCHANGED <<dq, calls>>
    BY <1>4
  <1>9. /\ r2.u = r.u /\ r2.g = r.g /\ r2.nblocks = r.nblocks + (a + c) /\ r2.del = r.del - c /\ LiveOK(r2)
        /\ (IF r2.live THEN 1 ELSE 0) = (IF r.live THEN 1 ELSE 0) + e
        /\ (f.pc = "open" => r2.live)
    <2>1. (IF field \in {"bcount", "delbcount"} THEN m ELSE 0) = a + c
      BY <1>1
    <2> QED BY <1>1, <2>1 DEF Counts
  <1>10. \A d \in Dquots : d \in {r.u, r.g} =>
           /\ TrxOK(qa[d]) /\ qa[d].res = f.qa[d].res /\ qa[d].ires = f.qa[d].ires
           /\ qa[d].delta = f.qa[d].delta + a /\ qa[d].del = f.qa[d].del + c
           /\ qa[d].idelta = f.qa[d].idelta + e /\ (f.pc = "open" /\ ~r2.live => qa[d].iused = 0)
    BY <1>6, <1>9
  <1>11. \A d \in Dquots : d \notin {r.u, r.g} => qa[d] = f.qa[d]
    BY <1>6
  <1>12. Mods(f, r, r2, qa, a, c, e)
    BY <1>9, <1>10, <1>11 DEF Mods
  <1> QED BY <1>7, <1>8, <1>12, ModKeeps

\* Blocks that an inode gains or loses; a reservation covers what it gains.
Covers(f, r, m) ==
  \A d \in {r.u, r.g} : f.qa[d].res # 0 => m >= 0 /\ f.qa[d].used + m <= f.qa[d].res
LEMMA BlocksKeep ==
  ASSUME TdCorrect, NEW t \in Tasks, NEW f, f = tp[t], f.pc \in {"open", "noresv"}, NEW r, r = ip[f.i],
         r.live, NEW m \in Int, r.nblocks + m >= 0,
         Covers(f, r, m),
         tp' = [tp EXCEPT ![t] = ByIno(f, "bcount", m)], ip' = [ip EXCEPT ![f.i].nblocks = @ + m],
         UNCHANGED <<dq, calls>>
  PROVE  TdCorrect'
  <1>1. f \in Task /\ f.i \in Inodes /\ r \in Inode /\ TaskOK(f, r) /\ ip \in [Inodes -> Inode]
    BY AtWork DEF TdCorrect, TdBase, TdTypeOK
  <1>2. PICK n \in Nat : n = r.nblocks + m
    BY <1>1 DEF Inode
  <1>3. PICK r2, field : r2 = [r EXCEPT !.nblocks = n] /\ field = "bcount"
    OBVIOUS
  <1>4. /\ r2 \in Inode /\ r2.live = r.live /\ r2.u = r.u /\ r2.g = r.g /\ r2.del = r.del
        /\ r2.nblocks = r.nblocks + m
    BY <1>1, <1>2, <1>3 DEF Inode
  <1>5. ip' = [ip EXCEPT ![f.i] = r2] /\ tp' = [tp EXCEPT ![t] = ByIno(f, field, m)] /\ field \in Fields
    BY <1>1, <1>2, <1>3 DEF Fields
  <1>6. ASSUME NEW d \in Dquots, d \in {r.u, r.g} PROVE TrxOK(ModDquot(f.qa[d], field, m))
    <2>1. f.qa[d] \in Trx /\ TrxOK(f.qa[d])
      BY <1>1 DEF Task, TaskOK, PartsOK
    <2>2. f.qa[d].res # 0 => m >= 0 /\ f.qa[d].used + m <= f.qa[d].res
      BY <1>6 DEF Covers
    <2>3. field = "bcount" /\ field \in Fields
      BY <1>3, <1>5
    <2> QED BY <2>1, <2>2, <2>3, ModFits
  <1>7. Counts(f, field, m, r, r2)
    <2>1. r.del - 0 = r.del
      BY <1>1 DEF Inode
    <2>2. (IF r2.live THEN 1 ELSE 0) = (IF r.live THEN 1 ELSE 0) + 0
      BY <1>4
    <2>3. (IF field \in {"bcount", "delbcount"} THEN m ELSE 0) = m
      BY <1>3
    <2>4. field # "delbcount" /\ field # "icount"
      BY <1>3
    <2>5. r2.del = r.del - (IF field = "delbcount" THEN m ELSE 0)
      BY <1>4, <2>1, <2>4
    <2>6. LiveOK(r2)
      BY <1>4 DEF LiveOK
    <2> QED BY <1>4, <1>6, <2>2, <2>3, <2>4, <2>5, <2>6 DEF Counts
  <1>8. r2 \in Inode
    BY <1>4
  <1>9. ip' = [ip EXCEPT ![f.i] = r2]
    BY <1>5
  <1>10. tp' = [tp EXCEPT ![t] = ByIno(f, field, m)]
    BY <1>5
  <1>11. field \in Fields
    BY <1>5
  <1>12. f = tp[t] /\ r = ip[f.i] /\ f.pc \in {"open", "noresv"} /\ m \in Int
    OBVIOUS
  <1>13. UNCHANGED <<dq, calls>>
    OBVIOUS
  <1> QED BY <1>7, <1>8, <1>9, <1>10, <1>11, <1>12, <1>13, ByInoKeeps

LEMMA AllocKeeps ==
  ASSUME TdCorrect, NEW t \in Tasks, Alloc(t)
  PROVE  TdCorrect'
  <1>1. PICK f, r : f = tp[t] /\ r = ip[f.i]
    OBVIOUS
  <1>2. f.pc = "open" /\ r.live /\ UNCHANGED <<dq, calls>>
    BY <1>1 DEF Alloc
  <1>3. PICK m \in 1 .. MaxRes :
          /\ \A d \in Mapped(f.i) : f.qa[d].used + m <= f.qa[d].res
          /\ tp' = [tp EXCEPT ![t] = ByIno(f, "bcount", m)]
          /\ ip' = [ip EXCEPT ![f.i].nblocks = @ + m]
    BY <1>1 DEF Alloc
  <1>4. r \in Inode
    BY <1>1, <1>2, AtWork
  <1>5. m \in Int /\ m >= 0 /\ r.nblocks + m >= 0
    BY <1>3, <1>4, TdAssumption DEF Inode
  <1>6. Covers(f, r, m)
    BY <1>1, <1>3, <1>5 DEF Mapped, Covers
  <1> QED BY <1>1, <1>2, <1>3, <1>5, <1>6, BlocksKeep

LEMMA UnreservedIs ==
  ASSUME TdCorrect, NEW t \in Tasks, tp[t].pc = "noresv"
  PROVE  \A d \in Dquots : tp[t].qa[d] \in Trx /\ tp[t].qa[d].res = 0 /\ tp[t].qa[d].ires = 0
  BY AtWork DEF TaskOK, ReservedOK, HasRes, Task

LEMMA AllocUnreservedKeeps ==
  ASSUME TdCorrect, NEW t \in Tasks, AllocUnreserved(t)
  PROVE  TdCorrect'
  <1>1. PICK f, r : f = tp[t] /\ r = ip[f.i]
    OBVIOUS
  <1>2. f.pc = "noresv" /\ UNCHANGED <<dq, calls>>
    BY <1>1 DEF AllocUnreserved
  <1>3. /\ \A d \in {r.u, r.g} : f.qa[d].delta = 0 /\ f.qa[d].del # 0
        /\ tp' = [tp EXCEPT ![t] = ByIno(f, "bcount", 1)] /\ ip' = [ip EXCEPT ![f.i].nblocks = @ + 1]
    BY <1>1 DEF AllocUnreserved, Mapped
  <1>4. f \in Task /\ r \in Inode /\ TaskOK(f, r) /\ LiveOK(r)
    BY <1>1, <1>2, AtWork
  <1>5. r.live
    <2>1. r.u \in Dquots
      BY <1>4, OwnersAre
    <2>2. PICK x \in Trx : x = f.qa[r.u]
      BY <1>4, <2>1 DEF Task
    <2>3. TrxOK(x) /\ x.delta + x.del <= r.nblocks /\ x.delta = 0 /\ x.del # 0
      BY <1>2, <1>3, <1>4, <2>1, <2>2 DEF TaskOK, PartsOK
    <2>4. r.nblocks # 0
      BY <2>3 DEF TrxOK, Trx
    <2> QED BY <1>4, <2>4 DEF LiveOK
  <1>6. PICK m \in Int : m = 1
    OBVIOUS
  <1>7. r.nblocks + m >= 0
    BY <1>4, <1>6 DEF Inode
  <1>8. tp' = [tp EXCEPT ![t] = ByIno(f, "bcount", m)] /\ ip' = [ip EXCEPT ![f.i].nblocks = @ + m]
    BY <1>3, <1>6
  <1>9. Covers(f, r, m)
    <2>1. r.u \in Dquots /\ r.g \in Dquots
      BY <1>4, OwnersAre
    <2>2. f.qa[r.u].res = 0 /\ f.qa[r.g].res = 0
      BY <1>1, <1>2, <2>1, UnreservedIs
    <2> QED BY <2>2 DEF Covers
  <1> QED BY <1>1, <1>2, <1>5, <1>7, <1>8, <1>9, BlocksKeep

LEMMA FreeKeeps ==
  ASSUME TdCorrect, ~MixedFree, NEW t \in Tasks, Free(t)
  PROVE  TdCorrect'
  <1>1. PICK f, r : f = tp[t] /\ r = ip[f.i]
    OBVIOUS
  <1>2. f.pc = "noresv" /\ UNCHANGED <<dq, calls>>
    BY <1>1 DEF Free
  <1>3. PICK n \in 1 .. r.nblocks : /\ tp' = [tp EXCEPT ![t] = ByIno(f, "bcount", -n)]
                                    /\ ip' = [ip EXCEPT ![f.i].nblocks = @ - n]
    BY <1>1 DEF Free
  <1>4. /\ r \in Inode /\ f.i \in Inodes /\ LiveOK(r) /\ ip \in [Inodes -> Inode]
        /\ r.nblocks \in Int
    BY <1>1, <1>2, AtWork DEF Inode, TdCorrect, TdBase, TdTypeOK
  <1>5. PICK m \in Int : m = -n
    BY <1>3, <1>4
  <1>6. r.nblocks - n = r.nblocks + m /\ r.nblocks + m >= 0
    BY <1>3, <1>4, <1>5
  <1>7. r.live
    BY <1>3, <1>4 DEF LiveOK
  <1>8. ip' = [ip EXCEPT ![f.i].nblocks = @ + m] /\ tp' = [tp EXCEPT ![t] = ByIno(f, "bcount", m)]
    BY <1>1, <1>3, <1>4, <1>5, <1>6
  <1>9. Covers(f, r, m)
    <2>1. r.u \in Dquots /\ r.g \in Dquots
      BY <1>4, OwnersAre
    <2>2. f.qa[r.u].res = 0 /\ f.qa[r.g].res = 0
      BY <1>1, <1>2, <2>1, UnreservedIs
    <2> QED BY <2>2 DEF Covers
  <1> QED BY <1>1, <1>2, <1>6, <1>7, <1>8, <1>9, BlocksKeep

LEMMA ConvertKeeps ==
  ASSUME TdCorrect, NEW t \in Tasks, Convert(t)
  PROVE  TdCorrect'
  <1>1. PICK f, r : f = tp[t] /\ r = ip[f.i]
    OBVIOUS
  <1>2. f.pc = "noresv" /\ UNCHANGED <<dq, calls>>
    BY <1>1 DEF Convert
  <1>3. PICK m \in 1 .. r.del : /\ tp' = [tp EXCEPT ![t] = ByIno(f, "delbcount", m)]
                                /\ ip' = [ip EXCEPT ![f.i].nblocks = @ + m, ![f.i].del = @ - m]
    BY <1>1 DEF Convert
  <1>4. /\ f \in Task /\ r \in Inode /\ f.i \in Inodes /\ LiveOK(r) /\ TaskOK(f, r) /\ ip \in [Inodes -> Inode]
        /\ r.nblocks \in Nat /\ r.del \in Nat
    BY <1>1, <1>2, AtWork DEF Inode, TdCorrect, TdBase, TdTypeOK
  <1>5. PICK nb \in Nat, dl \in Nat : nb = r.nblocks + m /\ dl = r.del - m
    BY <1>3, <1>4
  <1>6. PICK r2, field : r2 = [r EXCEPT !.nblocks = nb, !.del = dl] /\ field = "delbcount"
    OBVIOUS
  <1>7. /\ r2 \in Inode /\ r2.live = r.live /\ r2.u = r.u /\ r2.g = r.g /\ r2.del = dl /\ r2.nblocks = nb
    BY <1>4, <1>6 DEF Inode
  <1>8. r.live
    BY <1>3, <1>4 DEF LiveOK
  <1>9. ip' = [ip EXCEPT ![f.i] = r2] /\ tp' = [tp EXCEPT ![t] = ByIno(f, field, m)] /\ field \in Fields
    BY <1>1, <1>3, <1>4, <1>5, <1>6 DEF Fields, Inode
  <1>10. m \in Int /\ m >= 0
    BY <1>3, <1>4
  <1>11. ASSUME NEW d \in Dquots, d \in {r.u, r.g} PROVE TrxOK(ModDquot(f.qa[d], field, m))
    <2>1. f.qa[d] \in Trx /\ TrxOK(f.qa[d])
      BY <1>4 DEF Task, TaskOK, PartsOK
    <2>2. field = "delbcount" /\ field \in Fields
      BY <1>6, <1>9
    <2> QED BY <1>10, <2>1, <2>2, ModFits
  <1>12. Counts(f, field, m, r, r2)
    <2>1. (IF r2.live THEN 1 ELSE 0) = (IF r.live THEN 1 ELSE 0) + 0
      BY <1>7
    <2> QED BY <1>5, <1>6, <1>7, <1>8, <1>11, <2>1 DEF Counts, LiveOK
  <1> QED BY <1>1, <1>2, <1>7, <1>9, <1>10, <1>12, ByInoKeeps

\* Thread f makes an inode of r, or frees it: it counts m inodes more.
Turns(f, r, live, m) ==
  /\ live \in BOOLEAN /\ (f.pc = "open" => live)
  /\ r.nblocks = 0 /\ r.del = 0
  /\ (IF live THEN 1 ELSE 0) = (IF r.live THEN 1 ELSE 0) + m
  /\ \A d \in {r.u, r.g} : f.qa[d].ires # 0 => m >= 0 /\ f.qa[d].iused + m <= f.qa[d].ires

\* An inode is created or goes, and its owners' counts with it.
LEMMA InodesKeep ==
  ASSUME TdCorrect, NEW t \in Tasks, NEW f, f = tp[t], f.pc \in {"open", "noresv"}, NEW r, r = ip[f.i],
         NEW live, NEW m \in Int, Turns(f, r, live, m),
         tp' = [tp EXCEPT ![t] = ByIno(f, "icount", m)], ip' = [ip EXCEPT ![f.i].live = live],
         UNCHANGED <<dq, calls>>
  PROVE  TdCorrect'
  <1>1. f \in Task /\ f.i \in Inodes /\ r \in Inode /\ TaskOK(f, r) /\ ip \in [Inodes -> Inode]
    BY AtWork DEF TdCorrect, TdBase, TdTypeOK
  <1>2. PICK r2, field : r2 = [r EXCEPT !.live = live] /\ field = "icount"
    OBVIOUS
  <1>3. r2 \in Inode /\ r2.live = live /\ r2.u = r.u /\ r2.g = r.g /\ r2.del = 0 /\ r2.nblocks = 0
    BY <1>1, <1>2 DEF Inode, Turns
  <1>4. ip' = [ip EXCEPT ![f.i] = r2] /\ tp' = [tp EXCEPT ![t] = ByIno(f, field, m)] /\ field \in Fields
    BY <1>1, <1>2 DEF Fields
  <1>5. ASSUME NEW d \in Dquots, d \in {r.u, r.g} PROVE TrxOK(ModDquot(f.qa[d], field, m))
    <2>1. f.qa[d] \in Trx /\ TrxOK(f.qa[d])
      BY <1>1 DEF Task, TaskOK, PartsOK
    <2>2. f.qa[d].ires # 0 => m >= 0 /\ f.qa[d].iused + m <= f.qa[d].ires
      BY <1>5 DEF Turns
    <2>3. field = "icount" /\ field \in Fields
      BY <1>2, <1>4
    <2> QED BY <2>1, <2>2, <2>3, ModFits
  <1>6. Counts(f, field, m, r, r2)
    <2>1. (IF field \in {"bcount", "delbcount"} THEN m ELSE 0) = 0 /\ (IF field = "delbcount" THEN m ELSE 0) = 0
      BY <1>2
    <2>2. (IF field = "icount" THEN m ELSE 0) = m
      BY <1>2
    <2>3. /\ r2.nblocks = r.nblocks + 0 /\ r2.del = r.del - 0 /\ LiveOK(r2)
          /\ (IF r2.live THEN 1 ELSE 0) = (IF r.live THEN 1 ELSE 0) + m
      BY <1>3 DEF LiveOK, Turns
    <2>4. f.pc = "open" => r2.live
      BY <1>3 DEF Turns
    <2> QED BY <1>3, <1>5, <2>1, <2>2, <2>3, <2>4 DEF Counts
  <1>7. r2 \in Inode
    BY <1>3
  <1>8. ip' = [ip EXCEPT ![f.i] = r2]
    BY <1>4
  <1>9. tp' = [tp EXCEPT ![t] = ByIno(f, field, m)]
    BY <1>4
  <1>10. field \in Fields
    BY <1>4
  <1>11. f = tp[t] /\ r = ip[f.i] /\ f.pc \in {"open", "noresv"} /\ m \in Int
    OBVIOUS
  <1>12. UNCHANGED <<dq, calls>>
    OBVIOUS
  <1> QED BY <1>6, <1>7, <1>8, <1>9, <1>10, <1>11, <1>12, ByInoKeeps

LEMMA CreateKeeps ==
  ASSUME TdCorrect, NEW t \in Tasks, Create(t)
  PROVE  TdCorrect'
  <1>1. PICK f, r : f = tp[t] /\ r = ip[f.i]
    OBVIOUS
  <1>2. f.pc = "open" /\ ~r.live /\ UNCHANGED <<dq, calls>>
    BY <1>1 DEF Create
  <1>3. tp' = [tp EXCEPT ![t] = ByIno(f, "icount", 1)] /\ ip' = [ip EXCEPT ![f.i].live = TRUE]
    BY <1>1 DEF Create
  <1>4. f \in Task /\ r \in Inode /\ TaskOK(f, r) /\ LiveOK(r)
    BY <1>1, <1>2, AtWork
  <1>5. PICK m \in Int : m = 1
    OBVIOUS
  <1>6. PICK live : live = TRUE
    OBVIOUS
  <1>7. m = 1 /\ live = TRUE /\ live \in BOOLEAN
    BY <1>5, <1>6
  <1>8. tp' = [tp EXCEPT ![t] = ByIno(f, "icount", m)] /\ ip' = [ip EXCEPT ![f.i].live = live]
    BY <1>3, <1>7
  <1>9. r.nblocks = 0 /\ r.del = 0
    BY <1>2, <1>4 DEF LiveOK
  <1>10. ASSUME NEW d \in {r.u, r.g} PROVE f.qa[d].ires # 0 => m >= 0 /\ f.qa[d].iused + m <= f.qa[d].ires
    <2>1. d \in Dquots
      BY <1>4, OwnersAre
    <2>2. PICK x \in Trx : x = f.qa[d]
      BY <1>4, <2>1 DEF Task
    <2>3. x.iused = 0 /\ TrxOK(x)
      BY <1>2, <1>4, <2>1, <2>2 DEF TaskOK, PartsOK
    <2>4. x.ires # 0 => m >= 0 /\ x.iused + m <= x.ires
      BY <1>7, <2>3 DEF TrxOK, Trx
    <2> QED BY <2>2, <2>4
  <1>11. (IF live THEN 1 ELSE 0) = (IF r.live THEN 1 ELSE 0) + m
    BY <1>2, <1>7
  <1>12. f.pc = "open" => live
    BY <1>7
  <1>13. f.pc \in {"open", "noresv"}
    BY <1>2
  <1>14. Turns(f, r, live, m)
    BY <1>7, <1>9, <1>10, <1>11, <1>12 DEF Turns
  <1> QED BY <1>1, <1>2, <1>8, <1>13, <1>14, InodesKeep

LEMMA InactiveKeeps ==
  ASSUME TdCorrect, NEW t \in Tasks, Inactive(t)
  PROVE  TdCorrect'
  <1>1. PICK f, r : f = tp[t] /\ r = ip[f.i]
    OBVIOUS
  <1>2. f.pc = "noresv" /\ r.live /\ r.nblocks = 0 /\ r.del = 0 /\ UNCHANGED <<dq, calls>>
    BY <1>1 DEF Inactive
  <1>3. tp' = [tp EXCEPT ![t] = ByIno(f, "icount", -1)] /\ ip' = [ip EXCEPT ![f.i].live = FALSE]
    BY <1>1 DEF Inactive
  <1>4. f \in Task /\ r \in Inode /\ TaskOK(f, r)
    BY <1>1, <1>2, AtWork
  <1>5. PICK m \in Int : m = -1
    OBVIOUS
  <1>6. PICK live : live = FALSE
    OBVIOUS
  <1>7. m = -1 /\ live = FALSE /\ live \in BOOLEAN
    BY <1>5, <1>6
  <1>8. tp' = [tp EXCEPT ![t] = ByIno(f, "icount", m)] /\ ip' = [ip EXCEPT ![f.i].live = live]
    BY <1>3, <1>7
  <1>9. \A d \in {r.u, r.g} : f.qa[d].ires # 0 => m >= 0 /\ f.qa[d].iused + m <= f.qa[d].ires
    <2>1. r.u \in Dquots /\ r.g \in Dquots
      BY <1>4, OwnersAre
    <2>2. f.qa[r.u].ires = 0 /\ f.qa[r.g].ires = 0
      BY <1>1, <1>2, <2>1, UnreservedIs
    <2> QED BY <2>2
  <1>10. (IF live THEN 1 ELSE 0) = (IF r.live THEN 1 ELSE 0) + m
    BY <1>2, <1>7
  <1>11. f.pc = "open" => live
    BY <1>2
  <1>12. f.pc \in {"open", "noresv"}
    BY <1>2
  <1>13. Turns(f, r, live, m)
    BY <1>2, <1>7, <1>9, <1>10, <1>11 DEF Turns
  <1> QED BY <1>1, <1>2, <1>8, <1>12, <1>13, InodesKeep

\* What xfs_qm_vop_chown counts for a dquot that gets the inode, or loses it
LEMMA MoveIs ==
  ASSUME NEW x \in Trx, Fresh(x), NEW n \in Nat, NEW m \in Int, NEW s \in Int,
         (HasRes(x, n, 1) /\ m = n /\ s = 1) \/ HasRes(x, 0, 0), NEW y, y = ModIcount(ModBcount(x, m), s)
  PROVE  /\ y \in Trx /\ TrxOK(y) /\ y.res = x.res /\ y.ires = x.ires
         /\ y.delta = m /\ y.del = 0 /\ y.idelta = s
  <1>1. PICK z, bc, ic : z = ModBcount(x, m) /\ bc = "bcount" /\ ic = "icount"
    OBVIOUS
  <1>2. z = ModDquot(x, bc, m) /\ bc \in Fields
    BY <1>1 DEF ModDquot, Fields
  <1>3. y = ModDquot(z, ic, s) /\ ic \in Fields
    BY <1>1 DEF ModDquot, Fields
  <1>4. TrxOK(x)
    <2>1. x.res \in Int /\ x.ires \in Int /\ x.res >= 0 /\ x.ires >= 0
      BY DEF HasRes
    <2> QED BY <2>1 DEF Fresh, TrxOK
  <1>5. /\ z \in Trx /\ z.res = x.res /\ z.ires = x.ires
        /\ z.delta = x.delta + (IF bc = "bcount" THEN m ELSE 0)
        /\ z.del = x.del + (IF bc = "delbcount" THEN m ELSE 0)
        /\ z.idelta = x.idelta + (IF bc = "icount" THEN m ELSE 0)
        /\ z.used = x.used + (IF bc = "bcount" /\ x.res # 0 /\ m > 0 THEN m ELSE 0)
        /\ z.iused = x.iused + (IF bc = "icount" /\ x.ires # 0 /\ m > 0 THEN m ELSE 0)
    BY <1>2, ModDoes
  <1>6. z.delta = m /\ z.del = 0 /\ z.idelta = 0 /\ z.iused = 0
    BY <1>1, <1>5 DEF Fresh
  <1>7. TrxOK(z)
    <2>1. bc = "bcount" /\ x.res # 0 => m >= 0 /\ x.used + m <= x.res
      BY DEF HasRes, Fresh
    <2>2. bc # "icount" /\ bc # "delbcount"
      BY <1>1
    <2> QED BY <1>2, <1>4, <2>1, <2>2, ModFits
  <1>8. /\ y \in Trx /\ y.res = z.res /\ y.ires = z.ires
        /\ y.delta = z.delta + (IF ic = "bcount" THEN s ELSE 0)
        /\ y.del = z.del + (IF ic = "delbcount" THEN s ELSE 0)
        /\ y.idelta = z.idelta + (IF ic = "icount" THEN s ELSE 0)
    <2>1. z \in Trx
      BY <1>5
    <2> QED BY <1>3, <2>1, ModDoes
  <1>9. y.delta = m /\ y.del = 0 /\ y.idelta = s
    BY <1>1, <1>6, <1>8
  <1>10. TrxOK(y)
    <2>1. ic = "icount" /\ z.ires # 0 => s >= 0 /\ z.iused + s <= z.ires
      BY <1>5, <1>6 DEF HasRes
    <2>2. ic # "bcount" /\ ic # "delbcount"
      BY <1>1
    <2> QED BY <1>3, <1>5, <1>7, <2>1, <2>2, ModFits
  <1> QED BY <1>5, <1>8, <1>9, <1>10

LEMMA ChownKeeps ==
  ASSUME TdCorrect, NEW t \in Tasks, Chown(t)
  PROVE  TdCorrect'
  <1>1. PICK f, r : f = tp[t] /\ r = ip[f.i]
    OBVIOUS
  <1>2. f.pc = "chown" /\ UNCHANGED <<dq, calls>>
    BY <1>1 DEF Chown
  <1>3. /\ f \in Task /\ f.i \in Inodes /\ r \in Inode /\ TaskOK(f, r) /\ LiveOK(r)
        /\ \A u \in Tasks \ {t} : tp[u].i # f.i
    BY <1>1, <1>2, AtWork
  <1>4. \A d \in Dquots : f.qa[d] \in Trx /\ Fresh(f.qa[d])
    BY <1>2, <1>3, FreshIs
  <1>5. /\ tp \in [Tasks -> Task] /\ ip \in [Inodes -> Inode] /\ dq \in [Dquots -> Dquot] /\ calls' \in Nat
        /\ \A d \in Dquots : dq[d] \in Dquot /\ (dq[d].timer # "off" <=> Over(d, dq[d].b))
    BY <1>2, DquotIs DEF TdCorrect, TdBase, TdTypeOK
  <1>6. f.u # r.u /\ f.g # r.g /\ r.live
    BY <1>2, <1>3 DEF TaskOK, PlaceOK
  <1>7. \A d \in Dquots : IF d \in {f.u, f.g} THEN HasRes(f.qa[d], r.nblocks, 1) ELSE HasRes(f.qa[d], 0, 0)
    BY <1>2, <1>3 DEF TaskOK, ReservedOK
  <1>8. PICK n \in Nat, m \in Int, l \in Int : n = r.nblocks /\ m = 0 - n /\ l = r.del
    BY <1>3 DEF Inode
  <1>9. PICK old : old = (IF f.u # 0 THEN {r.u} ELSE {}) \cup (IF f.g # 0 THEN {r.g} ELSE {})
    OBVIOUS
  <1>10. PICK qa : qa = [d \in Dquots |-> IF d \in {f.u, f.g} THEN ModIcount(ModBcount(f.qa[d], n), 1)
                                          ELSE IF d \in old THEN ModIcount(ModBcount(f.qa[d], m), -1)
                                          ELSE f.qa[d]]
    OBVIOUS
  <1>11. PICK r2 : r2 = [r EXCEPT !.u = IF f.u # 0 THEN f.u ELSE @, !.g = IF f.g # 0 THEN f.g ELSE @]
    OBVIOUS
  <1>12. PICK f2 : f2 = [f EXCEPT !.pc = "open", !.qa = qa]
    OBVIOUS
  <1>13. tp' = [tp EXCEPT ![t] = f2] /\ ip' = [ip EXCEPT ![f.i] = r2] /\ dq' = dq
    <2>1. 1 * n = n /\ (-1) * n = m
      BY <1>8
    <2>2. \A d : d \in old <=> (f.u # 0 /\ d = r.u) \/ (f.g # 0 /\ d = r.g)
      BY <1>9
    <2>3. tp' = [tp EXCEPT ![t].pc = "open", ![t].qa = qa]
      BY <1>1, <1>8, <1>10, <2>1, <2>2 DEF Chown
    <2>4. tp' = [tp EXCEPT ![t] = f2]
      BY <1>1, <1>3, <1>5, <1>12, <2>3 DEF Task
    <2>5. ip' = [ip EXCEPT ![f.i].u = IF f.u # 0 THEN f.u ELSE @, ![f.i].g = IF f.g # 0 THEN f.g ELSE @]
      BY <1>1 DEF Chown
    <2>6. ip' = [ip EXCEPT ![f.i] = r2]
      BY <1>1, <1>3, <1>5, <1>11, <2>5 DEF Inode
    <2> QED BY <1>2, <2>4, <2>6
  <1>14. /\ f.u \in Uids \cup {0} /\ f.g \in Gids \cup {0} /\ r.u \in Uids /\ r.g \in Gids
         /\ Uids \cap Gids = {} /\ 0 \notin Dquots
    BY <1>3, TdAssumption DEF Task, Inode
  <1>15. /\ r2 \in Inode /\ r2.live = r.live /\ r2.nblocks = r.nblocks /\ r2.del = r.del
         /\ {r2.u, r2.g} = NewOwners(f, r)
    <2>1. /\ r2.u = (IF f.u # 0 THEN f.u ELSE r.u) /\ r2.g = (IF f.g # 0 THEN f.g ELSE r.g)
          /\ r2.live = r.live /\ r2.nblocks = r.nblocks /\ r2.del = r.del /\ r2 \in Inode
      BY <1>3, <1>11, <1>14 DEF Inode
    <2> QED BY <2>1 DEF NewOwners
  <1>16. ASSUME NEW d \in Dquots
         PROVE  /\ qa[d] \in Trx /\ TrxOK(qa[d])
                /\ qa[d].res = f.qa[d].res /\ qa[d].ires = f.qa[d].ires /\ qa[d].del = f.qa[d].del
                /\ qa[d].delta - f.qa[d].delta = BlocksIn(r2, d) - BlocksIn(r, d)
                /\ qa[d].idelta - f.qa[d].idelta = CountIn(r2, d) - CountIn(r, d)
    <2>1. PICK x, y : x = f.qa[d] /\ y = qa[d]
      OBVIOUS
    <2>2. x \in Trx /\ Fresh(x) /\ x.delta = 0 /\ x.idelta = 0 /\ x.del = 0
      BY <1>4, <2>1 DEF Fresh
    <2>3. BlocksIn(r, d) = (IF d \in {r.u, r.g} THEN n ELSE 0) /\ CountIn(r, d) = (IF d \in {r.u, r.g} THEN 1 ELSE 0)
      BY <1>6, <1>8 DEF BlocksIn, CountIn
    <2>4. /\ BlocksIn(r2, d) = (IF d \in NewOwners(f, r) THEN n ELSE 0)
          /\ CountIn(r2, d) = (IF d \in NewOwners(f, r) THEN 1 ELSE 0)
      BY <1>6, <1>8, <1>15 DEF BlocksIn, CountIn
    <2>5. CASE d \in {f.u, f.g}
      <3>1. d \in NewOwners(f, r) /\ d \notin {r.u, r.g}
        BY <1>6, <1>14, <2>5 DEF NewOwners
      <3>2. PICK s \in Int : s = 1
        OBVIOUS
      <3>3. y = ModIcount(ModBcount(x, n), s)
        BY <1>10, <2>1, <2>5, <3>2
      <3>4. HasRes(x, n, 1)
        BY <1>7, <1>8, <2>1, <2>5
      <3>5. /\ y \in Trx /\ TrxOK(y) /\ y.res = x.res /\ y.ires = x.ires
            /\ y.delta = n /\ y.del = 0 /\ y.idelta = s
        BY <2>2, <3>2, <3>3, <3>4, MoveIs
      <3>6. n - 0 = n - 0 /\ s - 0 = 1 - 0
        BY <3>2
      <3> QED BY <2>1, <2>2, <2>3, <2>4, <3>1, <3>5, <3>6
    <2>6. CASE d \notin {f.u, f.g} /\ d \in old
      <3>1. d \notin NewOwners(f, r) /\ d \in {r.u, r.g}
        BY <1>6, <1>9, <1>14, <2>6 DEF NewOwners
      <3>2. PICK s \in Int : s = -1
        OBVIOUS
      <3>3. y = ModIcount(ModBcount(x, m), s)
        BY <1>10, <2>1, <2>6, <3>2
      <3>4. HasRes(x, 0, 0)
        BY <1>7, <2>1, <2>6
      <3>5. /\ y \in Trx /\ TrxOK(y) /\ y.res = x.res /\ y.ires = x.ires
            /\ y.delta = m /\ y.del = 0 /\ y.idelta = s
        BY <2>2, <3>3, <3>4, MoveIs
      <3>6. m - 0 = 0 - n /\ s - 0 = 0 - 1
        BY <1>8, <3>2
      <3> QED BY <2>1, <2>2, <2>3, <2>4, <3>1, <3>5, <3>6
    <2>7. CASE d \notin {f.u, f.g} /\ d \notin old
      <3>1. d \in NewOwners(f, r) <=> d \in {r.u, r.g}
        BY <1>9, <1>14, <2>7 DEF NewOwners
      <3>2. y = x
        BY <1>10, <2>1, <2>7
      <3>3. TrxOK(x)
        BY <1>3, <2>1 DEF TaskOK, PartsOK
      <3>4. \A a \in Int : a - a = 0
        OBVIOUS
      <3> QED BY <2>1, <2>2, <2>3, <2>4, <3>1, <3>2, <3>3, <3>4
    <2> QED BY <2>5, <2>6, <2>7
  <1>17. qa \in [Dquots -> Trx]
    BY <1>10, <1>16
  <1>18. /\ f2 \in Task /\ f2.pc = "open" /\ f2.qa = qa /\ f2.i = f.i
    BY <1>3, <1>12, <1>17 DEF Task, TaskPlaces
  <1>19. ASSUME NEW d \in Dquots PROVE Moved(d, dq[d], dq[d], f, f2, r, r2)
    <2>1. Held(f2, d) = Held(f, d)
      BY <1>2, <1>18 DEF Held
    <2>2. DelayedBy(f, r, d) = (IF d \in NewOwners(f, r) THEN l ELSE 0)
      BY <1>2, <1>8 DEF DelayedBy
    <2>3. DelayedBy(f2, r2, d) = (IF d \in NewOwners(f, r) THEN l ELSE 0)
      BY <1>8, <1>15, <1>18 DEF DelayedBy
    <2>4. PICK x \in Trx, y \in Trx : x = f.qa[d] /\ y = qa[d]
      BY <1>4, <1>17
    <2>5. PICK xd \in Int, xl \in Int, yd \in Int, yl \in Int :
            xd = x.delta /\ xl = x.del /\ yd = y.delta /\ yl = y.del
      BY DEF Trx
    <2>6. yl = xl /\ yd - xd = BlocksIn(r2, d) - BlocksIn(r, d)
      BY <1>16, <2>4, <2>5
    <2>7. (yd - xd) + (yl - xl) = yd - xd /\ yl - xl = 0
      BY <2>6
    <2>8. PICK e \in Int : e = DelayedBy(f, r, d)
      BY <1>3, PartsAreInts
    <2>9. e - e = 0
      OBVIOUS
    <2>10. /\ (y.delta - x.delta) + (y.del - x.del) = BlocksIn(r2, d) - BlocksIn(r, d)
           /\ y.del - x.del = DelayedBy(f, r, d) - DelayedBy(f2, r2, d)
      BY <2>2, <2>3, <2>5, <2>6, <2>7, <2>8, <2>9
    <2>11. /\ y.res = x.res /\ y.ires = x.ires /\ y.idelta - x.idelta = CountIn(r2, d) - CountIn(r, d)
      BY <1>16, <2>4
    <2>12. PICK q \in Dquot : q = dq[d] /\ (q.timer # "off" <=> Over(d, q.b))
      BY <1>5
    <2>13. Moved(d, q, q, f, f2, r, r2)
      BY <1>3, <1>15, <1>18, <2>1, <2>4, <2>10, <2>11, <2>12, ModMoves
    <2> QED BY <2>12, <2>13
  <1>20. TaskOK(f2, r2)
    <2>1. PlaceOK(f2, r2) /\ ReservedOK(f2, r2)
      BY <1>18 DEF PlaceOK, ReservedOK, Reserving, Giving
    <2>2. PartsOK(f2, r2)
      BY <1>6, <1>15, <1>16, <1>18 DEF PartsOK
    <2> QED BY <2>1, <2>2 DEF TaskOK
  <1>21. LiveOK(r2)
    BY <1>6, <1>15 DEF LiveOK
  <1> QED BY <1>1, <1>2, <1>3, <1>5, <1>13, <1>15, <1>18, <1>19, <1>20, <1>21, StepKeeps

----------------------------------------------------------------------------
(* The end of a transaction, and the beginning of a call.                  *)

LEMMA StillMoves ==
  ASSUME NEW d \in Dquots, NEW q \in Dquot, q.timer # "off" <=> Over(d, q.b),
         NEW f \in Task, NEW f2 \in Task, NEW r \in Inode,
         f2.qa[d] = f.qa[d], Held(f2, d) = Held(f, d), DelayedBy(f2, r, d) = DelayedBy(f, r, d)
  PROVE  Moved(d, q, q, f, f2, r, r)
  <1>1. PICK w \in Int, n \in Int, k \in Int :
          /\ q = Resv(q, w, k) /\ f2.qa[d] = ResvTrx(f.qa[d], n, k)
          /\ w = n + ((Held(f2, d) - Held(f, d)) + (DelayedBy(f2, r, d) - DelayedBy(f, r, d)))
    BY ReservedNone DEF ReservedBy
  <1>2. Moved(d, q, Resv(q, w, k), f, f2, r, r)
    BY <1>1, ReserveMoves
  <1> QED BY <1>1, <1>2

LEMMA CommitKeeps ==
  ASSUME TdCorrect, NEW t \in Tasks, Commit(t)
  PROVE  TdCorrect'
  <1>1. PICK f, r : f = tp[t] /\ r = ip[f.i]
    OBVIOUS
  <1>2. f.pc \in {"open", "noresv"} /\ UNCHANGED <<ip, calls>> /\ tp' = [tp EXCEPT ![t] = NoCall]
    BY <1>1 DEF Commit
  <1>3. PICK q2 : q2 = [d \in Dquots |-> IF f.qa[d] = NoTrx THEN dq[d] ELSE Applied(d, f.qa[d])]
    OBVIOUS
  <1>4. dq' = q2
    BY <1>1, <1>3 DEF Commit
  <1>5. /\ f \in Task /\ f.i \in Inodes /\ r \in Inode /\ TaskOK(f, r) /\ LiveOK(r)
        /\ \A u \in Tasks \ {t} : tp[u].i # f.i
    BY <1>1, <1>2, AtWork
  <1>6. /\ \A d \in Dquots : dq[d] \in Dquot /\ (dq[d].timer # "off" <=> Over(d, dq[d].b))
        /\ ip' = [ip EXCEPT ![f.i] = r] /\ calls' \in Nat
    BY <1>1, <1>2, <1>5, DquotIs DEF TdCorrect, TdBase, TdTypeOK
  <1>7. ASSUME NEW d \in Dquots PROVE q2[d] \in Dquot /\ Moved(d, dq[d], q2[d], f, NoCall, r, r)
    <2>1. Held(f, d) = 0 /\ Held(NoCall, d) = 0 /\ NoCall \in Task /\ NoCall.qa[d] = NoTrx
      BY <1>2, NoCallIs DEF Held
    <2>2. DelayedBy(NoCall, r, d) = DelayedBy(f, r, d)
      BY <1>2, NoCallIs DEF DelayedBy
    <2>3. CASE f.qa[d] = NoTrx
      <3>1. q2[d] = dq[d]
        BY <1>3, <2>3
      <3>2. PICK q \in Dquot : q = dq[d] /\ (q.timer # "off" <=> Over(d, q.b))
        BY <1>6
      <3>3. Moved(d, q, q, f, NoCall, r, r)
        BY <1>5, <2>1, <2>2, <2>3, <3>2, StillMoves
      <3> QED BY <3>1, <3>2, <3>3
    <2>4. CASE f.qa[d] # NoTrx
      <3>1. PICK y \in Trx : y = f.qa[d] /\ TrxOK(y)
        BY <1>5 DEF Task, TaskOK, PartsOK
      <3>2. y.res \in Int /\ y.ires \in Int
        BY DEF Trx
      <3>3. f.qa[d].res = y.res + NoCall.qa[d].res /\ f.qa[d].ires = y.ires + NoCall.qa[d].ires
        BY <2>1, <3>1, <3>2, TrxIs
      <3>4. /\ f.qa[d].delta = y.delta /\ f.qa[d].del = y.del /\ f.qa[d].idelta = y.idelta
            /\ NoCall.qa[d].delta = 0 /\ NoCall.qa[d].del = 0 /\ NoCall.qa[d].idelta = 0
        BY <2>1, <3>1, TrxIs
      <3>5. Applied(d, y) \in Dquot /\ Moved(d, dq[d], Applied(d, y), f, NoCall, r, r)
        BY <1>5, <1>6, <2>1, <2>2, <3>1, <3>3, <3>4, ApplyMoves
      <3>6. q2[d] = Applied(d, y)
        BY <1>3, <2>4, <3>1
      <3> QED BY <3>5, <3>6
    <2> QED BY <2>3, <2>4
  <1>8. q2 \in [Dquots -> Dquot]
    BY <1>3, <1>7
  <1> QED BY <1>1, <1>2, <1>4, <1>5, <1>6, <1>7, <1>8, NoCallIs, StepKeeps

\* xfs_trans_dup_dqinfo splits what a transaction has reserved between the two.
LEMMA LeftIs ==
  ASSUME NEW x \in Trx, TrxOK(x), NEW y, y = Kept(x), NEW z, z = Left(x)
  PROVE  /\ y \in Trx /\ TrxOK(y) /\ z \in Trx /\ Fresh(z) /\ z.res >= 0 /\ z.ires >= 0
         /\ x.res = y.res + z.res /\ x.ires = y.ires + z.ires
         /\ y.delta = x.delta /\ y.del = x.del /\ y.idelta = x.idelta
         /\ (x.res = 0 => z.res = 0) /\ (x.ires = 0 => z.ires = 0)
  <1>1. PICK res \in Int, taken \in Int, delta \in Int, del \in Int, ires \in Int, iused \in Int, idelta \in Int :
          /\ res = x.res /\ taken = x.used /\ delta = x.delta /\ del = x.del
          /\ ires = x.ires /\ iused = x.iused /\ idelta = x.idelta
    BY DEF Trx
  <1>2. /\ 0 <= taken /\ taken <= res /\ (res # 0 => delta = taken)
        /\ 0 <= iused /\ iused <= ires /\ (ires # 0 => idelta = iused) /\ del >= 0
    BY <1>1 DEF TrxOK
  <1>3. /\ y \in Trx /\ y.res = taken /\ y.used = taken /\ y.delta = delta /\ y.del = del
        /\ y.ires = iused /\ y.iused = iused /\ y.idelta = idelta
    BY <1>1 DEF Kept, Trx
  <1>4. PICK a, b : a = res - taken /\ b = ires - iused
    OBVIOUS
  <1>5. a \in Int /\ b \in Int
    BY <1>4
  <1>6. z = [NoTrx EXCEPT !.res = a, !.ires = b]
    BY <1>1, <1>4 DEF Left
  <1>7. PICK n \in Trx : n = NoTrx
    BY TrxIs
  <1>8. n.used = 0 /\ n.delta = 0 /\ n.del = 0 /\ n.iused = 0 /\ n.idelta = 0
    BY <1>7 DEF NoTrx
  <1>9. z = [n EXCEPT !.res = a, !.ires = b]
    BY <1>6, <1>7
  <1>10. z \in Trx /\ z.res = a /\ z.ires = b
    BY <1>5, <1>9 DEF Trx
  <1>11. Fresh(z)
    BY <1>8, <1>9 DEF Trx, Fresh
  <1>12. z \in Trx /\ Fresh(z) /\ z.res = a /\ z.ires = b
    BY <1>10, <1>11
  <1>13. /\ a >= 0 /\ b >= 0 /\ res = taken + a /\ ires = iused + b
        /\ (res = 0 => a = 0) /\ (ires = 0 => b = 0)
    BY <1>2, <1>4, <1>5
  <1>14. (taken # 0 => delta = taken) /\ (iused # 0 => idelta = iused)
    BY <1>2
  <1>15. TrxOK(y)
    BY <1>2, <1>3, <1>14 DEF TrxOK
  <1> QED BY <1>1, <1>3, <1>12, <1>13, <1>15

LEMMA RollKeeps ==
  ASSUME TdCorrect, NEW t \in Tasks, Roll(t)
  PROVE  TdCorrect'
  <1>1. PICK f, r : f = tp[t] /\ r = ip[f.i]
    OBVIOUS
  <1>2. f.pc \in {"open", "noresv"} /\ UNCHANGED <<ip, calls>>
    BY <1>1 DEF Roll
  <1>3. PICK q2 : q2 = [d \in Dquots |-> IF f.qa[d] = NoTrx THEN dq[d] ELSE Applied(d, Kept(f.qa[d]))]
    OBVIOUS
  <1>4. PICK qa : qa = [d \in Dquots |-> Left(f.qa[d])]
    OBVIOUS
  <1>5. PICK f2 : f2 = [f EXCEPT !.qa = qa]
    OBVIOUS
  <1>6. /\ f \in Task /\ f.i \in Inodes /\ r \in Inode /\ TaskOK(f, r) /\ LiveOK(r)
        /\ \A u \in Tasks \ {t} : tp[u].i # f.i
    BY <1>1, <1>2, AtWork
  <1>7. /\ \A d \in Dquots : dq[d] \in Dquot /\ (dq[d].timer # "off" <=> Over(d, dq[d].b))
        /\ ip' = [ip EXCEPT ![f.i] = r] /\ calls' \in Nat /\ tp \in [Tasks -> Task]
    BY <1>1, <1>2, <1>6, DquotIs DEF TdCorrect, TdBase, TdTypeOK
  <1>8. dq' = q2 /\ tp' = [tp EXCEPT ![t] = f2]
    BY <1>1, <1>3, <1>4, <1>5, <1>7 DEF Roll
  <1>9. \A d \in Dquots : f.qa[d] \in Trx /\ TrxOK(f.qa[d])
    BY <1>6 DEF Task, TaskOK, PartsOK
  <1>10. ASSUME NEW d \in Dquots
         PROVE  /\ qa[d] \in Trx /\ Fresh(qa[d]) /\ qa[d].res >= 0 /\ qa[d].ires >= 0
                /\ (f.qa[d].res = 0 => qa[d].res = 0) /\ (f.qa[d].ires = 0 => qa[d].ires = 0)
    <2>1. PICK x, z : x = f.qa[d] /\ z = Left(x)
      OBVIOUS
    <2>2. x \in Trx /\ TrxOK(x)
      BY <1>9, <2>1
    <2>3. PICK y : y = Kept(x)
      OBVIOUS
    <2>4. /\ z \in Trx /\ Fresh(z) /\ z.res >= 0 /\ z.ires >= 0
          /\ (x.res = 0 => z.res = 0) /\ (x.ires = 0 => z.ires = 0)
      BY <2>1, <2>2, <2>3, LeftIs
    <2>5. qa[d] = z
      BY <1>4, <2>1
    <2> QED BY <2>1, <2>4, <2>5
  <1>11. qa \in [Dquots -> Trx]
    BY <1>4, <1>10
  <1>12. /\ f2 \in Task /\ f2.pc = f.pc /\ f2.qa = qa /\ f2.i = f.i /\ f2.u = f.u /\ f2.g = f.g
         /\ f2.n = f.n /\ f2.k = f.k /\ f2.then = f.then
    BY <1>5, <1>6, <1>11 DEF Task
  <1>13. ASSUME NEW d \in Dquots PROVE q2[d] \in Dquot /\ Moved(d, dq[d], q2[d], f, f2, r, r)
    <2>1. Held(f, d) = 0 /\ Held(f2, d) = 0 /\ DelayedBy(f2, r, d) = DelayedBy(f, r, d)
      BY <1>2, <1>12 DEF Held, DelayedBy
    <2>2. PICK x, y, z : x = f.qa[d] /\ y = Kept(x) /\ z = Left(x)
      OBVIOUS
    <2>3. x \in Trx /\ TrxOK(x) /\ f2.qa[d] = z
      BY <1>4, <1>9, <1>12, <2>2
    <2>4. /\ y \in Trx /\ TrxOK(y) /\ z \in Trx /\ Fresh(z)
          /\ x.res = y.res + z.res /\ x.ires = y.ires + z.ires
          /\ y.delta = x.delta /\ y.del = x.del /\ y.idelta = x.idelta
          /\ (x.res = 0 => z.res = 0) /\ (x.ires = 0 => z.ires = 0)
      BY <2>2, <2>3, LeftIs
    <2>5. CASE x = NoTrx
      <3>1. z = NoTrx
        BY <2>4, <2>5, TrxIs DEF Trx, NoTrx, Fresh
      <3>2. q2[d] = dq[d] /\ f2.qa[d] = f.qa[d]
        BY <1>3, <2>2, <2>3, <2>5, <3>1
      <3>3. PICK q \in Dquot : q = dq[d] /\ (q.timer # "off" <=> Over(d, q.b))
        BY <1>7
      <3>4. Moved(d, q, q, f, f2, r, r)
        BY <1>6, <1>12, <2>1, <3>2, <3>3, StillMoves
      <3> QED BY <3>2, <3>3, <3>4
    <2>6. CASE x # NoTrx
      <3>1. q2[d] = Applied(d, y)
        BY <1>3, <2>2, <2>6
      <3>2. /\ f.qa[d].res = y.res + f2.qa[d].res /\ f.qa[d].ires = y.ires + f2.qa[d].ires
            /\ f.qa[d].delta = y.delta /\ f.qa[d].del = y.del /\ f.qa[d].idelta = y.idelta
            /\ f2.qa[d].delta = 0 /\ f2.qa[d].del = 0 /\ f2.qa[d].idelta = 0
        BY <2>2, <2>3, <2>4 DEF Fresh
      <3>3. y \in Trx /\ TrxOK(y)
        BY <2>4
      <3>4. Applied(d, y) \in Dquot /\ Moved(d, dq[d], Applied(d, y), f, f2, r, r)
        BY <1>6, <1>7, <1>12, <2>1, <3>2, <3>3, ApplyMoves
      <3> QED BY <3>1, <3>4
    <2> QED BY <2>5, <2>6
  <1>14. q2 \in [Dquots -> Dquot]
    BY <1>3, <1>13
  <1>15. TaskOK(f2, r)
    <2>1. PlaceOK(f2, r)
      BY <1>6, <1>12 DEF TaskOK, PlaceOK, Reserving, Giving
    <2>2. ReservedOK(f2, r)
      <3>1. f.pc = "noresv" => \A d \in Dquots : HasRes(qa[d], 0, 0)
        BY <1>6, <1>10 DEF TaskOK, ReservedOK, HasRes
      <3> QED BY <1>2, <1>12, <3>1 DEF ReservedOK, Reserving
    <2>3. PartsOK(f2, r)
      BY <1>6, <1>10, <1>12, FreshParts
    <2> QED BY <2>1, <2>2, <2>3 DEF TaskOK
  <1>16. f2.pc # "idle"
    BY <1>2, <1>12
  <1> QED BY <1>1, <1>2, <1>6, <1>7, <1>8, <1>12, <1>13, <1>14, <1>15, <1>16, StepKeeps

----------------------------------------------------------------------------
(* An operation begins.                                                    *)

\* A call begins with nothing reserved, on an inode it may have given new owners.
LEMMA BeginKeeps ==
  ASSUME TdCorrect, NEW t \in Tasks, tp[t].pc = "idle", NEW i \in Inodes, \A u \in Tasks : tp[u].i # i,
         NEW f2 \in Task, NEW r2 \in Inode,
         f2.qa = NoCall.qa, f2.i = i, f2.pc \in {"res_user", "noresv"}, f2.then # "chown_old",
         PlaceOK(f2, r2), LiveOK(r2),
         \A d \in Dquots : BlocksIn(r2, d) = BlocksIn(ip[i], d) /\ CountIn(r2, d) = CountIn(ip[i], d),
         \A d \in Dquots : DelayedBy(f2, r2, d) = DelayedBy(NoCall, ip[i], d),
         tp' = [tp EXCEPT ![t] = f2], ip' = [ip EXCEPT ![i] = r2], dq' = dq, calls' = calls + 1
  PROVE  TdCorrect'
  <1>1. tp[t] = NoCall /\ ip[i] \in Inode /\ calls' \in Nat
    BY DEF TdCorrect, TdBase, TdTypeOK
  <1>2. \A d \in Dquots : f2.qa[d] = NoTrx
    BY NoCallIs
  <1>3. PartsOK(f2, r2)
    <2>1. \A d \in Dquots : Fresh(f2.qa[d]) /\ f2.qa[d].res >= 0 /\ f2.qa[d].ires >= 0
      BY <1>2, TrxIs
    <2> QED BY <2>1, FreshParts
  <1>4. ReservedOK(f2, r2)
    BY <1>2, TrxIs DEF ReservedOK, Reserving
  <1>5. TaskOK(f2, r2) /\ f2.pc # "idle"
    BY <1>3, <1>4 DEF TaskOK
  <1>6. ASSUME NEW d \in Dquots PROVE ReservedBy(d, dq[d], dq[d], NoCall, f2, ip[i], r2)
    <2>1. f2.qa[d] = NoCall.qa[d] /\ Held(f2, d) = Held(NoCall, d)
      BY <1>2, NoCallIs DEF Held
    <2> QED BY <1>1, <2>1, NoCallIs, DquotIs, ReservedNone
  <1>7. PICK q2 \in [Dquots -> Dquot] : q2 = dq
    BY DquotIs
  <1>8. \A d \in Dquots : ReservedBy(d, dq[d], q2[d], tp[t], f2, ip[i], r2)
    BY <1>1, <1>6, <1>7
  <1>9. dq' = q2
    BY <1>7
  <1> QED BY <1>1, <1>5, <1>8, <1>9, ReservationKeeps

\* An operation that leaves the inode as it is
LEMMA CallBegins ==
  ASSUME TdCorrect, NEW t \in Tasks, tp[t].pc = "idle", NEW i \in Inodes, \A u \in Tasks : tp[u].i # i,
         NEW f2 \in Task, f2.qa = NoCall.qa, f2.i = i, f2.pc \in {"res_user", "noresv"},
         f2.then # "chown_old", PlaceOK(f2, ip[i]),
         tp' = [tp EXCEPT ![t] = f2], UNCHANGED <<dq, ip>>, calls' = calls + 1
  PROVE  TdCorrect'
  <1>1. PICK r \in Inode : r = ip[i] /\ LiveOK(r) /\ ip' = [ip EXCEPT ![i] = r]
    BY DEF TdCorrect, TdBase, TdTypeOK
  <1>2. \A d \in Dquots : BlocksIn(r, d) = BlocksIn(ip[i], d) /\ CountIn(r, d) = CountIn(ip[i], d)
    BY <1>1
  <1>3. \A d \in Dquots : DelayedBy(f2, r, d) = DelayedBy(NoCall, ip[i], d)
    BY <1>1, NoCallIs DEF DelayedBy
  <1>4. PlaceOK(f2, r)
    BY <1>1
  <1>5. dq' = dq
    OBVIOUS
  <1>6. LiveOK(r)
    BY <1>1
  <1>7. ip' = [ip EXCEPT ![i] = r]
    BY <1>1
  <1> QED BY <1>2, <1>3, <1>4, <1>5, <1>6, <1>7, BeginKeeps

LEMMA StartKeeps ==
  ASSUME TdCorrect, NEW t \in Tasks, Start(t)
  PROVE  TdCorrect'
  <1>1. tp[t].pc = "idle" /\ calls' = calls + 1 /\ dq' = dq
    BY DEF Start
  <1>2. PICK i \in Inodes :
          LET f == [NoCall EXCEPT !.i = i, !.u = ip[i].u, !.g = ip[i].g, !.pc = "res_user"] IN
          /\ \A u \in Tasks : tp[u].i # i
          /\ \/ /\ ip[i].live
                /\ \E n \in 1 .. MaxRes, aim \in {"open", "delay"} :
                     tp' = [tp EXCEPT ![t] = [f EXCEPT !.n = n, !.then = aim]]
                /\ UNCHANGED ip
             \/ /\ ip[i].live
                /\ tp' = [tp EXCEPT ![t] = [f EXCEPT !.pc = "noresv"]]
                /\ UNCHANGED ip
             \/ /\ ~ip[i].live
                /\ \E u \in Uids, g \in Gids :
                     /\ tp' = [tp EXCEPT ![t] = [f EXCEPT !.u = u, !.g = g, !.n = 1, !.k = 1,
                                                          !.then = "open"]]
                     /\ ip' = [ip EXCEPT ![i].u = u, ![i].g = g]
             \/ /\ ip[i].live
                /\ \E u \in Uids, g \in Gids :
                     /\ u # ip[i].u \/ g # ip[i].g
                     /\ tp' = [tp EXCEPT ![t] =
                                 [f EXCEPT !.u = IF u = ip[i].u THEN 0 ELSE u,
                                           !.g = IF g = ip[i].g THEN 0 ELSE g,
                                           !.n = ip[i].nblocks, !.k = 1, !.then = "chown_del"]]
                /\ UNCHANGED ip
    BY DEF Start
  <1>3. PICK f : f = [NoCall EXCEPT !.i = i, !.u = ip[i].u, !.g = ip[i].g, !.pc = "res_user"]
    OBVIOUS
  <1>4. PICK r : r = ip[i]
    OBVIOUS
  <1>5. /\ r \in Inode /\ LiveOK(r) /\ r.u \in Uids /\ r.g \in Gids /\ r.nblocks \in Nat /\ r.del \in Nat
        /\ ip \in [Inodes -> Inode]
    BY <1>4 DEF TdCorrect, TdBase, TdTypeOK, Inode
  <1>6. PICK c \in Task : c = NoCall /\ c.n = 0 /\ c.k = 0 /\ c.then = "none"
    BY NoCallIs DEF NoCall
  <1>7. f = [c EXCEPT !.i = i, !.u = r.u, !.g = r.g, !.pc = "res_user"]
    BY <1>3, <1>4, <1>6
  <1>8. /\ f \in Task /\ f.qa = NoCall.qa /\ f.i = i /\ f.u = r.u /\ f.g = r.g /\ f.pc = "res_user"
        /\ f.n = 0 /\ f.k = 0 /\ f.then = "none"
    BY <1>5, <1>6, <1>7 DEF Task, TaskPlaces
  <1>9. \A u \in Tasks : tp[u].i # i
    BY <1>2
  <1>10. ASSUME NEW n \in 1 .. MaxRes, NEW aim \in {"open", "delay"}, r.live,
                tp' = [tp EXCEPT ![t] = [f EXCEPT !.n = n, !.then = aim]], UNCHANGED ip
         PROVE  TdCorrect'
    <2>1. PICK f2 : f2 = [f EXCEPT !.n = n, !.then = aim]
      OBVIOUS
    <2>2. n \in Nat
      BY TdAssumption
    <2>3. /\ f2 \in Task /\ f2.qa = NoCall.qa /\ f2.i = i /\ f2.u = r.u /\ f2.g = r.g
          /\ f2.pc = "res_user" /\ f2.k = 0 /\ f2.then = aim
      BY <1>8, <2>1, <2>2 DEF Task
    <2>4. PlaceOK(f2, ip[i])
      BY <1>4, <1>10, <2>3 DEF PlaceOK, Reserving, Giving
    <2>5. tp' = [tp EXCEPT ![t] = f2]
      BY <1>10, <2>1
    <2> QED BY <1>1, <1>9, <1>10, <2>3, <2>4, <2>5, CallBegins
  <1>11. ASSUME tp' = [tp EXCEPT ![t] = [f EXCEPT !.pc = "noresv"]], UNCHANGED ip
         PROVE  TdCorrect'
    <2>1. PICK f2 : f2 = [f EXCEPT !.pc = "noresv"]
      OBVIOUS
    <2>2. /\ f2 \in Task /\ f2.qa = NoCall.qa /\ f2.i = i /\ f2.u = r.u /\ f2.g = r.g
          /\ f2.pc = "noresv" /\ f2.k = 0 /\ f2.then = "none"
      BY <1>8, <2>1 DEF Task, TaskPlaces
    <2>3. PlaceOK(f2, ip[i])
      BY <2>2 DEF PlaceOK, Reserving, Giving
    <2>4. tp' = [tp EXCEPT ![t] = f2]
      BY <1>11, <2>1
    <2> QED BY <1>1, <1>9, <1>11, <2>2, <2>3, <2>4, CallBegins
  <1>12. ASSUME NEW u \in Uids, NEW g \in Gids, ~r.live,
                tp' = [tp EXCEPT ![t] = [f EXCEPT !.u = u, !.g = g, !.n = 1, !.k = 1, !.then = "open"]],
                ip' = [ip EXCEPT ![i].u = u, ![i].g = g]
         PROVE  TdCorrect'
    <2>1. PICK f2 : f2 = [f EXCEPT !.u = u, !.g = g, !.n = 1, !.k = 1, !.then = "open"]
      OBVIOUS
    <2>2. PICK r2 : r2 = [r EXCEPT !.u = u, !.g = g]
      OBVIOUS
    <2>3. /\ f2 \in Task /\ f2.qa = NoCall.qa /\ f2.i = i /\ f2.u = u /\ f2.g = g
          /\ f2.pc = "res_user" /\ f2.then = "open"
      BY <1>8, <2>1 DEF Task
    <2>4. /\ r2 \in Inode /\ r2.live = r.live /\ r2.u = u /\ r2.g = g
          /\ r2.nblocks = r.nblocks /\ r2.del = r.del
      BY <1>5, <2>2 DEF Inode
    <2>5. r.nblocks = 0 /\ r.del = 0 /\ LiveOK(r2)
      BY <1>5, <1>12, <2>4 DEF LiveOK
    <2>6. PlaceOK(f2, r2)
      BY <2>3, <2>4 DEF PlaceOK, Reserving, Giving
    <2>7. \A d \in Dquots : BlocksIn(r2, d) = BlocksIn(ip[i], d) /\ CountIn(r2, d) = CountIn(ip[i], d)
      BY <1>4, <1>12, <2>4, <2>5 DEF BlocksIn, CountIn
    <2>8. \A d \in Dquots : DelayedBy(f2, r2, d) = DelayedBy(NoCall, ip[i], d)
      BY <1>4, <2>4, <2>5 DEF DelayedBy
    <2>9. ip' = [ip EXCEPT ![i] = r2] /\ tp' = [tp EXCEPT ![t] = f2]
      BY <1>4, <1>5, <1>12, <2>1, <2>2
    <2> QED BY <1>1, <1>9, <2>3, <2>4, <2>5, <2>6, <2>7, <2>8, <2>9, BeginKeeps
  <1>13. ASSUME NEW u \in Uids, NEW g \in Gids, r.live,
                tp' = [tp EXCEPT ![t] = [f EXCEPT !.u = IF u = r.u THEN 0 ELSE u,
                                                  !.g = IF g = r.g THEN 0 ELSE g,
                                                  !.n = r.nblocks, !.k = 1, !.then = "chown_del"]],
                UNCHANGED ip
         PROVE  TdCorrect'
    <2>1. PICK nu, ng, n : nu = (IF u = r.u THEN 0 ELSE u) /\ ng = (IF g = r.g THEN 0 ELSE g) /\ n = r.nblocks
      OBVIOUS
    <2>2. PICK f2 : f2 = [f EXCEPT !.u = nu, !.g = ng, !.n = n, !.k = 1, !.then = "chown_del"]
      OBVIOUS
    <2>3. nu \in Uids \cup {0} /\ ng \in Gids \cup {0} /\ n \in Nat /\ nu # r.u /\ ng # r.g
      BY <1>5, <2>1, OwnersAre
    <2>4. /\ f2 \in Task /\ f2.qa = NoCall.qa /\ f2.i = i /\ f2.u = nu /\ f2.g = ng
          /\ f2.pc = "res_user" /\ f2.n = n /\ f2.k = 1 /\ f2.then = "chown_del"
      BY <1>8, <2>2, <2>3 DEF Task
    <2>5. PlaceOK(f2, ip[i])
      BY <1>4, <1>13, <2>1, <2>3, <2>4 DEF PlaceOK, Reserving, Giving
    <2>6. tp' = [tp EXCEPT ![t] = f2]
      BY <1>13, <2>1, <2>2
    <2> QED BY <1>1, <1>9, <1>13, <2>4, <2>5, <2>6, CallBegins
  <1>14. \/ /\ ip[i].live
            /\ \E n \in 1 .. MaxRes, aim \in {"open", "delay"} :
                 tp' = [tp EXCEPT ![t] = [f EXCEPT !.n = n, !.then = aim]]
            /\ UNCHANGED ip
         \/ /\ ip[i].live
            /\ tp' = [tp EXCEPT ![t] = [f EXCEPT !.pc = "noresv"]]
            /\ UNCHANGED ip
         \/ /\ ~ip[i].live
            /\ \E u \in Uids, g \in Gids :
                 /\ tp' = [tp EXCEPT ![t] = [f EXCEPT !.u = u, !.g = g, !.n = 1, !.k = 1,
                                                      !.then = "open"]]
                 /\ ip' = [ip EXCEPT ![i].u = u, ![i].g = g]
         \/ /\ ip[i].live
            /\ \E u \in Uids, g \in Gids :
                 /\ u # ip[i].u \/ g # ip[i].g
                 /\ tp' = [tp EXCEPT ![t] =
                             [f EXCEPT !.u = IF u = ip[i].u THEN 0 ELSE u,
                                       !.g = IF g = ip[i].g THEN 0 ELSE g,
                                       !.n = ip[i].nblocks, !.k = 1, !.then = "chown_del"]]
            /\ UNCHANGED ip
    BY <1>2, <1>3, Zenon
  <1>15. CASE /\ ip[i].live
              /\ \E n \in 1 .. MaxRes, aim \in {"open", "delay"} :
                   tp' = [tp EXCEPT ![t] = [f EXCEPT !.n = n, !.then = aim]]
              /\ UNCHANGED ip
    BY <1>4, <1>10, <1>15
  <1>16. CASE /\ ip[i].live
              /\ tp' = [tp EXCEPT ![t] = [f EXCEPT !.pc = "noresv"]]
              /\ UNCHANGED ip
    BY <1>11, <1>16
  <1>17. CASE /\ ~ip[i].live
              /\ \E u \in Uids, g \in Gids :
                   /\ tp' = [tp EXCEPT ![t] = [f EXCEPT !.u = u, !.g = g, !.n = 1, !.k = 1,
                                                        !.then = "open"]]
                   /\ ip' = [ip EXCEPT ![i].u = u, ![i].g = g]
    BY <1>4, <1>12, <1>17
  <1>18. CASE /\ ip[i].live
              /\ \E u \in Uids, g \in Gids :
                   /\ u # ip[i].u \/ g # ip[i].g
                   /\ tp' = [tp EXCEPT ![t] =
                               [f EXCEPT !.u = IF u = ip[i].u THEN 0 ELSE u,
                                         !.g = IF g = ip[i].g THEN 0 ELSE g,
                                         !.n = ip[i].nblocks, !.k = 1, !.then = "chown_del"]]
              /\ UNCHANGED ip
    BY <1>4, <1>13, <1>18
  <1> QED BY <1>14, <1>15, <1>16, <1>17, <1>18

----------------------------------------------------------------------------
(* The clock, the beginning, and what the invariant says.                  *)

LEMMA ExpireKeeps ==
  ASSUME TdCorrect, Expire
  PROVE  TdCorrect'
  <1>1. PICK d \in Dquots : dq[d].timer = "on" /\ dq' = [dq EXCEPT ![d].timer = "expired"]
    BY DEF Expire
  <1>2. tp' = tp /\ ip' = ip /\ calls' = calls
    BY DEF Expire
  <1>3. PICK q \in Dquot : q = dq[d]
    BY DquotIs
  <1>4. PICK q2 : q2 = [q EXCEPT !.timer = "expired"]
    OBVIOUS
  <1>5. q2 \in Dquot /\ q2.b = q.b /\ q2.i = q.i /\ q2.rb = q.rb /\ q2.ri = q.ri /\ q2.timer = "expired"
    BY <1>4 DEF Dquot
  <1>6. dq' = [dq EXCEPT ![d] = q2] /\ q.timer = "on"
    BY <1>1, <1>3, <1>4, DquotIs
  <1>7. TdBase'
    <2>1. dq' \in [Dquots -> Dquot]
      BY <1>5, <1>6, DquotIs
    <2>2. TdTypeOK'
      BY <1>2, <2>1 DEF TdCorrect, TdBase, TdTypeOK
    <2> QED BY <1>2, <2>2 DEF TdCorrect, TdBase, Sole
  <1>8. ASSUME NEW e \in Dquots PROVE Balanced(e)'
    <2>1. PICK p, p2 : p = dq[e] /\ p2 = dq'[e]
      OBVIOUS
    <2>2. /\ p2.b = p.b /\ p2.i = p.i /\ p2.rb = p.rb /\ p2.ri = p.ri
          /\ (p2.timer # "off" <=> p.timer # "off")
      <3>1. CASE e = d
        BY <1>3, <1>5, <1>6, <2>1, <3>1, DquotIs
      <3>2. CASE e # d
        BY <1>6, <2>1, <3>2, DquotIs
      <3> QED BY <3>1, <3>2
    <2>3. /\ UsedBlocks(e)' = UsedBlocks(e) /\ UsedInodes(e)' = UsedInodes(e)
          /\ KeptBlocks(e)' = KeptBlocks(e) /\ KeptInodes(e)' = KeptInodes(e)
      BY <1>2 DEF UsedBlocks, UsedInodes, KeptBlocks, KeptInodes
    <2>4. OwnBlocks(e)' = OwnBlocks(e) /\ OwnInodes(e)' = OwnInodes(e) /\ OwnDelayed(e)' = OwnDelayed(e)
      BY <1>2 DEF OwnBlocks, OwnInodes, OwnDelayed
    <2>5. Balanced(e)
      BY DEF TdCorrect
    <2> QED BY <2>1, <2>2, <2>3, <2>4, <2>5 DEF Balanced, Over
  <1> QED BY <1>7, <1>8 DEF TdCorrect

\* Counting the inode there is to begin with
LEMMA OneInode ==
  ASSUME NEW f, NEW x \in Inodes, NEW n \in Int, f[x] = n, \A i \in Inodes \ {x} : f[i] = 0
  PROVE  SumFunctionOnSet(f, Inodes) = n
  <1>1. IsFiniteSet(Inodes) /\ IsFiniteSet(Inodes \ {x})
    BY TdAssumption, FS_Subset
  <1>2. \A i \in Inodes : f[i] \in Int
    OBVIOUS
  <1>3. SumFunctionOnSet(f, Inodes) = f[x] + SumFunctionOnSet(f, Inodes \ {x})
    BY <1>1, <1>2, SumTake
  <1>4. SumFunctionOnSet(f, Inodes \ {x}) = 0
    BY <1>1, SumOfNone
  <1> QED BY <1>3, <1>4

LEMMA InitIsCorrect ==
  ASSUME TdInit
  PROVE  TdCorrect
  <1>1. PICK count : count = [d \in Dquots |-> IF d \in {RootInode.u, RootInode.g} THEN 1 ELSE 0]
    OBVIOUS
  <1>2. /\ dq = [d \in Dquots |-> [b |-> 0, i |-> count[d], rb |-> 0, ri |-> count[d], timer |-> "off"]]
        /\ ip = [i \in Inodes |-> [live |-> i = RootInode.i, u |-> RootInode.u, g |-> RootInode.g,
                                   nblocks |-> 0, del |-> 0]]
        /\ tp = [t \in Tasks |-> NoCall] /\ calls = 0
    BY <1>1 DEF TdInit
  <1>3. RootInode.i \in Inodes /\ RootInode.u \in Uids /\ RootInode.g \in Gids
        /\ \A d \in Dquots : count[d] \in {0, 1}
    BY <1>1, TdAssumption
  <1>4. \A d \in Dquots : /\ dq[d] \in Dquot /\ dq[d].b = 0 /\ dq[d].rb = 0 /\ dq[d].timer = "off"
                          /\ dq[d].i = count[d] /\ dq[d].ri = count[d]
    BY <1>2, <1>3 DEF Dquot
  <1>5. \A i \in Inodes : /\ ip[i] \in Inode /\ ip[i].nblocks = 0 /\ ip[i].del = 0
                          /\ (ip[i].live <=> i = RootInode.i)
                          /\ ip[i].u = RootInode.u /\ ip[i].g = RootInode.g
    BY <1>2, <1>3 DEF Inode
  <1>6. \A t \in Tasks : tp[t] = NoCall
    BY <1>2
  <1>7. TdTypeOK
    BY <1>2, <1>4, <1>5, <1>6, NoCallIs DEF TdTypeOK
  <1>8. TdBase
    BY <1>5, <1>6, <1>7, NoCallIs DEF TdBase, LiveOK
  <1>9. ASSUME NEW d \in Dquots PROVE Balanced(d)
    <2>1. \A t \in Tasks : /\ UsedBy(tp[t], d) = 0 /\ KeptBy(tp[t], d) = 0
                           /\ tp[t].qa[d].idelta = 0 /\ tp[t].qa[d].ires = 0
      BY <1>6, NoCallIs, TrxIs DEF UsedBy, KeptBy
    <2>2. \A i \in Inodes : BlocksIn(ip[i], d) = 0 /\ DelayedIn(tp, ip[i], i, d) = 0
      BY <1>5 DEF BlocksIn, DelayedIn
    <2>3. UsedBlocks(d) = 0 /\ UsedInodes(d) = 0 /\ KeptBlocks(d) = 0 /\ KeptInodes(d) = 0
      BY <2>1, TdAssumption, SumOfNone DEF UsedBlocks, UsedInodes, KeptBlocks, KeptInodes
    <2>4. OwnBlocks(d) = 0 /\ OwnDelayed(d) = 0
      BY <2>2, TdAssumption, SumOfNone DEF OwnBlocks, OwnDelayed
    <2>5. OwnInodes(d) = count[d]
      <3>1. PICK f : f = [i \in Inodes |-> CountIn(ip[i], d)]
        OBVIOUS
      <3>2. f[RootInode.i] = count[d]
        BY <1>1, <1>3, <1>5, <3>1 DEF CountIn
      <3>3. \A i \in Inodes \ {RootInode.i} : f[i] = 0
        BY <1>5, <3>1 DEF CountIn
      <3>4. PICK x, n : x = RootInode.i /\ n = count[d]
        OBVIOUS
      <3>5. SumFunctionOnSet(f, Inodes) = n
        BY <1>3, <3>2, <3>3, <3>4, OneInode
      <3> QED BY <3>1, <3>4, <3>5 DEF OwnInodes
    <2>6. ~Over(d, 0)
      BY TdAssumption DEF Over
    <2>7. count[d] \in Int
      BY <1>3
    <2> QED BY <1>4, <2>3, <2>4, <2>5, <2>6, <2>7 DEF Balanced
  <1> QED BY <1>8, <1>9 DEF TdCorrect

\* Nothing is ever charged or kept that is less than nothing.
LEMMA NeverShort ==
  ASSUME TdCorrect, NEW d \in Dquots
  PROVE  dq[d].rb >= dq[d].b /\ dq[d].ri >= dq[d].i
  <1>1. ASSUME NEW t \in Tasks
        PROVE  /\ KeptBy(tp[t], d) \in Int /\ tp[t].qa[d].ires \in Int
               /\ KeptBy(tp[t], d) >= 0 /\ tp[t].qa[d].ires >= 0
    <2>1. PICK f \in Task : f = tp[t]
      BY DEF TdCorrect, TdBase, TdTypeOK
    <2>2. PICK x \in Trx : x = f.qa[d]
      BY DEF Task
    <2>3. TrxOK(x)
      <3>1. CASE f.pc = "idle"
        BY <2>1, <2>2, <3>1, NoCallIs, TrxIs DEF TdCorrect, TdBase
      <3>2. CASE f.pc # "idle"
        BY <2>1, <2>2, <3>2, AtWork DEF TaskOK, PartsOK
      <3> QED BY <3>1, <3>2
    <2>4. PICK res \in Int, del \in Int, ires \in Int : res = x.res /\ del = x.del /\ ires = x.ires
      BY DEF Trx
    <2>5. res >= 0 /\ del >= 0 /\ ires >= 0
      <3>1. x.used \in Int /\ x.iused \in Int
        BY DEF Trx
      <3> QED BY <2>3, <2>4, <3>1 DEF TrxOK
    <2>6. PICK h \in Nat : h = Held(f, d)
      BY DEF Held, Task
    <2>7. KeptBy(f, d) = res + del + h /\ f.qa[d].ires = ires
      BY <2>2, <2>4, <2>6 DEF KeptBy
    <2> QED BY <2>1, <2>5, <2>7
  <1>2. ASSUME NEW i \in Inodes PROVE DelayedIn(tp, ip[i], i, d) \in Int /\ DelayedIn(tp, ip[i], i, d) >= 0
    BY DEF TdCorrect, TdBase, TdTypeOK, Inode, DelayedIn
  <1>3. PICK k, n, e : k = KeptBlocks(d) /\ n = KeptInodes(d) /\ e = OwnDelayed(d)
    OBVIOUS
  <1>4. k \in Int /\ k >= 0
    BY <1>1, <1>3, TdAssumption, SumTake, SumOfNaturals DEF KeptBlocks
  <1>5. n \in Int /\ n >= 0
    BY <1>1, <1>3, TdAssumption, SumTake, SumOfNaturals DEF KeptInodes
  <1>6. e \in Int /\ e >= 0
    BY <1>2, <1>3, TdAssumption, SumTake, SumOfNaturals DEF OwnDelayed
  <1>7. PICK rb \in Int, b \in Int, ri \in Int, i \in Int :
          rb = dq[d].rb /\ b = dq[d].b /\ ri = dq[d].ri /\ i = dq[d].i
    BY DquotIs DEF Dquot
  <1>8. rb - b = e + k /\ ri - i = n
    BY <1>3, <1>7 DEF TdCorrect, Balanced
  <1>9. rb >= b /\ ri >= i
    BY <1>4, <1>5, <1>6, <1>8
  <1> QED BY <1>7, <1>9

\* Between operations nothing is under way, and the inodes' counts are all there is.
LEMMA AtRest ==
  ASSUME TdCorrect, \A t \in Tasks : tp[t].pc = "idle", NEW d \in Dquots
  PROVE  /\ dq[d].b = BlocksOf(d) /\ dq[d].rb = dq[d].b + DelayedOf(d)
         /\ dq[d].i = InodesOf(d) /\ dq[d].ri = dq[d].i
         /\ dq[d].timer # "off" <=> Over(d, dq[d].b)
  <1>1. \A t \in Tasks : tp[t] = NoCall
    BY DEF TdCorrect, TdBase
  <1>2. \A t \in Tasks : /\ UsedBy(tp[t], d) = 0 /\ KeptBy(tp[t], d) = 0
                         /\ tp[t].qa[d].idelta = 0 /\ tp[t].qa[d].ires = 0
    BY <1>1, NoCallIs, TrxIs DEF UsedBy, KeptBy
  <1>3. UsedBlocks(d) = 0 /\ UsedInodes(d) = 0 /\ KeptBlocks(d) = 0 /\ KeptInodes(d) = 0
    BY <1>2, TdAssumption, SumOfNone DEF UsedBlocks, UsedInodes, KeptBlocks, KeptInodes
  <1>4. \A i \in Inodes : ip[i] \in Inode /\ LiveOK(ip[i])
    BY DEF TdCorrect, TdBase, TdTypeOK
  <1>5. \A i \in Inodes : /\ BlocksIn(ip[i], d) \in Int /\ CountIn(ip[i], d) \in Int
                          /\ DelayedIn(tp, ip[i], i, d) \in Int
    BY <1>4 DEF BlocksIn, CountIn, DelayedIn, Inode
  <1>6. \A i \in Inodes : /\ BlocksIn(ip[i], d) = (IF Owns(d, i) THEN ip[i].nblocks ELSE 0)
                          /\ CountIn(ip[i], d) = (IF Owns(d, i) THEN 1 ELSE 0)
    BY <1>4 DEF BlocksIn, CountIn, Owns, Mapped, LiveOK
  <1>7. \A i \in Inodes : DelayedIn(tp, ip[i], i, d) = (IF Owns(d, i) THEN ip[i].del ELSE 0)
    BY <1>1, <1>4, NoCallIs DEF DelayedIn, ChargedIn, Owns, Mapped, LiveOK
  <1>8. OwnBlocks(d) = BlocksOf(d)
    BY <1>5, <1>6, TdAssumption, SumSame DEF OwnBlocks, BlocksOf
  <1>9. OwnInodes(d) = InodesOf(d)
    BY <1>5, <1>6, TdAssumption, SumSame DEF OwnInodes, InodesOf
  <1>10. OwnDelayed(d) = DelayedOf(d)
    BY <1>5, <1>7, TdAssumption, SumSame DEF OwnDelayed, DelayedOf
  <1>11. OwnDelayed(d) \in Int
    BY <1>5, TdAssumption, SumTake DEF OwnDelayed
  <1>12. PICK e \in Int, rb \in Int, b \in Int, ri \in Int, i \in Int :
           e = OwnDelayed(d) /\ rb = dq[d].rb /\ b = dq[d].b /\ ri = dq[d].ri /\ i = dq[d].i
    BY <1>11, DquotIs DEF Dquot
  <1>13. b + 0 = OwnBlocks(d) /\ i + 0 = OwnInodes(d) /\ rb - b = e + 0 /\ ri - i = 0
    BY <1>3, <1>12 DEF TdCorrect, Balanced
  <1>14. b = OwnBlocks(d) /\ i = OwnInodes(d) /\ rb = b + e /\ ri = i
    BY <1>13
  <1> QED BY <1>8, <1>9, <1>10, <1>12, <1>14, DquotIs

LEMMA CorrectIsBalanced == TdCorrect => QuotaIsBalanced
  BY NeverShort, AtRest DEF QuotaIsBalanced

\* Each step of every thread, one lemma per action, keeps the invariant.
LEMMA StepIsCorrect ==
  ASSUME TdCorrect, ~MixedFree, ~ChownFails, [TdNext]_tdVars
  PROVE  TdCorrect'
  <1>1. ASSUME NEW t \in Tasks,
               \/ Start(t) \/ ResUser(t) \/ ResGroup(t)
               \/ Alloc(t) \/ AllocUnreserved(t) \/ Free(t) \/ Convert(t)
               \/ Create(t) \/ Inactive(t) \/ Commit(t) \/ Cancel(t) \/ Roll(t)
               \/ Delay(t) \/ Undelay(t) \/ ChownDel(t) \/ ChownOld(t) \/ Chown(t)
        PROVE  TdCorrect'
    <2>1. ASSUME Start(t) \/ ResUser(t) \/ ResGroup(t) PROVE TdCorrect'
      BY <2>1, StartKeeps, ResUserKeeps, ResGroupKeeps
    <2>2. ASSUME Alloc(t) \/ AllocUnreserved(t) \/ Free(t) \/ Convert(t) PROVE TdCorrect'
      BY <2>2, AllocKeeps, AllocUnreservedKeeps, FreeKeeps, ConvertKeeps
    <2>3. ASSUME Create(t) \/ Inactive(t) PROVE TdCorrect'
      BY <2>3, CreateKeeps, InactiveKeeps
    <2>4. ASSUME Commit(t) \/ Cancel(t) \/ Roll(t) PROVE TdCorrect'
      BY <2>4, CommitKeeps, CancelKeeps, RollKeeps
    <2>5. ASSUME Delay(t) \/ Undelay(t) PROVE TdCorrect'
      BY <2>5, DelayKeeps, UndelayKeeps
    <2>6. ASSUME ChownDel(t) \/ ChownOld(t) \/ Chown(t) PROVE TdCorrect'
      BY <2>6, ChownDelKeeps, ChownOldKeeps, ChownKeeps
    <2> QED BY <1>1, <2>1, <2>2, <2>3, <2>4, <2>5, <2>6
  <1>2. CASE UNCHANGED tdVars
    <2>1. dq' = dq /\ ip' = ip /\ tp' = tp /\ calls' = calls
      BY <1>2 DEF tdVars
    <2>2. TdBase'
      BY <2>1 DEF TdCorrect, TdBase, TdTypeOK, Sole
    <2>3. ASSUME NEW d \in Dquots PROVE Balanced(d)'
      <3>1. Balanced(d)
        BY DEF TdCorrect
      <3> QED BY <2>1, <3>1 DEF Balanced, Over, UsedBlocks, UsedInodes, KeptBlocks, KeptInodes,
                                OwnBlocks, OwnInodes, OwnDelayed
    <2> QED BY <2>2, <2>3 DEF TdCorrect
  <1> QED BY <1>1, <1>2, ExpireKeeps DEF TdNext

\* The dquots are balanced in every state, whatever transactions run at the same time,
\* between xfs_trans_reserve_quota and xfs_trans_apply_dquot_deltas or the cancel. Without
\* the two assumptions it is not so: what a mixed transaction frees stays reserved
\* (xfs_trans_dquot.c:455), and a chown that fails later does not move the reservation for
\* delayed blocks back (xfs_qm.c:2649).
THEOREM QuotaIsAlwaysBalanced == ASSUME ~MixedFree, ~ChownFails PROVE TdSpec => []QuotaIsBalanced
  <1>1. TdInit => TdCorrect
    BY InitIsCorrect
  <1>2. TdCorrect /\ [TdNext]_tdVars => TdCorrect'
    BY StepIsCorrect
  <1> QED BY <1>1, <1>2, CorrectIsBalanced, PTL DEF TdSpec

\* Under the same assumptions every variable keeps its type.
THEOREM TransactionsAreTyped == ASSUME ~MixedFree, ~ChownFails PROVE TdSpec => []TdTypeOK
  <1>1. TdInit => TdCorrect
    BY InitIsCorrect
  <1>2. TdCorrect /\ [TdNext]_tdVars => TdCorrect'
    BY StepIsCorrect
  <1>3. TdCorrect => TdTypeOK
    BY DEF TdCorrect, TdBase
  <1> QED BY <1>1, <1>2, <1>3, PTL DEF TdSpec
=============================================================================
