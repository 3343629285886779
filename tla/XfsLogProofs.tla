----------------------------- MODULE XfsLogProofs -----------------------------
(***************************************************************************)
(* Proofs about the space in the log: the arithmetic of XfsLogSpace, the   *)
(* reservations of XfsLogGrant, for every set of tickets, every size of    *)
(* the log and every cycle number; and the tail of the log, XfsLogTail,    *)
(* for any number of transactions, items and records.                      *)
(***************************************************************************)
EXTENDS XfsLogGrant, XfsLogTail, XfsSums

----------------------------------------------------------------------------
(* The circular log *)

\* A place in a later cycle is at least one log length further on, less the
\* bytes: the only fact about the product cycle * LogSize the proofs need.
LEMMA CycleStep == ASSUME NEW x \in Int, NEW y \in Int, x < y
                   PROVE  x * LogSize + LogSize <= y * LogSize
<1>1. /\ LogSize \in Int /\ LogSize > 0
  BY LogSizeAssumption
<1>2. (y - x - 1) * LogSize >= 0
  BY <1>1
<1>3. (y - x - 1) * LogSize = y * LogSize - x * LogSize - LogSize
  BY <1>1
<1> QED
  BY <1>1, <1>2, <1>3

LEMMA NextCycle == ASSUME NEW x \in Int
                   PROVE  /\ (x + 1) * LogSize = x * LogSize + LogSize
                          /\ (x - 1) * LogSize = x * LogSize - LogSize
                          /\ x * LogSize \in Int
  BY LogSizeAssumption

\* xlog_grant_add_space moves a head by exactly the bytes asked for.
THEOREM AddSpaceExact == \A h \in Place, n \in Int : AddIsExact(h, n)
<1> SUFFICES ASSUME NEW h \in Place, NEW n \in 0 .. LogSize
             PROVE  AddSpace(h, n) \in Place /\ Pos(AddSpace(h, n)) = Pos(h) + n
  BY DEF AddIsExact
<1>1. /\ LogSize \in Nat /\ LogSize > 0 /\ n \in Int
      /\ h.cycle \in Int /\ h.bytes \in 0 .. LogSize - 1
      /\ h = [cycle |-> h.cycle, bytes |-> h.bytes]
  BY LogSizeAssumption DEF Place
<1>2. CASE LogSize - h.bytes > n
  <2>1. AddSpace(h, n) = [cycle |-> h.cycle, bytes |-> h.bytes + n]
    BY <1>1, <1>2 DEF AddSpace
  <2> QED
    BY <1>1, <1>2, <2>1, NextCycle DEF Place, Pos
<1>3. CASE ~(LogSize - h.bytes > n)
  <2>1. AddSpace(h, n) = [cycle |-> h.cycle + 1, bytes |-> n - (LogSize - h.bytes)]
    BY <1>3 DEF AddSpace
  <2>2. (h.cycle + 1) * LogSize = h.cycle * LogSize + LogSize
    BY <1>1, NextCycle
  <2>3. h.cycle * LogSize \in Int
    BY <1>1, NextCycle
  <2> QED
    BY <1>1, <1>3, <2>1, <2>2, <2>3 DEF Place, Pos
<1> QED
  BY <1>2, <1>3

\* xlog_grant_sub_space takes back exactly what xlog_grant_add_space added.
THEOREM SubSpaceUndoes == \A h \in Place, n \in Int : SubUndoesAdd(h, n)
<1> SUFFICES ASSUME NEW h \in Place, NEW n \in 0 .. LogSize
             PROVE  SubSpace(AddSpace(h, n), n) = h
  BY DEF SubUndoesAdd
<1>1. /\ LogSize \in Nat /\ LogSize > 0 /\ n \in Int
      /\ h.cycle \in Int /\ h.bytes \in 0 .. LogSize - 1
      /\ h = [cycle |-> h.cycle, bytes |-> h.bytes]
  BY LogSizeAssumption DEF Place
<1>2. CASE LogSize - h.bytes > n
  <2>1. AddSpace(h, n) = [cycle |-> h.cycle, bytes |-> h.bytes + n]
    BY <1>1, <1>2 DEF AddSpace
  <2> QED
    BY <1>1, <1>2, <2>1 DEF SubSpace
<1>3. CASE ~(LogSize - h.bytes > n)
  <2>1. AddSpace(h, n) = [cycle |-> h.cycle + 1, bytes |-> n - (LogSize - h.bytes)]
    BY <1>3 DEF AddSpace
  <2> QED
    BY <1>1, <1>3, <2>1 DEF SubSpace
<1> QED
  BY <1>2, <1>3

\* XFS_LSN_CMP compares cycle before block, which orders LSNs by distance.
THEOREM LsnOrder == \A a, b \in Place : LsnOrderIsDistance(a, b)
<1> SUFFICES ASSUME NEW a \in Place, NEW b \in Place
             PROVE  LsnLeq(a, b) <=> Pos(a) <= Pos(b)
  BY DEF LsnOrderIsDistance
<1>1. /\ LogSize \in Nat /\ LogSize > 0
      /\ a.cycle \in Int /\ a.bytes \in 0 .. LogSize - 1
      /\ b.cycle \in Int /\ b.bytes \in 0 .. LogSize - 1
  BY LogSizeAssumption DEF Place
<1>2. a.cycle * LogSize \in Int /\ b.cycle * LogSize \in Int
  BY <1>1, NextCycle
<1>3. CASE a.cycle < b.cycle
  <2>1. a.cycle * LogSize + LogSize <= b.cycle * LogSize
    BY <1>1, <1>3, CycleStep
  <2> QED
    BY <1>1, <1>2, <1>3, <2>1 DEF LsnLeq, Pos
<1>4. CASE a.cycle = b.cycle
  BY <1>1, <1>2, <1>4 DEF LsnLeq, Pos
<1>5. CASE b.cycle < a.cycle
  <2>1. b.cycle * LogSize + LogSize <= a.cycle * LogSize
    BY <1>1, <1>5, CycleStep
  <2> QED
    BY <1>1, <1>2, <1>5, <2>1 DEF LsnLeq, Pos
<1> QED
  BY <1>1, <1>3, <1>4, <1>5

\* xlog_grant_push_ail's threshold is n blocks past the tail.
THEOREM ThresholdExact == \A p \in Place, n \in Int : ThresholdIsExact(p, n)
<1> SUFFICES ASSUME NEW p \in Place, NEW n \in 0 .. LogSize
             PROVE  /\ ThresholdLsn(p, n) \in Place
                    /\ Pos(ThresholdLsn(p, n)) = Pos(p) + n
  BY DEF ThresholdIsExact
<1>1. /\ LogSize \in Nat /\ LogSize > 0 /\ n \in Int
      /\ p.cycle \in Int /\ p.bytes \in 0 .. LogSize - 1
      /\ p = [cycle |-> p.cycle, bytes |-> p.bytes]
  BY LogSizeAssumption DEF Place
<1>2. /\ (p.cycle + 1) * LogSize = p.cycle * LogSize + LogSize
      /\ p.cycle * LogSize \in Int
  BY <1>1, NextCycle
<1>3. CASE p.bytes + n >= LogSize
  BY <1>1, <1>2, <1>3 DEF ThresholdLsn, Place, Pos
<1>4. CASE ~(p.bytes + n >= LogSize)
  <2>1. ThresholdLsn(p, n) = [cycle |-> p.cycle, bytes |-> p.bytes + n]
    BY <1>1, <1>4 DEF ThresholdLsn
  <2> QED
    BY <1>1, <1>2, <1>4, <2>1 DEF Place, Pos
<1> QED
  BY <1>3, <1>4

\* xlog_space_left is exact up to one cycle apart.
THEOREM SpaceLeftExact == \A p, h \in Place : SpaceLeftIsExact(p, h)
<1> SUFFICES ASSUME NEW p \in Place, NEW h \in Place,
                    Pos(p) <= Pos(h), h.cycle <= p.cycle + 1
             PROVE  SpaceLeft(p, h) = LogSize - (Pos(h) - Pos(p))
  BY DEF SpaceLeftIsExact
<1>1. /\ LogSize \in Nat /\ LogSize > 0
      /\ p.cycle \in Int /\ p.bytes \in 0 .. LogSize - 1
      /\ h.cycle \in Int /\ h.bytes \in 0 .. LogSize - 1
  BY LogSizeAssumption DEF Place
<1>2. /\ (p.cycle + 1) * LogSize = p.cycle * LogSize + LogSize
      /\ p.cycle * LogSize \in Int /\ h.cycle * LogSize \in Int
  BY <1>1, NextCycle
<1>3. LsnLeq(p, h)
  BY LsnOrder DEF LsnOrderIsDistance
<1>4. CASE p.cycle = h.cycle
  <2>1. h.bytes >= p.bytes
    BY <1>1, <1>3, <1>4 DEF LsnLeq
  <2>2. SpaceLeft(p, h) = LogSize - (h.bytes - p.bytes)
    BY <1>4, <2>1 DEF SpaceLeft
  <2> QED
    BY <1>1, <1>2, <1>4, <2>2 DEF Pos
<1>5. CASE h.cycle = p.cycle + 1
  <2>1. /\ ~(p.cycle = h.cycle)
        /\ ~(p.cycle + 1 < h.cycle)
        /\ p.cycle < h.cycle
    BY <1>1, <1>5
  <2>2. SpaceLeft(p, h) = p.bytes - h.bytes
    BY <1>1, <2>1 DEF SpaceLeft
  <2> QED
    BY <1>1, <1>2, <1>5, <2>2 DEF Pos
<1> QED
  BY <1>1, <1>3, <1>4, <1>5 DEF LsnLeq

\* A request that xlog_space_left covers never takes the head past the tail.
THEOREM SpaceLeftSafe ==
  \A p, h \in Place, n \in Int : SpaceLeftIsSafe(p, h, n)
<1> SUFFICES ASSUME NEW p \in Place, NEW h \in Place, NEW n \in 1 .. LogSize,
                    n <= SpaceLeft(p, h)
             PROVE  Pos(AddSpace(h, n)) <= Pos(p) + LogSize
  BY DEF SpaceLeftIsSafe
<1>1. /\ LogSize \in Nat /\ LogSize > 0 /\ n \in 0 .. LogSize
      /\ p.cycle \in Int /\ p.bytes \in 0 .. LogSize - 1
      /\ h.cycle \in Int /\ h.bytes \in 0 .. LogSize - 1
  BY LogSizeAssumption DEF Place
<1>2. Pos(AddSpace(h, n)) = Pos(h) + n
  BY <1>1, AddSpaceExact DEF AddIsExact
<1>3. Pos(p) \in Int /\ Pos(h) \in Int
  BY <1>1, NextCycle DEF Pos
<1>6. CASE Pos(h) < Pos(p)
  BY <1>1, <1>2, <1>3, <1>6
<1>4. CASE Pos(p) <= Pos(h) /\ h.cycle <= p.cycle + 1
  <2>1. SpaceLeft(p, h) = LogSize - (Pos(h) - Pos(p))
    BY <1>4, SpaceLeftExact DEF SpaceLeftIsExact
  <2> QED
    BY <1>1, <1>2, <1>3, <2>1
<1>5. CASE ~(h.cycle <= p.cycle + 1)
  <2>1. /\ ~(p.cycle = h.cycle) /\ p.cycle + 1 < h.cycle
        /\ ~(p.cycle + 1 = h.cycle)
    BY <1>1, <1>5
  <2>2. SpaceLeft(p, h) = 0
    BY <2>1 DEF SpaceLeft
  <2> QED
    BY <1>1, <2>2
<1> QED
  BY <1>3, <1>4, <1>5, <1>6

----------------------------------------------------------------------------
(* Places in the log *)

LEMMA AtIsPlace == ASSUME NEW n \in Nat PROVE At(n) \in Place /\ Pos(At(n)) = n
  <1>1. LogSize \in Nat /\ LogSize > 0
    BY LogSizeAssumption
  <1> DEFINE d == n \div LogSize
             m == n % LogSize
  <1>2. d \in Int /\ m \in 0 .. LogSize - 1
    BY <1>1
  <1>3. n = LogSize * d + m
    BY <1>1
  <1>4. d * LogSize = LogSize * d
    BY <1>1, <1>2
  <1> QED BY <1>1, <1>2, <1>3, <1>4 DEF At, Place, Pos

LEMMA PosIsInt == ASSUME NEW h \in Place PROVE Pos(h) \in Int
  BY NextCycle, LogSizeAssumption DEF Pos, Place

LEMMA Forward == ASSUME NEW h \in Place, NEW n \in 0 .. LogSize
                 PROVE  AddSpace(h, n) \in Place /\ Pos(AddSpace(h, n)) = Pos(h) + n
  BY AddSpaceExact, LogSizeAssumption DEF AddIsExact

\* xlog_grant_sub_space moves a head back by exactly the bytes given back.
LEMMA Back == ASSUME NEW h \in Place, NEW n \in 0 .. LogSize
              PROVE  SubSpace(h, n) \in Place /\ Pos(SubSpace(h, n)) = Pos(h) - n
  <1>1. /\ LogSize \in Nat /\ LogSize > 0 /\ n \in Int
        /\ h.cycle \in Int /\ h.bytes \in 0 .. LogSize - 1
        /\ h = [cycle |-> h.cycle, bytes |-> h.bytes]
    BY LogSizeAssumption DEF Place
  <1>2. CASE h.bytes - n < 0
    <2>1. SubSpace(h, n) = [cycle |-> h.cycle - 1, bytes |-> h.bytes - n + LogSize]
      BY <1>2 DEF SubSpace
    <2> QED BY <1>1, <1>2, <2>1, NextCycle DEF Place, Pos
  <1>3. CASE ~(h.bytes - n < 0)
    <2>1. SubSpace(h, n) = [cycle |-> h.cycle, bytes |-> h.bytes - n]
      BY <1>1, <1>3 DEF SubSpace
    <2> QED BY <1>1, <1>3, <2>1, NextCycle DEF Place, Pos
  <1> QED BY <1>2, <1>3

LEMMA Order == ASSUME NEW a \in Place, NEW b \in Place
               PROVE  /\ LsnLeq(a, b) <=> Pos(a) <= Pos(b)
                      /\ Pos(a) \in Int /\ Pos(b) \in Int
  BY LsnOrder, PosIsInt DEF LsnOrderIsDistance

LEMMA Threshold == ASSUME NEW p \in Place, NEW n \in 0 .. LogSize
                   PROVE  ThresholdLsn(p, n) \in Place
  BY ThresholdExact, LogSizeAssumption DEF ThresholdIsExact

LEMMA Safe == ASSUME NEW p \in Place, NEW h \in Place, NEW n \in 1 .. LogSize, n <= SpaceLeft(p, h)
              PROVE  Pos(AddSpace(h, n)) <= Pos(p) + LogSize
  BY SpaceLeftSafe, LogSizeAssumption DEF SpaceLeftIsSafe

LEMMA LsnsArePlaces == Lsns \subseteq Place
  BY AtIsPlace, GrantAssumption DEF Lsns

----------------------------------------------------------------------------
(* The parts of the inductive invariant *)

Stages == {"idle", "grant", "gsleep1", "gsleep2", "gredo", "held", "rolled", "regrant", "wsleep1", "wsleep2",
           "wredo", "failed", "ungranted"}
Asking == {"grant", "gsleep1", "gsleep2", "gredo"}
Waiting == {"wsleep1", "wsleep2", "wredo"}

\* What a ticket of stage p has for t_curr_res (c) and t_cnt (k): all it asked for until
\* it is granted, a whole unit between two transactions, no pre-reserved unit while it
\* waits for one, and no stage "failed" before a shutdown (s).
StageAt(t, s, p, c, k) ==
  /\ p \in Stages /\ c \in 0 .. Unit[t] /\ k \in 0 .. Ocnt[t]
  /\ p \in Between => t \in Perm /\ c = Unit[t]
  /\ p \in Waiting => k = 0
  /\ p \in Asking => c = Unit[t] /\ k = Ocnt[t]
  /\ p = "failed" => s

TicsOK ==
  /\ pc \in [Tickets -> Stages] /\ curr \in [Tickets -> Nat] /\ cnt \in [Tickets -> Nat]
  /\ \A t \in Tickets : StageAt(t, Shut, pc[t], curr[t], cnt[t])
HeadsOK == reserve \in Place /\ write \in Place
\* the tail follows the AIL, the AIL the disk
PlacesOK ==
  /\ tail \in Place /\ lastSync \in Place /\ target \in Place /\ ailMin \in Place
  /\ movers \subseteq Lsns
  /\ LsnLeq(tail, ailMin) /\ LsnLeq(ailMin, lastSync) /\ LsnLeq(target, lastSync)
  /\ \A l \in movers : LsnLeq(l, ailMin)
QueuesOK ==
  /\ next \in [Tickets -> Tickets \cup {Null}] /\ prev \in [Tickets -> Tickets \cup {Null}]
  /\ headq \in [Queues -> Tickets \cup {Null}] /\ inQ \subseteq Tickets
RestOK ==
  /\ awake \subseteq Sleeping
  /\ shutdown \in 0 .. MaxShutdowns /\ head \in Nat /\ round \in 0 .. MaxRound /\ oops \in BOOLEAN
Base == TicsOK /\ HeadsOK /\ PlacesOK /\ QueuesOK /\ RestOK

LEMMA BaseTypes == Base => TypeOK
  BY DEF Base, TicsOK, HeadsOK, PlacesOK, QueuesOK, RestOK, TypeOK, StageAt, Stages

LEMMA Sizes ==
  /\ LogSize \in Nat /\ LogSize > 0
  /\ \A t \in Tickets : /\ Unit[t] \in 1 .. LogSize /\ Ocnt[t] \in 0 .. LogSize /\ Need(t) \in 1 .. LogSize
                        /\ Unit[t] * Ocnt[t] \in 0 .. LogSize
                        /\ t \notin Perm => Ocnt[t] <= 1
                        /\ t \in Perm => Ocnt[t] >= 1 /\ Need(t) = Unit[t] * Ocnt[t]
  <1>1. LogSize \in Nat /\ LogSize > 0
    BY LogSizeAssumption
  <1>2. ASSUME NEW t \in Tickets
        PROVE  /\ Unit[t] \in 1 .. LogSize /\ Ocnt[t] \in 0 .. LogSize /\ Need(t) < LogSize
               /\ t \notin Perm => Ocnt[t] <= 1
               /\ t \in Perm => Ocnt[t] >= 1 /\ Need(t) = Unit[t] * Ocnt[t]
               /\ t \notin Perm => Need(t) = Unit[t]
    BY <1>1, GrantAssumption DEF Need
  <1>3. ASSUME NEW u \in 1 .. LogSize, NEW o \in 0 .. LogSize
        PROVE  /\ o >= 1 => u * o >= u
               /\ o <= 1 => u * o \in 0 .. LogSize
               /\ u * o \in Int
    <2>1. CASE o = 0
      BY <1>1, <2>1
    <2>2. CASE o = 1
      BY <1>1, <2>2
    <2>3. CASE o > 1
      <3>1. u * (o - 1) >= 0 /\ u * (o - 1) = u * o - u /\ u * o \in Int
        BY <1>1, <2>3
      <3> QED BY <1>1, <2>3, <3>1
    <2> QED BY <1>1, <2>1, <2>2, <2>3
  <1>4. ASSUME NEW t \in Tickets PROVE Need(t) \in 1 .. LogSize /\ Unit[t] * Ocnt[t] \in 0 .. LogSize
    <2>1. /\ Ocnt[t] >= 1 => Unit[t] * Ocnt[t] >= Unit[t]
          /\ Ocnt[t] <= 1 => Unit[t] * Ocnt[t] \in 0 .. LogSize
          /\ Unit[t] * Ocnt[t] \in Int
      BY <1>2, <1>3
    <2>2. CASE t \in Perm
      BY <1>1, <1>2, <2>1, <2>2
    <2>3. CASE t \notin Perm
      BY <1>1, <1>2, <2>1, <2>3
    <2> QED BY <2>2, <2>3
  <1> QED BY <1>1, <1>2, <1>4

----------------------------------------------------------------------------
(* The tickets *)

\* A step that gives ticket t one legal stage leaves all tickets in one.
LEMMA OneStage ==
  ASSUME TicsOK, NEW t \in Tickets, NEW p, NEW c, NEW k, Shut => Shut', StageAt(t, Shut', p, c, k),
         pc' = [pc EXCEPT ![t] = p], curr' = [curr EXCEPT ![t] = c], cnt' = [cnt EXCEPT ![t] = k]
  PROVE  TicsOK'
  <1>1. c \in Nat /\ k \in Nat /\ p \in Stages
    BY Sizes DEF StageAt
  <1>2. pc' \in [Tickets -> Stages] /\ curr' \in [Tickets -> Nat] /\ cnt' \in [Tickets -> Nat]
    BY <1>1 DEF TicsOK
  <1>3. ASSUME NEW u \in Tickets PROVE StageAt(u, Shut', pc'[u], curr'[u], cnt'[u])
    <2>1. CASE u = t
      <3>1. pc'[u] = p /\ curr'[u] = c /\ cnt'[u] = k
        BY <2>1 DEF TicsOK
      <3> QED BY <2>1, <3>1
    <2>2. CASE u # t
      <3>1. pc'[u] = pc[u] /\ curr'[u] = curr[u] /\ cnt'[u] = cnt[u]
        BY <2>2 DEF TicsOK
      <3>2. StageAt(u, Shut, pc[u], curr[u], cnt[u])
        BY DEF TicsOK
      <3> QED BY <3>1, <3>2 DEF StageAt
    <2> QED BY <2>1, <2>2
  <1> QED BY <1>2, <1>3 DEF TicsOK

\* ... and so does one that moves none, at or before a shutdown.
LEMMA NoStage == ASSUME TicsOK, Shut => Shut', UNCHANGED tics PROVE TicsOK'
  <1>1. pc' = pc /\ curr' = curr /\ cnt' = cnt
    BY DEF tics
  <1>2. ASSUME NEW u \in Tickets PROVE StageAt(u, Shut', pc'[u], curr'[u], cnt'[u])
    <2>1. StageAt(u, Shut, pc[u], curr[u], cnt[u])
      BY DEF TicsOK
    <2> QED BY <1>1, <2>1 DEF StageAt
  <1> QED BY <1>1, <1>2 DEF TicsOK

\* what a ticket's own thread knows of it
LEMMA AtStage == ASSUME TicsOK, NEW t \in Tickets
                 PROVE  /\ StageAt(t, Shut, pc[t], curr[t], cnt[t])
                        /\ pc = [pc EXCEPT ![t] = pc[t]] /\ curr = [curr EXCEPT ![t] = curr[t]]
                        /\ cnt = [cnt EXCEPT ![t] = cnt[t]]
                        /\ curr[t] \in Nat /\ cnt[t] \in Nat
  BY DEF TicsOK

LEMMA ErrorStage == ASSUME TicsOK, NEW t \in Tickets, NEW q, Shut, UNCHANGED shutdown, ErrorReturn(q, t)
                    PROVE  TicsOK'
  <1>1. StageAt(t, Shut', "failed", 0, 0) /\ Shut' = Shut
    BY Sizes DEF Shut, StageAt, Stages, Between, Waiting, Asking
  <1> QED BY <1>1, OneStage DEF ErrorReturn

LEMMA GrantTryStage == ASSUME TicsOK, NEW t \in Tickets, pc[t] \in Asking, UNCHANGED shutdown, GrantTry(t)
                       PROVE  TicsOK'
  <1>1. CASE Shut /\ ErrorReturn("reserve", t)
    BY <1>1, ErrorStage
  <1>2. ASSUME NEW p \in {"gsleep2", "held"}, pc' = [pc EXCEPT ![t] = p], UNCHANGED <<curr, cnt>> PROVE TicsOK'
    <2>1. StageAt(t, Shut', p, curr[t], cnt[t]) /\ Shut' = Shut
      BY <1>2, AtStage DEF Shut, StageAt, Stages, Between, Waiting, Asking
    <2>2. curr' = [curr EXCEPT ![t] = curr[t]] /\ cnt' = [cnt EXCEPT ![t] = cnt[t]]
      BY <1>2, AtStage
    <2>3. pc' = [pc EXCEPT ![t] = p]
      BY <1>2
    <2> QED BY <2>1, <2>2, <2>3, OneStage
  <1> QED BY <1>1, <1>2 DEF GrantTry

LEMMA RegrantTryStage == ASSUME TicsOK, NEW t \in Tickets, pc[t] \in Between, cnt[t] = 0, UNCHANGED shutdown, RegrantTry(t)
                         PROVE  TicsOK'
  <1>1. CASE Shut /\ ErrorReturn("reserve", t)
    BY <1>1, ErrorStage
  <1>2. ASSUME NEW p \in {"wsleep2", "held"}, pc' = [pc EXCEPT ![t] = p], UNCHANGED <<curr, cnt>> PROVE TicsOK'
    <2>1. StageAt(t, Shut', p, curr[t], cnt[t]) /\ Shut' = Shut
      BY <1>2, AtStage DEF Shut, StageAt, Stages, Between, Waiting, Asking
    <2>2. curr' = [curr EXCEPT ![t] = curr[t]] /\ cnt' = [cnt EXCEPT ![t] = cnt[t]]
      BY <1>2, AtStage
    <2>3. pc' = [pc EXCEPT ![t] = p]
      BY <1>2
    <2> QED BY <2>1, <2>2, <2>3, OneStage
  <1> QED BY <1>1, <1>2 DEF RegrantTry

\* Every step leaves every ticket at a legal stage.
LEMMA TicsStep ==
  ASSUME TicsOK, RestOK, Next \/ UNCHANGED vars
  PROVE  TicsOK'
  <1>a. ASSUME NEW t \in Tickets, Thread(t) PROVE TicsOK'
    <2>1. CASE LogReserve(t)
      <3>1. pc' = [pc EXCEPT ![t] = "grant"] /\ curr' = [curr EXCEPT ![t] = Unit[t]] /\ cnt' = [cnt EXCEPT ![t] = Ocnt[t]]
        BY <2>1, AtStage DEF LogReserve
      <3>2. Shut' = Shut
        BY <2>1 DEF LogReserve, Shut
      <3>3. StageAt(t, Shut', "grant", Unit[t], Ocnt[t])
        BY <2>1, <3>2, AtStage, Sizes DEF LogReserve, StageAt, Stages, Between, Waiting, Asking
      <3> QED BY <3>1, <3>2, <3>3, OneStage
    <2>2. CASE GrantLogSpace(t)
      <3>1. pc[t] \in Asking /\ UNCHANGED shutdown /\ GrantTry(t)
        BY <2>2 DEF GrantLogSpace, Asking
      <3> QED BY <3>1, GrantTryStage
    <2>3. CASE GrantQueueUp(t)
      <3>1. pc' = [pc EXCEPT ![t] = "gsleep1"] /\ curr' = [curr EXCEPT ![t] = curr[t]] /\ cnt' = [cnt EXCEPT ![t] = cnt[t]]
        BY <2>3, AtStage DEF GrantQueueUp
      <3>2. Shut' = Shut
        BY <2>3 DEF GrantQueueUp, Shut
      <3>3. StageAt(t, Shut', "gsleep1", curr[t], cnt[t])
        BY <2>3, <3>2, AtStage, Sizes DEF GrantQueueUp, StageAt, Stages, Between, Waiting, Asking
      <3> QED BY <3>1, <3>2, <3>3, OneStage
    <2>4. CASE GrantQueueUpShut(t)
      <3>1. pc' = [pc EXCEPT ![t] = "failed"] /\ curr' = [curr EXCEPT ![t] = 0] /\ cnt' = [cnt EXCEPT ![t] = 0]
        BY <2>4, AtStage DEF GrantQueueUpShut
      <3>2. Shut' = Shut
        BY <2>4 DEF GrantQueueUpShut, Shut
      <3>3. StageAt(t, Shut', "failed", 0, 0)
        BY <2>4, <3>2, AtStage, Sizes DEF GrantQueueUpShut, StageAt, Stages, Between, Waiting, Asking
      <3> QED BY <3>1, <3>2, <3>3, OneStage
    <2>5. CASE GrantWake1(t)
      <3>1. pc[t] \in Asking /\ UNCHANGED shutdown /\ GrantTry(t)
        BY <2>5 DEF GrantWake1, Asking
      <3> QED BY <3>1, GrantTryStage
    <2>6. CASE GrantWake2(t)
      <3>a. CASE Shut /\ ErrorReturn("reserve", t)
        BY <2>6, <3>a, ErrorStage DEF GrantWake2
      <3>b. CASE ~(Shut /\ ErrorReturn("reserve", t))
        <4>1. pc' = [pc EXCEPT ![t] = "gredo"] /\ curr' = [curr EXCEPT ![t] = curr[t]] /\ cnt' = [cnt EXCEPT ![t] = cnt[t]]
          BY <2>6, AtStage, <3>b DEF GrantWake2
        <4>2. Shut' = Shut
          BY <2>6 DEF GrantWake2, Shut
        <4>3. StageAt(t, Shut', "gredo", curr[t], cnt[t])
          BY <2>6, <4>2, AtStage, Sizes, <3>b DEF GrantWake2, StageAt, Stages, Between, Waiting, Asking
        <4> QED BY <4>1, <4>2, <4>3, OneStage
      <3> QED BY <3>a, <3>b
    <2>7. CASE LogReserveAgain(t)
      <3>a. CASE Shut /\ pc' = [pc EXCEPT ![t] = "failed"]
        <4>1. pc' = [pc EXCEPT ![t] = "failed"] /\ curr' = [curr EXCEPT ![t] = curr[t]] /\ cnt' = [cnt EXCEPT ![t] = cnt[t]]
          BY <2>7, AtStage, <3>a DEF LogReserveAgain
        <4>2. Shut' = Shut
          BY <2>7 DEF LogReserveAgain, Shut
        <4>3. StageAt(t, Shut', "failed", curr[t], cnt[t])
          BY <2>7, <4>2, AtStage, Sizes, <3>a DEF LogReserveAgain, StageAt, Stages, Between, Waiting, Asking
        <4> QED BY <4>1, <4>2, <4>3, OneStage
      <3>b. CASE ~(Shut /\ pc' = [pc EXCEPT ![t] = "failed"])
        <4>1. pc' = [pc EXCEPT ![t] = "regrant"] /\ curr' = [curr EXCEPT ![t] = curr[t]] /\ cnt' = [cnt EXCEPT ![t] = cnt[t]]
          BY <2>7, AtStage, <3>b DEF LogReserveAgain
        <4>2. Shut' = Shut
          BY <2>7 DEF LogReserveAgain, Shut
        <4>3. StageAt(t, Shut', "regrant", curr[t], cnt[t])
          BY <2>7, <4>2, AtStage, Sizes, <3>b DEF LogReserveAgain, StageAt, Stages, Between, Waiting, Asking
        <4> QED BY <4>1, <4>2, <4>3, OneStage
      <3> QED BY <3>a, <3>b
    <2>8. CASE RegrantPrereserved(t)
      <3>1. pc' = [pc EXCEPT ![t] = "held"] /\ curr' = [curr EXCEPT ![t] = Unit[t]] /\ cnt' = [cnt EXCEPT ![t] = cnt[t]]
        BY <2>8, AtStage DEF RegrantPrereserved
      <3>2. Shut' = Shut
        BY <2>8 DEF RegrantPrereserved, Shut
      <3>3. StageAt(t, Shut', "held", Unit[t], cnt[t])
        BY <2>8, <3>2, AtStage, Sizes DEF RegrantPrereserved, StageAt, Stages, Between, Waiting, Asking
      <3> QED BY <3>1, <3>2, <3>3, OneStage
    <2>9. CASE RegrantWriteLogSpace(t)
      <3>a. CASE RegrantTry(t)
        <4>1. pc[t] \in Between /\ cnt[t] = 0 /\ UNCHANGED shutdown
          BY <2>9 DEF RegrantWriteLogSpace, Between
        <4> QED BY <3>a, <4>1, RegrantTryStage
      <3>b. CASE ~RegrantTry(t)
        <4>1. pc' = [pc EXCEPT ![t] = "wsleep1"] /\ curr' = [curr EXCEPT ![t] = curr[t]] /\ cnt' = [cnt EXCEPT ![t] = cnt[t]]
          BY <2>9, AtStage, <3>b DEF RegrantWriteLogSpace
        <4>2. Shut' = Shut
          BY <2>9 DEF RegrantWriteLogSpace, Shut
        <4>3. StageAt(t, Shut', "wsleep1", curr[t], cnt[t])
          BY <2>9, <4>2, AtStage, Sizes, <3>b DEF RegrantWriteLogSpace, StageAt, Stages, Between, Waiting, Asking
        <4> QED BY <4>1, <4>2, <4>3, OneStage
      <3> QED BY <3>a, <3>b
    <2>10. CASE RegrantRedo(t)
      <3>1. pc[t] \in Between /\ pc[t] \in Waiting /\ UNCHANGED shutdown /\ RegrantTry(t)
        BY <2>10 DEF RegrantRedo, Between, Waiting
      <3>2. cnt[t] = 0
        BY <3>1, AtStage DEF StageAt
      <3> QED BY <3>1, <3>2, RegrantTryStage
    <2>11. CASE RegrantWake(t)
      <3>a. CASE Shut /\ ErrorReturn("reserve", t)
        BY <2>11, <3>a, ErrorStage DEF RegrantWake
      <3>b. CASE ~(Shut /\ ErrorReturn("reserve", t))
        <4>1. pc' = [pc EXCEPT ![t] = "wredo"] /\ curr' = [curr EXCEPT ![t] = curr[t]] /\ cnt' = [cnt EXCEPT ![t] = cnt[t]]
          BY <2>11, AtStage, <3>b DEF RegrantWake
        <4>2. Shut' = Shut
          BY <2>11 DEF RegrantWake, Shut
        <4>3. StageAt(t, Shut', "wredo", curr[t], cnt[t])
          BY <2>11, <4>2, AtStage, Sizes, <3>b DEF RegrantWake, StageAt, Stages, Between, Waiting, Asking
        <4> QED BY <4>1, <4>2, <4>3, OneStage
      <3> QED BY <3>a, <3>b
    <2>12. CASE RegrantReserveLogSpace(t)
      <3>1. pc' = [pc EXCEPT ![t] = "rolled"] /\ curr' = [curr EXCEPT ![t] = Unit[t]] /\ cnt' = [cnt EXCEPT ![t] = Minus1(cnt[t])]
        BY <2>12, AtStage DEF RegrantReserveLogSpace, Minus1
      <3>2. Shut' = Shut
        BY <2>12 DEF RegrantReserveLogSpace, Minus1, Shut
      <3>3. StageAt(t, Shut', "rolled", Unit[t], Minus1(cnt[t]))
        BY <2>12, <3>2, AtStage, Sizes DEF RegrantReserveLogSpace, Minus1, StageAt, Stages, Between, Waiting, Asking
      <3> QED BY <3>1, <3>2, <3>3, OneStage
    <2>13. CASE UngrantLogSpace(t)
      <3>1. pc' = [pc EXCEPT ![t] = "ungranted"] /\ curr' = [curr EXCEPT ![t] = curr[t]] /\ cnt' = [cnt EXCEPT ![t] = Minus1(cnt[t])]
        BY <2>13, AtStage DEF UngrantLogSpace, Minus1
      <3>2. Shut' = Shut
        BY <2>13 DEF UngrantLogSpace, Minus1, Shut
      <3>3. StageAt(t, Shut', "ungranted", curr[t], Minus1(cnt[t]))
        BY <2>13, <3>2, AtStage, Sizes DEF UngrantLogSpace, Minus1, StageAt, Stages, Between, Waiting, Asking
      <3> QED BY <3>1, <3>2, <3>3, OneStage
    <2>14. CASE UngrantWake(t)
      <3>1. pc' = [pc EXCEPT ![t] = "idle"] /\ curr' = [curr EXCEPT ![t] = 0] /\ cnt' = [cnt EXCEPT ![t] = 0]
        BY <2>14, AtStage DEF UngrantWake
      <3>2. Shut' = Shut
        BY <2>14 DEF UngrantWake, Shut
      <3>3. StageAt(t, Shut', "idle", 0, 0)
        BY <2>14, <3>2, AtStage, Sizes DEF UngrantWake, StageAt, Stages, Between, Waiting, Asking
      <3> QED BY <3>1, <3>2, <3>3, OneStage
    <2> QED BY <1>a, <2>1, <2>2, <2>3, <2>4, <2>5, <2>6, <2>7, <2>8, <2>9, <2>10, <2>11, <2>12, <2>13, <2>14 DEF Thread
  <1>b. ASSUME NEW t \in Tickets, NEW n \in WriteSizes, LogWrite(t, n) PROVE TicsOK'
    <2>1. pc' = [pc EXCEPT ![t] = pc[t]] /\ curr' = [curr EXCEPT ![t] = curr[t] - n] /\ cnt' = [cnt EXCEPT ![t] = cnt[t]]
      BY <1>b, AtStage DEF LogWrite
    <2>2. Shut' = Shut
      BY <1>b DEF LogWrite, Shut
    <2>3. n \in Nat /\ n <= curr[t] /\ pc[t] = "held"
      BY <1>b, GrantAssumption DEF LogWrite
    <2>4. StageAt(t, Shut', pc[t], curr[t] - n, cnt[t])
      BY <2>2, <2>3, AtStage, Sizes DEF StageAt, Stages, Between, Waiting, Asking
    <2> QED BY <2>1, <2>2, <2>4, OneStage
  <1>c. ASSUME NEW n \in RoundSizes, LogRoundoff(n) PROVE TicsOK'
    <2>1. UNCHANGED tics /\ (Shut => Shut')
      BY <1>c DEF LogRoundoff, Shut, tics
    <2> QED BY <2>1, NoStage
  <1>d. ASSUME NEW l \in Lsns, SyncLog(l) PROVE TicsOK'
    <2>1. UNCHANGED tics /\ (Shut => Shut')
      BY <1>d DEF SyncLog, Shut, tics
    <2> QED BY <2>1, NoStage
  <1>e. ASSUME NEW l \in Lsns, AilAdvance(l) PROVE TicsOK'
    <2>1. UNCHANGED tics /\ (Shut => Shut')
      BY <1>e DEF AilAdvance, Shut, tics
    <2> QED BY <2>1, NoStage
  <1>f. ASSUME NEW l \in movers, MoveTail(l) PROVE TicsOK'
    <2>1. UNCHANGED tics /\ (Shut => Shut')
      BY <1>f DEF MoveTail, Shut, tics
    <2> QED BY <2>1, NoStage
  <1>g. ASSUME AssignTail PROVE TicsOK'
    <2>1. UNCHANGED tics /\ (Shut => Shut')
      BY <1>g DEF AssignTail, Shut, tics
    <2> QED BY <2>1, NoStage
  <1>h. ASSUME ForceUmount PROVE TicsOK'
    <2>1. UNCHANGED tics
      BY <1>h DEF ForceUmount
    <2>2. Shut => Shut'
      BY <1>h DEF ForceUmount, Shut, RestOK
    <2> QED BY <2>1, <2>2, NoStage
  <1>i. ASSUME UNCHANGED vars PROVE TicsOK'
    <2>1. UNCHANGED tics /\ (Shut => Shut')
      BY <1>i DEF vars, Shut, tics
    <2> QED BY <2>1, NoStage
  <1> QED BY <1>a, <1>b, <1>c, <1>d, <1>e, <1>f, <1>g, <1>h, <1>i DEF Next

----------------------------------------------------------------------------
(* The grant heads *)

LEMMA GrantTryHeads == ASSUME HeadsOK, NEW t \in Tickets, GrantTry(t) PROVE HeadsOK'
  <1>1. CASE UNCHANGED heads
    BY <1>1 DEF HeadsOK, heads
  <1>2. CASE write' = AddSpace(write, Need(t)) /\ reserve' = AddSpace(reserve, Need(t))
    BY <1>2, Sizes, Forward DEF HeadsOK
  <1> QED BY <1>1, <1>2 DEF GrantTry, ErrorReturn

LEMMA RegrantTryHeads == ASSUME HeadsOK, NEW t \in Tickets, RegrantTry(t) PROVE HeadsOK'
  <1>1. CASE UNCHANGED heads
    BY <1>1 DEF HeadsOK, heads
  <1>2. CASE write' = AddSpace(write, Unit[t]) /\ UNCHANGED reserve
    BY <1>2, Sizes, Forward DEF HeadsOK
  <1> QED BY <1>1, <1>2 DEF RegrantTry, ErrorReturn

\* The pre-reserved units a ticket still has fit in the log.
LEMMA UnitsLeft == ASSUME TicsOK, NEW t \in Tickets
                   PROVE  /\ curr[t] \in 0 .. LogSize /\ Minus1(cnt[t]) \in Nat
                          /\ Minus1(cnt[t]) > 0 => t \in Perm /\ Unit[t] * Minus1(cnt[t]) \in 0 .. LogSize
  <1> DEFINE c == Minus1(cnt[t])
  <1>1. /\ curr[t] \in 0 .. Unit[t] /\ cnt[t] \in 0 .. Ocnt[t]
        /\ Unit[t] \in 1 .. LogSize /\ Ocnt[t] \in 0 .. LogSize
        /\ t \notin Perm => Ocnt[t] <= 1
        /\ t \in Perm => Ocnt[t] >= 1
        /\ Unit[t] * Ocnt[t] \in 0 .. LogSize
        /\ LogSize \in Nat
    BY AtStage, Sizes DEF StageAt
  <1>2. c \in Nat /\ c <= Ocnt[t] /\ (c > 0 => Ocnt[t] > 1)
    BY <1>1 DEF Minus1
  <1> HIDE DEF c
  <1>3. ASSUME NEW u \in Nat, NEW o \in Nat, NEW k \in Nat, k <= o PROVE u * k \in Nat /\ u * k <= u * o
    <2>1. u * (o - k) >= 0 /\ u * (o - k) = u * o - u * k /\ u * k >= 0 /\ u * k \in Int /\ u * o \in Int
      BY <1>3
    <2> QED BY <2>1
  <1>4. Unit[t] * c \in Nat /\ Unit[t] * c <= Unit[t] * Ocnt[t]
    BY <1>1, <1>2, <1>3
  <1>5. c > 0 => t \in Perm /\ Unit[t] * c \in 0 .. LogSize
    BY <1>1, <1>2, <1>4
  <1> QED BY <1>1, <1>2, <1>5 DEF c

\* The grant heads stay places in the log (xlog_grant_add_space, xlog_grant_sub_space).
LEMMA HeadsStep ==
  ASSUME TicsOK, HeadsOK, Next \/ UNCHANGED vars
  PROVE  HeadsOK'
  <1>a. ASSUME NEW t \in Tickets, Thread(t) PROVE HeadsOK'
    <2>1. CASE LogReserve(t)
      <3>1. UNCHANGED heads
        BY <2>1 DEF LogReserve, heads
      <3> QED BY <3>1 DEF HeadsOK, heads
    <2>2. CASE GrantLogSpace(t)
      BY <2>2, GrantTryHeads DEF GrantLogSpace
    <2>3. CASE GrantQueueUp(t)
      <3>1. UNCHANGED heads
        BY <2>3 DEF GrantQueueUp, heads
      <3> QED BY <3>1 DEF HeadsOK, heads
    <2>4. CASE GrantQueueUpShut(t)
      <3>1. UNCHANGED heads
        BY <2>4 DEF GrantQueueUpShut, heads
      <3> QED BY <3>1 DEF HeadsOK, heads
    <2>5. CASE GrantWake1(t)
      BY <2>5, GrantTryHeads DEF GrantWake1
    <2>6. CASE GrantWake2(t)
      <3>1. UNCHANGED heads
        BY <2>6 DEF GrantWake2, ErrorReturn
      <3> QED BY <3>1 DEF HeadsOK, heads
    <2>7. CASE LogReserveAgain(t)
      <3>1. UNCHANGED heads
        BY <2>7 DEF LogReserveAgain, heads
      <3> QED BY <3>1 DEF HeadsOK, heads
    <2>8. CASE RegrantPrereserved(t)
      <3>1. UNCHANGED heads
        BY <2>8 DEF RegrantPrereserved, heads
      <3> QED BY <3>1 DEF HeadsOK, heads
    <2>9. CASE RegrantWriteLogSpace(t)
      <3>a. CASE RegrantTry(t)
        BY <3>a, RegrantTryHeads
      <3>b. CASE ~RegrantTry(t)
        <4>1. UNCHANGED heads
          BY <2>9, <3>b DEF RegrantWriteLogSpace
        <4> QED BY <4>1 DEF HeadsOK, heads
      <3> QED BY <3>a, <3>b
    <2>10. CASE RegrantRedo(t)
      BY <2>10, RegrantTryHeads DEF RegrantRedo
    <2>11. CASE RegrantWake(t)
      <3>1. UNCHANGED heads
        BY <2>11 DEF RegrantWake, ErrorReturn
      <3> QED BY <3>1 DEF HeadsOK, heads
    <2>12. CASE RegrantReserveLogSpace(t)
      <3>1. curr[t] \in 0 .. LogSize /\ Unit[t] \in 0 .. LogSize
        BY UnitsLeft, Sizes
      <3>2. SubSpace(write, curr[t]) \in Place /\ SubSpace(reserve, curr[t]) \in Place
        BY <3>1, Back DEF HeadsOK
      <3>3. AddSpace(SubSpace(reserve, curr[t]), Unit[t]) \in Place
        BY <3>1, <3>2, Forward
      <3> QED BY <2>12, <3>2, <3>3 DEF RegrantReserveLogSpace, HeadsOK
    <2>13. CASE UngrantLogSpace(t)
      <3> DEFINE c == Minus1(cnt[t])
                 n == Unit[t] * c
      <3>1. curr[t] \in 0 .. LogSize /\ (c > 0 => n \in 0 .. LogSize)
        BY UnitsLeft
      <3> HIDE DEF n
      <3>2. ASSUME NEW h \in Place
            PROVE  /\ SubSpace(h, curr[t]) \in Place
                   /\ c > 0 => SubSpace(SubSpace(h, curr[t]), n) \in Place
        BY <3>1, Back
      <3>3. \A h \in Place : (IF c > 0 THEN SubSpace(SubSpace(h, curr[t]), n) ELSE SubSpace(h, curr[t])) \in Place
        BY <3>2
      <3> QED BY <2>13, <3>3 DEF UngrantLogSpace, HeadsOK, n
    <2>14. CASE UngrantWake(t)
      <3>1. UNCHANGED heads
        BY <2>14 DEF UngrantWake, heads
      <3> QED BY <3>1 DEF HeadsOK, heads
    <2> QED BY <1>a, <2>1, <2>2, <2>3, <2>4, <2>5, <2>6, <2>7, <2>8, <2>9, <2>10, <2>11, <2>12, <2>13, <2>14 DEF Thread
  <1>b. ASSUME NEW t \in Tickets, NEW n \in WriteSizes, LogWrite(t, n) PROVE HeadsOK'
    <2>1. UNCHANGED heads
      BY <1>b DEF LogWrite, heads
    <2> QED BY <2>1 DEF HeadsOK, heads
  <1>c. ASSUME NEW n \in RoundSizes, LogRoundoff(n) PROVE HeadsOK'
    <2>1. n \in 0 .. LogSize
      BY GrantAssumption, Sizes
    <2> QED BY <1>c, <2>1, Forward DEF LogRoundoff, HeadsOK
  <1>d. ASSUME NEW l \in Lsns, SyncLog(l) PROVE HeadsOK'
    <2>1. UNCHANGED heads
      BY <1>d DEF SyncLog, heads
    <2> QED BY <2>1 DEF HeadsOK, heads
  <1>e. ASSUME NEW l \in Lsns, AilAdvance(l) PROVE HeadsOK'
    <2>1. UNCHANGED heads
      BY <1>e DEF AilAdvance, heads
    <2> QED BY <2>1 DEF HeadsOK, heads
  <1>f. ASSUME NEW l \in movers, MoveTail(l) PROVE HeadsOK'
    <2>1. UNCHANGED heads
      BY <1>f DEF MoveTail, heads
    <2> QED BY <2>1 DEF HeadsOK, heads
  <1>g. ASSUME AssignTail PROVE HeadsOK'
    <2>1. UNCHANGED heads
      BY <1>g DEF AssignTail, heads
    <2> QED BY <2>1 DEF HeadsOK, heads
  <1>h. ASSUME ForceUmount PROVE HeadsOK'
    <2>1. UNCHANGED heads
      BY <1>h DEF ForceUmount, heads
    <2> QED BY <2>1 DEF HeadsOK, heads
  <1>i. ASSUME UNCHANGED vars PROVE HeadsOK'
    <2>1. UNCHANGED heads
      BY <1>i DEF vars, heads
    <2> QED BY <2>1 DEF HeadsOK, heads
  <1> QED BY <1>a, <1>b, <1>c, <1>d, <1>e, <1>f, <1>g, <1>h, <1>i DEF Next

----------------------------------------------------------------------------
(* The tail, the AIL and the push target *)

\* xlog_grant_push_ail aims at a place, and never past the last record on disk.
LEMMA PushPlace == ASSUME PlacesOK, NEW n \in 0 .. LogSize, GrantPushAil(n)
                   PROVE  target' \in Place /\ LsnLeq(target', lastSync)
  <1> DEFINE want == Max({n, LogSize \div 4, MinFree})
             lsn == ThresholdLsn(tail, want)
  <1>1. want \in 0 .. LogSize
    <2>1. LogSize \div 4 \in 0 .. LogSize /\ MinFree \in 0 .. LogSize
      BY LogSizeAssumption, GrantAssumption
    <2>2. ASSUME NEW a \in 0 .. LogSize, NEW b \in 0 .. LogSize PROVE Max({n, a, b}) \in {n, a, b}
      BY LogSizeAssumption DEF Max
    <2> QED BY <2>1, <2>2
  <1>2. lsn \in Place /\ lastSync \in Place
    <2> HIDE DEF want
    <2> QED BY <1>1, Threshold DEF PlacesOK
  <1>3. LsnLeq(lastSync, lastSync)
    BY <1>2, Order
  <1>4. \/ target' = lsn /\ LsnLeq(lsn, lastSync)
        \/ target' = lastSync
        \/ target' = target
    <2> HIDE DEF want
    <2> QED BY DEF GrantPushAil, want
  <1> HIDE DEF lsn
  <1> QED BY <1>2, <1>3, <1>4 DEF PlacesOK

LEMMA PushPlaces ==
  ASSUME PlacesOK, UNCHANGED <<ail, tail>>,
         UNCHANGED target \/ \E n \in 0 .. LogSize : GrantPushAil(n)
  PROVE  PlacesOK'
  <1>1. target' \in Place /\ LsnLeq(target', lastSync)
    <2>1. CASE UNCHANGED target
      BY <2>1 DEF PlacesOK
    <2>2. CASE \E n \in 0 .. LogSize : GrantPushAil(n)
      BY <2>2, PushPlace
    <2> QED BY <2>1, <2>2
  <1>2. lastSync' = lastSync /\ ailMin' = ailMin /\ movers' = movers /\ tail' = tail
    BY DEF ail
  <1>3. Lsns' = Lsns
    OBVIOUS
  <1> QED BY <1>1, <1>2, <1>3 DEF PlacesOK

\* The tail stays behind the AIL, and the AIL and what it is asked for behind the disk.
LEMMA PlacesStep ==
  ASSUME PlacesOK, Next \/ UNCHANGED vars
  PROVE  PlacesOK'
  <1>a. ASSUME NEW t \in Tickets, Thread(t) PROVE PlacesOK'
    <2>1. CASE LogReserve(t)
      <3>1. UNCHANGED <<ail, tail>> /\ (UNCHANGED target \/ GrantPushAil(Unit[t] * Ocnt[t]))
        BY <2>1 DEF LogReserve
      <3>2. Unit[t] * Ocnt[t] \in 0 .. LogSize
        BY Sizes
      <3> QED BY <3>1, <3>2, PushPlaces
    <2>2. CASE GrantLogSpace(t)
      <3>1. UNCHANGED <<ail, tail, target>>
        BY <2>2 DEF GrantLogSpace, GrantTry, ErrorReturn
      <3> QED BY <3>1, PushPlaces
    <2>3. CASE GrantQueueUp(t)
      <3>1. UNCHANGED <<ail, tail>> /\ UNCHANGED target
        BY <2>3 DEF GrantQueueUp, ail
      <3> QED BY <3>1, PushPlaces
    <2>4. CASE GrantQueueUpShut(t)
      <3>1. UNCHANGED <<ail, tail>> /\ UNCHANGED target
        BY <2>4 DEF GrantQueueUpShut, ail
      <3> QED BY <3>1, PushPlaces
    <2>5. CASE GrantWake1(t)
      <3>1. UNCHANGED <<ail, tail, target>>
        BY <2>5 DEF GrantWake1, GrantTry, ErrorReturn
      <3> QED BY <3>1, PushPlaces
    <2>6. CASE GrantWake2(t)
      <3>1. UNCHANGED <<ail, tail>> /\ (UNCHANGED target \/ GrantPushAil(Need(t)))
        BY <2>6 DEF GrantWake2, ErrorReturn
      <3>2. Need(t) \in 0 .. LogSize
        BY Sizes
      <3> QED BY <3>1, <3>2, PushPlaces
    <2>7. CASE LogReserveAgain(t)
      <3>1. UNCHANGED <<ail, tail>> /\ (UNCHANGED target \/ GrantPushAil(Unit[t]))
        BY <2>7 DEF LogReserveAgain
      <3>2. Unit[t] \in 0 .. LogSize
        BY Sizes
      <3> QED BY <3>1, <3>2, PushPlaces
    <2>8. CASE RegrantPrereserved(t)
      <3>1. UNCHANGED <<ail, tail>> /\ UNCHANGED target
        BY <2>8 DEF RegrantPrereserved, ail
      <3> QED BY <3>1, PushPlaces
    <2>9. CASE RegrantWriteLogSpace(t)
      <3>1. UNCHANGED <<ail, tail, target>>
        BY <2>9 DEF RegrantWriteLogSpace, RegrantTry, ErrorReturn
      <3> QED BY <3>1, PushPlaces
    <2>10. CASE RegrantRedo(t)
      <3>1. UNCHANGED <<ail, tail, target>>
        BY <2>10 DEF RegrantRedo, RegrantTry, ErrorReturn
      <3> QED BY <3>1, PushPlaces
    <2>11. CASE RegrantWake(t)
      <3>1. UNCHANGED <<ail, tail>> /\ (UNCHANGED target \/ GrantPushAil(Unit[t]))
        BY <2>11 DEF RegrantWake, ErrorReturn
      <3>2. Unit[t] \in 0 .. LogSize
        BY Sizes
      <3> QED BY <3>1, <3>2, PushPlaces
    <2>12. CASE RegrantReserveLogSpace(t)
      <3>1. UNCHANGED <<ail, tail>> /\ UNCHANGED target
        BY <2>12 DEF RegrantReserveLogSpace, ail
      <3> QED BY <3>1, PushPlaces
    <2>13. CASE UngrantLogSpace(t)
      <3>1. UNCHANGED <<ail, tail>> /\ UNCHANGED target
        BY <2>13 DEF UngrantLogSpace, ail
      <3> QED BY <3>1, PushPlaces
    <2>14. CASE UngrantWake(t)
      <3>1. UNCHANGED <<ail, tail>> /\ UNCHANGED target
        BY <2>14 DEF UngrantWake, ail
      <3> QED BY <3>1, PushPlaces
    <2> QED BY <1>a, <2>1, <2>2, <2>3, <2>4, <2>5, <2>6, <2>7, <2>8, <2>9, <2>10, <2>11, <2>12, <2>13, <2>14 DEF Thread
  <1>b. ASSUME NEW t \in Tickets, NEW n \in WriteSizes, LogWrite(t, n) PROVE PlacesOK'
    <2>1. UNCHANGED <<ail, tail>> /\ UNCHANGED target
      BY <1>b DEF LogWrite, ail
    <2> QED BY <2>1, PushPlaces
  <1>c. ASSUME NEW n \in RoundSizes, LogRoundoff(n) PROVE PlacesOK'
    <2>1. UNCHANGED <<ail, tail>> /\ UNCHANGED target
      BY <1>c DEF LogRoundoff, ail
    <2> QED BY <2>1, PushPlaces
  <1>d. ASSUME NEW l \in Lsns, SyncLog(l) PROVE PlacesOK'
    <2>1. l \in Place /\ l \in Lsns /\ tail \in Place /\ lastSync \in Place /\ target \in Place /\ ailMin \in Place
      BY LsnsArePlaces DEF PlacesOK
    <2>2. \A m \in movers : m \in Place
      BY LsnsArePlaces DEF PlacesOK
    <2>3. LsnLeq(lastSync, l)
      BY <1>d, <2>1, Order DEF SyncLog
    <2>4. LsnLeq(ailMin, l) /\ LsnLeq(target, l)
      <3>1. LsnLeq(ailMin, lastSync) /\ LsnLeq(target, lastSync)
        BY DEF PlacesOK
      <3> QED BY <2>1, <2>3, <3>1, Order
    <2> QED BY <1>d, <2>1, <2>4 DEF SyncLog, PlacesOK
  <1>e. ASSUME NEW l \in Lsns, AilAdvance(l) PROVE PlacesOK'
    <2>1. l \in Place /\ l \in Lsns /\ tail \in Place /\ lastSync \in Place /\ target \in Place /\ ailMin \in Place
      BY LsnsArePlaces DEF PlacesOK
    <2>2. \A m \in movers : m \in Place
      BY LsnsArePlaces DEF PlacesOK
    <2>3. LsnLeq(ailMin, l) /\ LsnLeq(l, l)
      BY <1>e, <2>1, Order DEF AilAdvance
    <2>4. LsnLeq(tail, l) /\ \A m \in movers : LsnLeq(m, l)
      <3>1. LsnLeq(tail, ailMin) /\ \A m \in movers : LsnLeq(m, ailMin)
        BY DEF PlacesOK
      <3> QED BY <2>1, <2>2, <2>3, <3>1, Order
    <2>5. /\ ailMin' = l /\ movers' = movers \cup {l} /\ UNCHANGED <<tail, lastSync, target>> /\ LsnLeq(l, lastSync)
      BY <1>e DEF AilAdvance
    <2> QED BY <2>1, <2>3, <2>4, <2>5 DEF PlacesOK
  <1>f. ASSUME NEW l \in movers, MoveTail(l) PROVE PlacesOK'
    <2>1. l \in movers /\ l \in Lsns /\ l \in Place /\ LsnLeq(l, ailMin)
      BY <1>f, LsnsArePlaces DEF PlacesOK, MoveTail
    <2>2. /\ tail' = tail \/ tail' = l
          /\ movers' = movers \ {l} /\ UNCHANGED <<lastSync, ailMin, target>>
      BY <1>f DEF MoveTail
    <2> QED BY <2>1, <2>2 DEF PlacesOK
  <1>g. ASSUME AssignTail PROVE PlacesOK'
    <2>1. tail' = ailMin /\ UNCHANGED <<lastSync, ailMin, movers, target>>
      BY <1>g DEF AssignTail, ail
    <2>2. LsnLeq(ailMin, ailMin)
      BY Order DEF PlacesOK
    <2> QED BY <2>1, <2>2 DEF PlacesOK
  <1>h. ASSUME ForceUmount PROVE PlacesOK'
    <2>1. UNCHANGED <<ail, tail>> /\ UNCHANGED target
      BY <1>h DEF ForceUmount, ail
    <2> QED BY <2>1, PushPlaces
  <1>i. ASSUME UNCHANGED vars PROVE PlacesOK'
    <2>1. UNCHANGED <<ail, tail>> /\ UNCHANGED target
      BY <1>i DEF vars, ail
    <2> QED BY <2>1, PushPlaces
  <1> QED BY <1>a, <1>b, <1>c, <1>d, <1>e, <1>f, <1>g, <1>h, <1>i DEF Next

----------------------------------------------------------------------------
(* The rings of waiting tickets: their types *)

LEMMA InsQueue == ASSUME QueuesOK, NEW t \in Tickets, NEW q \in Queues, InsTicketq(q, t) PROVE QueuesOK'
  <1>1. CASE headq[q] # Null
    <2>1. headq[q] \in Tickets /\ prev[headq[q]] \in Tickets \cup {Null}
      BY <1>1 DEF QueuesOK
    <2>2. /\ next' = [next EXCEPT ![t] = headq[q], ![prev[headq[q]]] = t]
          /\ prev' = [prev EXCEPT ![t] = prev[headq[q]], ![headq[q]] = t]
          /\ headq' = headq /\ inQ' = inQ \cup {t}
      BY <1>1 DEF InsTicketq
    <2> QED BY <2>1, <2>2 DEF QueuesOK
  <1>2. CASE headq[q] = Null
    <2>1. /\ next' = [next EXCEPT ![t] = t] /\ prev' = [prev EXCEPT ![t] = t]
          /\ headq' = [headq EXCEPT ![q] = t] /\ inQ' = inQ \cup {t}
      BY <1>2 DEF InsTicketq
    <2> QED BY <2>1 DEF QueuesOK
  <1> QED BY <1>1, <1>2

LEMMA DelQueue == ASSUME QueuesOK, NEW t \in Tickets, NEW q \in Queues, DelTicketq(q, t) PROVE QueuesOK'
  <1>1. next[t] \in Tickets \cup {Null} /\ prev[t] \in Tickets \cup {Null}
    BY DEF QueuesOK
  <1>2. next' \in [Tickets -> Tickets \cup {Null}] /\ prev' \in [Tickets -> Tickets \cup {Null}]
    BY <1>1 DEF DelTicketq, QueuesOK
  <1>3. headq' \in [Queues -> Tickets \cup {Null}] /\ inQ' \subseteq Tickets
    BY <1>1 DEF DelTicketq, QueuesOK
  <1> QED BY <1>2, <1>3 DEF QueuesOK

LEMMA NoQueue == ASSUME QueuesOK, UNCHANGED queues PROVE QueuesOK'
  BY DEF QueuesOK, queues

LEMMA MaybeQueue == ASSUME QueuesOK, NEW t \in Tickets, NEW q \in Queues,
                           DelIfQueued(q, t) \/ InsIfAbsent(q, t) \/ InsTicketq(q, t)
                    PROVE  QueuesOK'
  BY InsQueue, DelQueue, NoQueue DEF DelIfQueued, InsIfAbsent

\* The links of the rings stay links (xlog_ins_ticketq, xlog_del_ticketq).
LEMMA QueuesStep ==
  ASSUME QueuesOK, Next \/ UNCHANGED vars
  PROVE  QueuesOK'
  <1>a. ASSUME NEW t \in Tickets, Thread(t) PROVE QueuesOK'
    <2>1. CASE LogReserve(t)
      <3>1. UNCHANGED queues
        BY <2>1 DEF LogReserve
      <3> QED BY <3>1, NoQueue
    <2>2. CASE GrantLogSpace(t)
      <3>1. \/ UNCHANGED queues
            \/ \E q \in Queues : DelIfQueued(q, t) \/ InsIfAbsent(q, t) \/ InsTicketq(q, t)
        BY <2>2 DEF GrantLogSpace, GrantTry, ErrorReturn, Queues
      <3> QED BY <3>1, NoQueue, MaybeQueue
    <2>3. CASE GrantQueueUp(t)
      <3>1. \/ UNCHANGED queues
            \/ \E q \in Queues : DelIfQueued(q, t) \/ InsIfAbsent(q, t) \/ InsTicketq(q, t)
        BY <2>3 DEF GrantQueueUp, Queues
      <3> QED BY <3>1, NoQueue, MaybeQueue
    <2>4. CASE GrantQueueUpShut(t)
      <3>1. UNCHANGED queues
        BY <2>4 DEF GrantQueueUpShut, vars
      <3> QED BY <3>1, NoQueue
    <2>5. CASE GrantWake1(t)
      <3>1. \/ UNCHANGED queues
            \/ \E q \in Queues : DelIfQueued(q, t) \/ InsIfAbsent(q, t) \/ InsTicketq(q, t)
        BY <2>5 DEF GrantWake1, GrantTry, ErrorReturn, Queues
      <3> QED BY <3>1, NoQueue, MaybeQueue
    <2>6. CASE GrantWake2(t)
      <3>1. \/ UNCHANGED queues
            \/ \E q \in Queues : DelIfQueued(q, t) \/ InsIfAbsent(q, t) \/ InsTicketq(q, t)
        BY <2>6 DEF GrantWake2, ErrorReturn, Queues
      <3> QED BY <3>1, NoQueue, MaybeQueue
    <2>7. CASE LogReserveAgain(t)
      <3>1. UNCHANGED queues
        BY <2>7 DEF LogReserveAgain, vars
      <3> QED BY <3>1, NoQueue
    <2>8. CASE RegrantPrereserved(t)
      <3>1. UNCHANGED queues
        BY <2>8 DEF RegrantPrereserved, vars
      <3> QED BY <3>1, NoQueue
    <2>9. CASE RegrantWriteLogSpace(t)
      <3>1. \/ UNCHANGED queues
            \/ \E q \in Queues : DelIfQueued(q, t) \/ InsIfAbsent(q, t) \/ InsTicketq(q, t)
        BY <2>9 DEF RegrantWriteLogSpace, RegrantTry, ErrorReturn, Queues
      <3> QED BY <3>1, NoQueue, MaybeQueue
    <2>10. CASE RegrantRedo(t)
      <3>1. \/ UNCHANGED queues
            \/ \E q \in Queues : DelIfQueued(q, t) \/ InsIfAbsent(q, t) \/ InsTicketq(q, t)
        BY <2>10 DEF RegrantRedo, RegrantTry, ErrorReturn, Queues
      <3> QED BY <3>1, NoQueue, MaybeQueue
    <2>11. CASE RegrantWake(t)
      <3>1. \/ UNCHANGED queues
            \/ \E q \in Queues : DelIfQueued(q, t) \/ InsIfAbsent(q, t) \/ InsTicketq(q, t)
        BY <2>11 DEF RegrantWake, ErrorReturn, Queues
      <3> QED BY <3>1, NoQueue, MaybeQueue
    <2>12. CASE RegrantReserveLogSpace(t)
      <3>1. UNCHANGED queues
        BY <2>12 DEF RegrantReserveLogSpace, vars
      <3> QED BY <3>1, NoQueue
    <2>13. CASE UngrantLogSpace(t)
      <3>1. UNCHANGED queues
        BY <2>13 DEF UngrantLogSpace, vars
      <3> QED BY <3>1, NoQueue
    <2>14. CASE UngrantWake(t)
      <3>1. UNCHANGED queues
        BY <2>14 DEF UngrantWake, vars
      <3> QED BY <3>1, NoQueue
    <2> QED BY <1>a, <2>1, <2>2, <2>3, <2>4, <2>5, <2>6, <2>7, <2>8, <2>9, <2>10, <2>11, <2>12, <2>13, <2>14 DEF Thread
  <1>b. ASSUME NEW t \in Tickets, NEW n \in WriteSizes, LogWrite(t, n) PROVE QueuesOK'
    <2>1. UNCHANGED queues
      BY <1>b DEF LogWrite
    <2> QED BY <2>1, NoQueue
  <1>c. ASSUME NEW n \in RoundSizes, LogRoundoff(n) PROVE QueuesOK'
    <2>1. UNCHANGED queues
      BY <1>c DEF LogRoundoff
    <2> QED BY <2>1, NoQueue
  <1>d. ASSUME NEW l \in Lsns, SyncLog(l) PROVE QueuesOK'
    <2>1. UNCHANGED queues
      BY <1>d DEF SyncLog
    <2> QED BY <2>1, NoQueue
  <1>e. ASSUME NEW l \in Lsns, AilAdvance(l) PROVE QueuesOK'
    <2>1. UNCHANGED queues
      BY <1>e DEF AilAdvance
    <2> QED BY <2>1, NoQueue
  <1>f. ASSUME NEW l \in movers, MoveTail(l) PROVE QueuesOK'
    <2>1. UNCHANGED queues
      BY <1>f DEF MoveTail
    <2> QED BY <2>1, NoQueue
  <1>g. ASSUME AssignTail PROVE QueuesOK'
    <2>1. UNCHANGED queues
      BY <1>g DEF AssignTail
    <2> QED BY <2>1, NoQueue
  <1>h. ASSUME ForceUmount PROVE QueuesOK'
    <2>1. UNCHANGED queues
      BY <1>h DEF ForceUmount
    <2> QED BY <2>1, NoQueue
  <1>i. ASSUME UNCHANGED vars PROVE QueuesOK'
    <2>1. UNCHANGED queues
      BY <1>i DEF vars
    <2> QED BY <2>1, NoQueue
  <1> QED BY <1>a, <1>b, <1>c, <1>d, <1>e, <1>f, <1>g, <1>h, <1>i DEF Next

----------------------------------------------------------------------------
(* Signals, and the counters *)

\* A step of one ticket signals sleepers only, and is not itself left signalled.
LEMMA WakeOthers ==
  ASSUME RestOK, NEW t \in Tickets, TicsOK, NEW p, pc' = [pc EXCEPT ![t] = p], awake' \subseteq Sleeping \ {t},
         UNCHANGED <<shutdown, head, round>>, oops' \in BOOLEAN
  PROVE  RestOK'
  <1>1. awake' \subseteq Sleeping'
    BY DEF Sleeping, TicsOK
  <1> QED BY <1>1 DEF RestOK

LEMMA WakeSome ==
  ASSUME RestOK, UNCHANGED pc, awake' \subseteq Sleeping, shutdown' \in 0 .. MaxShutdowns, head' \in Nat,
         round' \in 0 .. MaxRound, oops' \in BOOLEAN
  PROVE  RestOK'
  <1>1. Sleeping' = Sleeping
    BY DEF Sleeping
  <1> QED BY <1>1 DEF RestOK

LEMMA OopsIs == ASSUME RestOK, NEW p, NEW f, WakeAfterMove(p, f)
                PROVE  awake' \subseteq Sleeping /\ oops' \in BOOLEAN
  <1>1. oops' \in BOOLEAN
    BY Zenon DEF WakeAfterMove
  <1>2. awake \subseteq Sleeping
    BY DEF RestOK
  <1> DEFINE w == Signalled("write", SpaceLeft(p, write), f)
             r == Signalled("reserve", SpaceLeft(p, reserve), f /\ w = {})
  <1>3. awake' = awake \cup (Sleeping \cap (w \cup r))
    BY DEF WakeAfterMove
  <1> HIDE DEF w, r
  <1> QED BY <1>1, <1>2, <1>3

\* Only sleepers are signalled, and the counters stay within their bounds.
LEMMA RestStep ==
  ASSUME TicsOK, RestOK, Next \/ UNCHANGED vars
  PROVE  RestOK'
  <1>a. ASSUME NEW t \in Tickets, Thread(t) PROVE RestOK'
    <2>1. CASE LogReserve(t)
      <3>1. /\ \E p : pc' = [pc EXCEPT ![t] = p]
            /\ awake' = awake /\ t \notin Sleeping
            /\ UNCHANGED <<shutdown, head, round, oops>>
        BY <2>1, AtStage DEF LogReserve, Sleeping
      <3> QED BY <3>1, WakeOthers DEF RestOK
    <2>2. CASE GrantLogSpace(t)
      <3>1. /\ \E p : pc' = [pc EXCEPT ![t] = p]
            /\ awake' = awake /\ t \notin Sleeping
            /\ UNCHANGED <<shutdown, head, round, oops>>
        BY <2>2, AtStage DEF GrantLogSpace, GrantTry, ErrorReturn, Sleeping
      <3> QED BY <3>1, WakeOthers DEF RestOK
    <2>3. CASE GrantQueueUp(t)
      <3>1. /\ \E p : pc' = [pc EXCEPT ![t] = p]
            /\ awake' = awake /\ t \notin Sleeping
            /\ UNCHANGED <<shutdown, head, round, oops>>
        BY <2>3, AtStage DEF GrantQueueUp, Sleeping
      <3> QED BY <3>1, WakeOthers DEF RestOK
    <2>4. CASE GrantQueueUpShut(t)
      <3>1. /\ \E p : pc' = [pc EXCEPT ![t] = p]
            /\ awake' = awake /\ t \notin Sleeping
            /\ UNCHANGED <<shutdown, head, round, oops>>
        BY <2>4, AtStage DEF GrantQueueUpShut, Sleeping
      <3> QED BY <3>1, WakeOthers DEF RestOK
    <2>5. CASE GrantWake1(t)
      <3>1. /\ \E p : pc' = [pc EXCEPT ![t] = p]
            /\ awake' = awake \ {t}
            /\ UNCHANGED <<shutdown, head, round, oops>>
        BY <2>5, AtStage DEF GrantWake1, GrantTry, ErrorReturn
      <3> QED BY <3>1, WakeOthers DEF RestOK
    <2>6. CASE GrantWake2(t)
      <3>1. /\ \E p : pc' = [pc EXCEPT ![t] = p]
            /\ awake' = awake \ {t}
            /\ UNCHANGED <<shutdown, head, round, oops>>
        BY <2>6, AtStage DEF GrantWake2, ErrorReturn
      <3> QED BY <3>1, WakeOthers DEF RestOK
    <2>7. CASE LogReserveAgain(t)
      <3>1. /\ \E p : pc' = [pc EXCEPT ![t] = p]
            /\ awake' = awake /\ t \notin Sleeping
            /\ UNCHANGED <<shutdown, head, round, oops>>
        BY <2>7, AtStage DEF LogReserveAgain, Sleeping
      <3> QED BY <3>1, WakeOthers DEF RestOK
    <2>8. CASE RegrantPrereserved(t)
      <3>1. /\ \E p : pc' = [pc EXCEPT ![t] = p]
            /\ awake' = awake /\ t \notin Sleeping
            /\ UNCHANGED <<shutdown, head, round, oops>>
        BY <2>8, AtStage DEF RegrantPrereserved, Sleeping
      <3> QED BY <3>1, WakeOthers DEF RestOK
    <2>9. CASE RegrantWriteLogSpace(t)
      <3> DEFINE up == Signalled("write", SpaceLeft(tail, write), FALSE)
      <3>1. /\ \E p : pc' = [pc EXCEPT ![t] = p]
            /\ awake' = awake \/ awake' = awake \cup (Sleeping \cap up)
            /\ UNCHANGED <<shutdown, head, round, oops>>
            /\ pc[t] = "regrant"
        <4> HIDE DEF up
        <4> QED BY <2>9, AtStage DEF RegrantWriteLogSpace, RegrantTry, ErrorReturn, up
      <3>2. t \notin Sleeping
        BY <3>1 DEF Sleeping
      <3> HIDE DEF up
      <3>3. awake' \subseteq Sleeping \ {t}
        BY <3>1, <3>2 DEF RestOK
      <3> QED BY <3>1, <3>3, WakeOthers DEF RestOK
    <2>10. CASE RegrantRedo(t)
      <3>1. /\ \E p : pc' = [pc EXCEPT ![t] = p]
            /\ awake' = awake /\ t \notin Sleeping
            /\ UNCHANGED <<shutdown, head, round, oops>>
        BY <2>10, AtStage DEF RegrantRedo, RegrantTry, ErrorReturn, Sleeping
      <3> QED BY <3>1, WakeOthers DEF RestOK
    <2>11. CASE RegrantWake(t)
      <3>1. /\ \E p : pc' = [pc EXCEPT ![t] = p]
            /\ awake' = awake \ {t}
            /\ UNCHANGED <<shutdown, head, round, oops>>
        BY <2>11, AtStage DEF RegrantWake, ErrorReturn
      <3> QED BY <3>1, WakeOthers DEF RestOK
    <2>12. CASE RegrantReserveLogSpace(t)
      <3>1. /\ \E p : pc' = [pc EXCEPT ![t] = p]
            /\ awake' = awake /\ t \notin Sleeping
            /\ UNCHANGED <<shutdown, head, round, oops>>
        BY <2>12, AtStage DEF RegrantReserveLogSpace, Sleeping
      <3> QED BY <3>1, WakeOthers DEF RestOK
    <2>13. CASE UngrantLogSpace(t)
      <3>1. /\ \E p : pc' = [pc EXCEPT ![t] = p]
            /\ awake' = awake /\ t \notin Sleeping
            /\ UNCHANGED <<shutdown, head, round, oops>>
        BY <2>13, AtStage DEF UngrantLogSpace, Sleeping
      <3> QED BY <3>1, WakeOthers DEF RestOK
    <2>14. CASE UngrantWake(t)
      <3>1. /\ pc' = [pc EXCEPT ![t] = "idle"]
            /\ UNCHANGED <<shutdown, head, round>>
            /\ UNCHANGED <<awake, oops>> \/ WakeAfterMove(tail, TRUE)
            /\ pc[t] = "ungranted"
        BY <2>14 DEF UngrantWake
      <3>2. t \notin Sleeping
        BY <3>1 DEF Sleeping
      <3>3. awake' \subseteq Sleeping /\ oops' \in BOOLEAN
        <4>1. CASE UNCHANGED <<awake, oops>>
          BY <4>1 DEF RestOK
        <4> QED BY <3>1, <4>1, OopsIs
      <3> QED BY <3>1, <3>2, <3>3, WakeOthers
    <2> QED BY <1>a, <2>1, <2>2, <2>3, <2>4, <2>5, <2>6, <2>7, <2>8, <2>9, <2>10, <2>11, <2>12, <2>13, <2>14 DEF Thread
  <1>b. ASSUME NEW t \in Tickets, NEW n \in WriteSizes, LogWrite(t, n) PROVE RestOK'
    <2>1. UNCHANGED <<pc, awake, shutdown, round, oops>> /\ head' = head + n /\ n \in Nat
      BY <1>b, GrantAssumption DEF LogWrite
    <2> QED BY <2>1, WakeSome DEF RestOK
  <1>c. ASSUME NEW n \in RoundSizes, LogRoundoff(n) PROVE RestOK'
    <2>1. /\ UNCHANGED <<pc, awake, shutdown, oops>> /\ head' = head + n /\ round' = round + n
          /\ n \in Nat /\ round + n <= MaxRound /\ MaxRound \in Nat
      BY <1>c, GrantAssumption, Sizes DEF LogRoundoff, tics
    <2> QED BY <2>1, WakeSome DEF RestOK
  <1>d. ASSUME NEW l \in Lsns, SyncLog(l) PROVE RestOK'
    <2>1. UNCHANGED <<pc, awake, shutdown, head, round, oops>>
      BY <1>d DEF SyncLog, tics
    <2> QED BY <2>1, WakeSome DEF RestOK
  <1>e. ASSUME NEW l \in Lsns, AilAdvance(l) PROVE RestOK'
    <2>1. UNCHANGED <<pc, awake, shutdown, head, round, oops>>
      BY <1>e DEF AilAdvance, tics
    <2> QED BY <2>1, WakeSome DEF RestOK
  <1>f. ASSUME NEW l \in movers, MoveTail(l) PROVE RestOK'
    <2>1. /\ UNCHANGED <<pc, shutdown, head, round>>
          /\ UNCHANGED <<awake, oops>> \/ WakeAfterMove(l, FALSE)
      BY <1>f DEF MoveTail, tics
    <2>2. awake' \subseteq Sleeping /\ oops' \in BOOLEAN
      <3>1. CASE UNCHANGED <<awake, oops>>
        BY <3>1 DEF RestOK
      <3> QED BY <2>1, <3>1, OopsIs
    <2> QED BY <2>1, <2>2, WakeSome DEF RestOK
  <1>g. ASSUME AssignTail PROVE RestOK'
    <2>1. UNCHANGED <<pc, awake, shutdown, head, round, oops>>
      BY <1>g DEF AssignTail, tics
    <2> QED BY <2>1, WakeSome DEF RestOK
  <1>h. ASSUME ForceUmount PROVE RestOK'
    <2>1. UNCHANGED <<pc, head, round>> /\ shutdown' \in 0 .. MaxShutdowns
      BY <1>h, GrantAssumption DEF ForceUmount, tics, RestOK
    <2>2. oops' \in BOOLEAN
      BY <1>h, Zenon DEF ForceUmount
    <2> DEFINE w == UNION {Waiters(q) : q \in Queues}
    <2>3. awake' = awake \cup (Sleeping \cap w)
      BY <1>h DEF ForceUmount
    <2> HIDE DEF w
    <2>4. awake' \subseteq Sleeping
      BY <2>3 DEF RestOK
    <2> QED BY <2>1, <2>2, <2>4, WakeSome DEF RestOK
  <1>i. ASSUME UNCHANGED vars PROVE RestOK'
    <2>1. UNCHANGED <<pc, awake, shutdown, head, round, oops>>
      BY <1>i DEF vars, tics
    <2> QED BY <2>1, WakeSome DEF RestOK
  <1> QED BY <1>a, <1>b, <1>c, <1>d, <1>e, <1>f, <1>g, <1>h, <1>i DEF Next

----------------------------------------------------------------------------
(* Conservation of log space *)

\* what a ticket of stage p holds of the reserve and of the write head
UnitsOf(t, k) == Unit[t] * (IF k > 0 /\ t \in Perm THEN k - 1 ELSE 0)
ReserveAt(t, p, c, k) == CASE p = "held" -> c + UnitsOf(t, k)
                           [] p \in Between -> Unit[t] * (IF k > 0 THEN k ELSE 1)
                           [] OTHER -> 0
WriteAt(t, p, c, k) == CASE p = "held" -> c + UnitsOf(t, k)
                         [] p \in Between -> Unit[t] * k
                         [] OTHER -> 0

LEMMA HoldIs == \A t \in Tickets : /\ OfReserve(t) = ReserveAt(t, pc[t], curr[t], cnt[t])
                                   /\ OfWrite(t) = WriteAt(t, pc[t], curr[t], cnt[t])
  BY DEF OfReserve, OfWrite, ReserveAt, WriteAt, Rest, UnitsOf

LEMMA Product == \A t \in Tickets, k \in Nat : Unit[t] * k \in Nat /\ (k > 0 => Unit[t] * (k - 1) = Unit[t] * k - Unit[t])
  <1>1. ASSUME NEW u \in Nat, NEW k \in Nat PROVE u * k \in Nat /\ (k > 0 => u * (k - 1) = u * k - u)
    OBVIOUS
  <1>2. \A t \in Tickets : Unit[t] \in Nat
    BY Sizes
  <1> QED BY <1>1, <1>2

\* In numbers, the reserve head holds at least what the write head does.
LEMMA HoldSizes ==
  ASSUME NEW t \in Tickets, NEW p \in Stages, NEW c \in Nat, NEW k \in Nat
  PROVE  ReserveAt(t, p, c, k) \in Int /\ WriteAt(t, p, c, k) \in Int /\ WriteAt(t, p, c, k) <= ReserveAt(t, p, c, k)
  <1>1. UnitsOf(t, k) \in Nat
    <2> DEFINE j == IF k > 0 /\ t \in Perm THEN k - 1 ELSE 0
    <2>1. j \in Nat
      OBVIOUS
    <2> HIDE DEF j
    <2> QED BY <2>1, Product DEF UnitsOf, j
  <1>2. CASE p = "held"
    BY <1>1, <1>2 DEF ReserveAt, WriteAt, Between
  <1>3. CASE p \in Between
    <2>1. p # "held"
      BY <1>3 DEF Between
    <2>2. ReserveAt(t, p, c, k) = Unit[t] * (IF k > 0 THEN k ELSE 1) /\ WriteAt(t, p, c, k) = Unit[t] * k
      BY <1>3, <2>1 DEF ReserveAt, WriteAt
    <2>3. CASE k > 0
      BY <2>2, <2>3, Product
    <2>4. CASE k = 0
      <3>1. Unit[t] * 0 = 0 /\ Unit[t] * 1 \in Nat
        BY Sizes
      <3> QED BY <2>2, <2>4, <3>1
    <2> QED BY <2>3, <2>4
  <1>4. CASE p # "held" /\ p \notin Between
    BY <1>4 DEF ReserveAt, WriteAt
  <1> QED BY <1>2, <1>3, <1>4

HeldOfReserve == [t \in Tickets |-> OfReserve(t)]
HeldOfWrite == [t \in Tickets |-> OfWrite(t)]
Total(f) == SumFunctionOnSet(f, Tickets)

LEMMA ConservedIs ==
  SpaceIsConserved <=> (~Shut => /\ Pos(write) = head + Total(HeldOfWrite)
                                 /\ Pos(reserve) = head + Total(HeldOfReserve))
  BY DEF SpaceIsConserved, SumFunction, Total, HeldOfReserve, HeldOfWrite

LEMMA HeldTypes == ASSUME TicsOK
                   PROVE  /\ \A t \in Tickets : /\ HeldOfReserve[t] \in Int /\ HeldOfWrite[t] \in Int
                                                /\ HeldOfWrite[t] <= HeldOfReserve[t]
                          /\ Total(HeldOfReserve) \in Int /\ Total(HeldOfWrite) \in Int
                          /\ Total(HeldOfWrite) <= Total(HeldOfReserve)
  <1>1. \A t \in Tickets : pc[t] \in Stages /\ curr[t] \in Nat /\ cnt[t] \in Nat
    BY DEF TicsOK
  <1>2. \A t \in Tickets : /\ HeldOfReserve[t] \in Int /\ HeldOfWrite[t] \in Int
                           /\ HeldOfWrite[t] <= HeldOfReserve[t]
    BY <1>1, HoldIs, HoldSizes DEF HeldOfReserve, HeldOfWrite
  <1>3. IsFiniteSet(Tickets)
    BY GrantAssumption
  <1> QED BY <1>2, <1>3, SumTake, SumUpTo DEF Total

\* The reserve head is never behind the write head.
LEMMA CoversFrom == ASSUME TicsOK, HeadsOK, RestOK, SpaceIsConserved PROVE ReserveCoversWrite
  <1>1. head \in Int
    BY DEF RestOK
  <1> QED BY <1>1, HeldTypes, ConservedIs DEF ReserveCoversWrite

\* A step that moves the heads, the head of the log and one ticket's holding alike.
LEMMA OneHolds ==
  ASSUME TicsOK, TicsOK', RestOK, HeadsOK, SpaceIsConserved, Shut' = Shut, NEW t \in Tickets,
         NEW p \in Stages, NEW c \in Nat, NEW k \in Nat, NEW d \in Nat,
         pc' = [pc EXCEPT ![t] = p], curr' = [curr EXCEPT ![t] = c], cnt' = [cnt EXCEPT ![t] = k],
         head' = head + d,
         ~Shut => /\ Pos(write') = Pos(write) + d + WriteAt(t, p, c, k) - OfWrite(t)
                  /\ Pos(reserve') = Pos(reserve) + d + ReserveAt(t, p, c, k) - OfReserve(t)
  PROVE  SpaceIsConserved'
  <1>1. \A u \in Tickets : u # t => pc'[u] = pc[u] /\ curr'[u] = curr[u] /\ cnt'[u] = cnt[u]
    BY DEF TicsOK
  <1>2. pc'[t] = p /\ curr'[t] = c /\ cnt'[t] = k
    BY DEF TicsOK
  <1>3. /\ \A u \in Tickets : OfReserve(u)' = ReserveAt(u, pc'[u], curr'[u], cnt'[u])
        /\ \A u \in Tickets : OfWrite(u)' = WriteAt(u, pc'[u], curr'[u], cnt'[u])
    BY DEF OfReserve, OfWrite, ReserveAt, WriteAt, Rest, UnitsOf
  <1>4. /\ \A u \in Tickets : u # t => HeldOfReserve[u] = HeldOfReserve'[u] /\ HeldOfWrite[u] = HeldOfWrite'[u]
        /\ HeldOfReserve'[t] = ReserveAt(t, p, c, k) /\ HeldOfWrite'[t] = WriteAt(t, p, c, k)
        /\ HeldOfReserve[t] = OfReserve(t) /\ HeldOfWrite[t] = OfWrite(t)
    BY <1>1, <1>2, <1>3, HoldIs DEF HeldOfReserve, HeldOfWrite
  <1>5. /\ \A u \in Tickets : HeldOfReserve[u] \in Int /\ HeldOfWrite[u] \in Int
        /\ \A u \in Tickets : HeldOfReserve'[u] \in Int /\ HeldOfWrite'[u] \in Int
        /\ Total(HeldOfReserve) \in Int /\ Total(HeldOfWrite) \in Int
    <2>1. \A u \in Tickets : u # t => HeldOfReserve'[u] \in Int /\ HeldOfWrite'[u] \in Int
      BY <1>4, HeldTypes
    <2>2. HeldOfReserve'[t] \in Int /\ HeldOfWrite'[t] \in Int
      BY <1>4, HoldSizes
    <2> QED BY <2>1, <2>2, HeldTypes
  <1>6. ASSUME NEW f, NEW g, \A u \in Tickets : f[u] \in Int /\ g[u] \in Int, \A u \in Tickets : u # t => f[u] = g[u]
        PROVE  Total(g) = Total(f) - f[t] + g[t]
    BY <1>6, SumChange, GrantAssumption DEF Total
  <1>7. Total(HeldOfReserve') = Total(HeldOfReserve) - OfReserve(t) + ReserveAt(t, p, c, k)
    BY <1>4, <1>5, <1>6
  <1>8. Total(HeldOfWrite') = Total(HeldOfWrite) - OfWrite(t) + WriteAt(t, p, c, k)
    BY <1>4, <1>5, <1>6
  <1>9. /\ OfReserve(t) \in Int /\ OfWrite(t) \in Int /\ ReserveAt(t, p, c, k) \in Int /\ WriteAt(t, p, c, k) \in Int
        /\ head \in Int
    BY <1>4, <1>5, HoldSizes DEF RestOK
  <1>10. ~Shut => Pos(write) = head + Total(HeldOfWrite) /\ Pos(reserve) = head + Total(HeldOfReserve)
    BY ConservedIs
  <1>11. ~Shut' => Pos(write') = head' + Total(HeldOfWrite') /\ Pos(reserve') = head' + Total(HeldOfReserve')
    BY <1>5, <1>7, <1>8, <1>9, <1>10
  <1> QED BY <1>11 DEF SpaceIsConserved, SumFunction, Total, HeldOfReserve, HeldOfWrite

\* A step that leaves the tickets alone.
LEMMA NoneHolds ==
  ASSUME TicsOK, RestOK, HeadsOK, SpaceIsConserved, Shut => Shut', UNCHANGED tics, NEW d \in Nat, head' = head + d,
         Pos(write') = Pos(write) + d, Pos(reserve') = Pos(reserve) + d
  PROVE  SpaceIsConserved'
  <1>1. pc' = pc /\ curr' = curr /\ cnt' = cnt
    BY DEF tics
  <1>2. HeldOfReserve' = HeldOfReserve /\ HeldOfWrite' = HeldOfWrite
    BY <1>1 DEF HeldOfReserve, HeldOfWrite, OfReserve, OfWrite, Rest
  <1>3. ~Shut => Pos(write) = head + Total(HeldOfWrite) /\ Pos(reserve) = head + Total(HeldOfReserve)
    BY ConservedIs
  <1>4. Total(HeldOfReserve) \in Int /\ Total(HeldOfWrite) \in Int /\ head \in Int
    BY HeldTypes DEF RestOK
  <1>5. ~Shut' => Pos(write') = head' + Total(HeldOfWrite') /\ Pos(reserve') = head' + Total(HeldOfReserve')
    BY <1>2, <1>3, <1>4
  <1> QED BY <1>5 DEF SpaceIsConserved, SumFunction, Total, HeldOfReserve, HeldOfWrite

LEMMA ShutConserves == Shut' => SpaceIsConserved'
  BY DEF SpaceIsConserved

\* A step that takes a ticket to a stage in which it holds the same, with the heads where they were.
LEMMA SameHolds ==
  ASSUME TicsOK, TicsOK', RestOK, HeadsOK, SpaceIsConserved, Shut' = Shut, NEW t \in Tickets,
         NEW p \in Stages, NEW c \in Nat, NEW k \in Nat,
         pc' = [pc EXCEPT ![t] = p], curr' = [curr EXCEPT ![t] = c], cnt' = [cnt EXCEPT ![t] = k],
         head' = head, UNCHANGED heads,
         WriteAt(t, p, c, k) = OfWrite(t), ReserveAt(t, p, c, k) = OfReserve(t)
  PROVE  SpaceIsConserved'
  <1>1. write' = write /\ reserve' = reserve
    BY DEF heads
  <1>2. head' = head + 0 /\ Pos(write) \in Int /\ Pos(reserve) \in Int /\ OfWrite(t) \in Int /\ OfReserve(t) \in Int
    BY PosIsInt, HoldSizes DEF RestOK, HeadsOK
  <1> DEFINE a == WriteAt(t, p, c, k)
             b == ReserveAt(t, p, c, k)
  <1>3. Pos(write') = Pos(write) + 0 + a - OfWrite(t) /\ Pos(reserve') = Pos(reserve) + 0 + b - OfReserve(t)
    <2> HIDE DEF a, b
    <2>1. a = OfWrite(t) /\ b = OfReserve(t)
      BY DEF a, b
    <2> QED BY <1>1, <1>2, <2>1
  <1> QED BY <1>2, <1>3, OneHolds

\* error_return is taken only after a shutdown
LEMMA ErrorHolds == ASSUME NEW t \in Tickets, NEW q, Shut, UNCHANGED shutdown PROVE SpaceIsConserved'
  <1>1. Shut'
    BY DEF Shut
  <1> QED BY <1>1, ShutConserves

LEMMA GrantTryHolds ==
  ASSUME TicsOK, TicsOK', HeadsOK, RestOK, SpaceIsConserved, NEW t \in Tickets, pc[t] \in Asking,
         UNCHANGED <<shutdown, head>>, GrantTry(t)
  PROVE  SpaceIsConserved'
  <1>a. Shut' = Shut /\ head' = head + 0 /\ head' = head
    BY DEF Shut, RestOK
  <1>b. /\ pc[t] # "held" /\ pc[t] \notin Between
        /\ curr[t] = Unit[t] /\ cnt[t] = Ocnt[t] /\ curr[t] \in Nat /\ cnt[t] \in Nat
    BY AtStage DEF StageAt, Asking, Between
  <1>c. OfWrite(t) = 0 /\ OfReserve(t) = 0
    BY <1>b DEF OfWrite, OfReserve
  <1>1. CASE Shut
    BY <1>1, ErrorHolds
  <1>2. CASE pc' = [pc EXCEPT ![t] = "gsleep2"] /\ UNCHANGED <<heads, curr, cnt>>
    <2>1. curr' = [curr EXCEPT ![t] = curr[t]] /\ cnt' = [cnt EXCEPT ![t] = cnt[t]]
      BY <1>2, AtStage
    <2>2. WriteAt(t, "gsleep2", curr[t], cnt[t]) = 0 /\ ReserveAt(t, "gsleep2", curr[t], cnt[t]) = 0
      BY DEF WriteAt, ReserveAt, Between
    <2>3. "gsleep2" \in Stages /\ pc' = [pc EXCEPT ![t] = "gsleep2"] /\ UNCHANGED heads
      BY <1>2 DEF Stages
    <2> QED BY <1>a, <1>b, <1>c, <2>1, <2>2, <2>3, SameHolds
  <1>3. CASE /\ pc' = [pc EXCEPT ![t] = "held"] /\ UNCHANGED <<curr, cnt>>
             /\ write' = AddSpace(write, Need(t)) /\ reserve' = AddSpace(reserve, Need(t))
    <2>1. curr' = [curr EXCEPT ![t] = curr[t]] /\ cnt' = [cnt EXCEPT ![t] = cnt[t]]
      BY <1>3, AtStage
    <2>2. WriteAt(t, "held", curr[t], cnt[t]) = Need(t) /\ ReserveAt(t, "held", curr[t], cnt[t]) = Need(t)
      <3>1. curr[t] + UnitsOf(t, cnt[t]) = Need(t)
        <4>1. /\ t \in Perm => Ocnt[t] >= 1 /\ Need(t) = Unit[t] * Ocnt[t]
              /\ t \notin Perm => Need(t) = Unit[t]
              /\ Unit[t] \in Nat /\ Ocnt[t] \in Nat
          BY Sizes DEF Need
        <4>2. CASE t \in Perm
          <5>1. UnitsOf(t, cnt[t]) = Unit[t] * (Ocnt[t] - 1)
            BY <1>b, <4>1, <4>2 DEF UnitsOf
          <5>2. Unit[t] * (Ocnt[t] - 1) = Unit[t] * Ocnt[t] - Unit[t] /\ Unit[t] * Ocnt[t] \in Nat
            BY <4>1, <4>2, Product
          <5> QED BY <1>b, <4>1, <4>2, <5>1, <5>2
        <4>3. CASE t \notin Perm
          <5>1. UnitsOf(t, cnt[t]) = Unit[t] * 0
            BY <4>3 DEF UnitsOf
          <5>2. Unit[t] * 0 = 0
            BY <4>1
          <5> QED BY <1>b, <4>1, <4>3, <5>1, <5>2
        <4> QED BY <4>2, <4>3
      <3> QED BY <3>1 DEF WriteAt, ReserveAt, Between
    <2>3. /\ Pos(write') = Pos(write) + Need(t) /\ Pos(reserve') = Pos(reserve) + Need(t)
          /\ Need(t) \in Nat /\ Pos(write) \in Int /\ Pos(reserve) \in Int
      BY <1>3, Sizes, Forward, PosIsInt DEF HeadsOK
    <2>4. /\ Pos(write') = Pos(write) + 0 + WriteAt(t, "held", curr[t], cnt[t]) - OfWrite(t)
          /\ Pos(reserve') = Pos(reserve) + 0 + ReserveAt(t, "held", curr[t], cnt[t]) - OfReserve(t)
      BY <1>c, <2>2, <2>3
    <2>5. "held" \in Stages /\ pc' = [pc EXCEPT ![t] = "held"]
      BY <1>3 DEF Stages
    <2> QED BY <1>a, <1>b, <2>1, <2>4, <2>5, OneHolds
  <1> QED BY <1>1, <1>2, <1>3 DEF GrantTry

LEMMA RegrantTryHolds ==
  ASSUME TicsOK, TicsOK', HeadsOK, RestOK, SpaceIsConserved, NEW t \in Tickets, pc[t] \in Between, cnt[t] = 0,
         UNCHANGED <<shutdown, head>>, RegrantTry(t)
  PROVE  SpaceIsConserved'
  <1>a. Shut' = Shut /\ head' = head + 0 /\ head' = head
    BY DEF Shut, RestOK
  <1>b. pc[t] # "held" /\ curr[t] = Unit[t] /\ curr[t] \in Nat /\ cnt[t] \in Nat /\ Unit[t] \in 0 .. LogSize
    BY AtStage, Sizes DEF StageAt, Between
  <1>c. OfWrite(t) = 0 /\ OfReserve(t) = Unit[t]
    <2>1. Unit[t] * 0 = 0 /\ Unit[t] * 1 = Unit[t]
      BY <1>b, Sizes
    <2> QED BY <1>b, <2>1 DEF OfWrite, OfReserve
  <1>1. CASE Shut
    BY <1>1, ErrorHolds
  <1>2. CASE pc' = [pc EXCEPT ![t] = "wsleep2"] /\ UNCHANGED <<heads, curr, cnt>>
    <2>1. curr' = [curr EXCEPT ![t] = curr[t]] /\ cnt' = [cnt EXCEPT ![t] = cnt[t]]
      BY <1>2, AtStage
    <2>2. WriteAt(t, "wsleep2", curr[t], cnt[t]) = OfWrite(t) /\ ReserveAt(t, "wsleep2", curr[t], cnt[t]) = OfReserve(t)
      BY <1>b DEF WriteAt, ReserveAt, Between, OfWrite, OfReserve
    <2>3. "wsleep2" \in Stages /\ pc' = [pc EXCEPT ![t] = "wsleep2"] /\ UNCHANGED heads
      BY <1>2 DEF Stages
    <2> QED BY <1>a, <1>b, <2>1, <2>2, <2>3, SameHolds
  <1>3. CASE /\ pc' = [pc EXCEPT ![t] = "held"] /\ UNCHANGED <<reserve, curr, cnt>>
             /\ write' = AddSpace(write, Unit[t])
    <2>1. curr' = [curr EXCEPT ![t] = curr[t]] /\ cnt' = [cnt EXCEPT ![t] = cnt[t]]
      BY <1>3, AtStage
    <2>2. WriteAt(t, "held", curr[t], cnt[t]) = Unit[t] /\ ReserveAt(t, "held", curr[t], cnt[t]) = Unit[t]
      <3>1. UnitsOf(t, cnt[t]) = Unit[t] * 0 /\ Unit[t] * 0 = 0
        BY <1>b, Sizes DEF UnitsOf
      <3> QED BY <1>b, <3>1 DEF WriteAt, ReserveAt, Between
    <2>3. /\ Pos(write') = Pos(write) + Unit[t] /\ Pos(reserve') = Pos(reserve)
          /\ Pos(write) \in Int /\ Pos(reserve) \in Int
      BY <1>3, <1>b, Forward, PosIsInt DEF HeadsOK
    <2>4. /\ Pos(write') = Pos(write) + 0 + WriteAt(t, "held", curr[t], cnt[t]) - OfWrite(t)
          /\ Pos(reserve') = Pos(reserve) + 0 + ReserveAt(t, "held", curr[t], cnt[t]) - OfReserve(t)
      BY <1>b, <1>c, <2>2, <2>3
    <2>5. "held" \in Stages /\ pc' = [pc EXCEPT ![t] = "held"]
      BY <1>3 DEF Stages
    <2> QED BY <1>a, <1>b, <2>1, <2>4, <2>5, OneHolds
  <1> QED BY <1>1, <1>2, <1>3 DEF RegrantTry

\* Every step moves the heads by what the tickets take or give and the log writes.
LEMMA ConservedStep ==
  ASSUME TicsOK, TicsOK', HeadsOK, RestOK, SpaceIsConserved, Next \/ UNCHANGED vars
  PROVE  SpaceIsConserved'
  <1>a. ASSUME NEW t \in Tickets, Thread(t) PROVE SpaceIsConserved'
    <2>1. CASE LogReserve(t)
      <3>1. pc' = [pc EXCEPT ![t] = "grant"] /\ curr' = [curr EXCEPT ![t] = Unit[t]] /\ cnt' = [cnt EXCEPT ![t] = Ocnt[t]]
        BY <2>1, AtStage DEF LogReserve
      <3>2. Shut' = Shut /\ head' = head /\ UNCHANGED heads
        BY <2>1 DEF LogReserve, Shut
      <3>3. "grant" \in Stages /\ Unit[t] \in Nat /\ Ocnt[t] \in Nat
        BY AtStage, Sizes DEF Stages
      <3>4. WriteAt(t, "grant", Unit[t], Ocnt[t]) = OfWrite(t) /\ ReserveAt(t, "grant", Unit[t], Ocnt[t]) = OfReserve(t)
        BY <2>1, HoldIs DEF LogReserve, WriteAt, ReserveAt, UnitsOf, Between, Asking, Waiting, Stages
      <3> QED BY <3>1, <3>2, <3>3, <3>4, SameHolds
    <2>2. CASE GrantLogSpace(t)
      <3>1. pc[t] \in Asking /\ UNCHANGED <<shutdown, head>> /\ GrantTry(t)
        BY <2>2 DEF GrantLogSpace, Asking
      <3> QED BY <3>1, GrantTryHolds
    <2>3. CASE GrantQueueUp(t)
      <3>1. pc' = [pc EXCEPT ![t] = "gsleep1"] /\ curr' = [curr EXCEPT ![t] = curr[t]] /\ cnt' = [cnt EXCEPT ![t] = cnt[t]]
        BY <2>3, AtStage DEF GrantQueueUp
      <3>2. Shut' = Shut /\ head' = head /\ UNCHANGED heads
        BY <2>3 DEF GrantQueueUp, Shut
      <3>3. "gsleep1" \in Stages /\ curr[t] \in Nat /\ cnt[t] \in Nat
        BY AtStage, Sizes DEF Stages
      <3>4. WriteAt(t, "gsleep1", curr[t], cnt[t]) = OfWrite(t) /\ ReserveAt(t, "gsleep1", curr[t], cnt[t]) = OfReserve(t)
        BY <2>3, HoldIs DEF GrantQueueUp, WriteAt, ReserveAt, UnitsOf, Between, Asking, Waiting, Stages
      <3> QED BY <3>1, <3>2, <3>3, <3>4, SameHolds
    <2>4. CASE GrantQueueUpShut(t)
      BY <2>4, ErrorHolds DEF GrantQueueUpShut
    <2>5. CASE GrantWake1(t)
      <3>1. pc[t] \in Asking /\ UNCHANGED <<shutdown, head>> /\ GrantTry(t)
        BY <2>5 DEF GrantWake1, Asking
      <3> QED BY <3>1, GrantTryHolds
    <2>6. CASE GrantWake2(t)
      <3>a. CASE Shut
        BY <2>6, <3>a, ErrorHolds DEF GrantWake2
      <3>b. CASE ~Shut
        <4>1. pc' = [pc EXCEPT ![t] = "gredo"] /\ curr' = [curr EXCEPT ![t] = curr[t]] /\ cnt' = [cnt EXCEPT ![t] = cnt[t]]
          BY <2>6, AtStage, <3>b DEF GrantWake2
        <4>2. Shut' = Shut /\ head' = head /\ UNCHANGED heads
          BY <2>6, <3>b DEF GrantWake2, Shut
        <4>3. "gredo" \in Stages /\ curr[t] \in Nat /\ cnt[t] \in Nat
          BY AtStage, Sizes DEF Stages
        <4>4. WriteAt(t, "gredo", curr[t], cnt[t]) = OfWrite(t) /\ ReserveAt(t, "gredo", curr[t], cnt[t]) = OfReserve(t)
          BY <2>6, HoldIs, <3>b DEF GrantWake2, WriteAt, ReserveAt, UnitsOf, Between, Asking, Waiting, Stages
        <4> QED BY <4>1, <4>2, <4>3, <4>4, SameHolds
      <3> QED BY <3>a, <3>b
    <2>7. CASE LogReserveAgain(t)
      <3>a. CASE Shut
        BY <2>7, <3>a, ErrorHolds DEF LogReserveAgain
      <3>b. CASE ~Shut
        <4>1. pc' = [pc EXCEPT ![t] = "regrant"] /\ curr' = [curr EXCEPT ![t] = curr[t]] /\ cnt' = [cnt EXCEPT ![t] = cnt[t]]
          BY <2>7, AtStage, <3>b DEF LogReserveAgain
        <4>2. Shut' = Shut /\ head' = head /\ UNCHANGED heads
          BY <2>7, <3>b DEF LogReserveAgain, Shut
        <4>3. "regrant" \in Stages /\ curr[t] \in Nat /\ cnt[t] \in Nat
          BY AtStage, Sizes DEF Stages
        <4>4. WriteAt(t, "regrant", curr[t], cnt[t]) = OfWrite(t) /\ ReserveAt(t, "regrant", curr[t], cnt[t]) = OfReserve(t)
          BY <2>7, HoldIs, <3>b DEF LogReserveAgain, WriteAt, ReserveAt, UnitsOf, Between, Asking, Waiting, Stages
        <4> QED BY <4>1, <4>2, <4>3, <4>4, SameHolds
      <3> QED BY <3>a, <3>b
    <2>8. CASE RegrantPrereserved(t)
      <3>1. pc' = [pc EXCEPT ![t] = "held"] /\ curr' = [curr EXCEPT ![t] = Unit[t]] /\ cnt' = [cnt EXCEPT ![t] = cnt[t]]
        BY <2>8, AtStage DEF RegrantPrereserved
      <3>2. Shut' = Shut /\ head' = head /\ UNCHANGED heads /\ pc[t] = "regrant" /\ cnt[t] > 0
        BY <2>8 DEF RegrantPrereserved, Shut
      <3>3. t \in Perm /\ Unit[t] \in Nat /\ cnt[t] \in Nat /\ "held" \in Stages
        BY <3>2, AtStage, Sizes DEF StageAt, Between, Stages
      <3>4. Unit[t] * (cnt[t] - 1) = Unit[t] * cnt[t] - Unit[t] /\ Unit[t] * cnt[t] \in Nat
        BY <3>2, <3>3, Product
      <3>5. OfWrite(t) = Unit[t] * cnt[t] /\ OfReserve(t) = Unit[t] * cnt[t]
        BY <3>2 DEF OfWrite, OfReserve, Between
      <3>6. UnitsOf(t, cnt[t]) = Unit[t] * (cnt[t] - 1)
        BY <3>2, <3>3 DEF UnitsOf
      <3>7. Unit[t] + UnitsOf(t, cnt[t]) = Unit[t] * cnt[t]
        BY <3>3, <3>4, <3>6
      <3>8. WriteAt(t, "held", Unit[t], cnt[t]) = OfWrite(t) /\ ReserveAt(t, "held", Unit[t], cnt[t]) = OfReserve(t)
        BY <3>5, <3>7 DEF WriteAt, ReserveAt, Between
      <3> QED BY <3>1, <3>2, <3>3, <3>8, SameHolds
    <2>9. CASE RegrantWriteLogSpace(t)
      <3>a. CASE RegrantTry(t)
        <4>1. pc[t] \in Between /\ cnt[t] = 0 /\ UNCHANGED <<shutdown, head>>
          BY <2>9 DEF RegrantWriteLogSpace, Between
        <4> QED BY <3>a, <4>1, RegrantTryHolds
      <3>b. CASE ~RegrantTry(t)
        <4>1. pc' = [pc EXCEPT ![t] = "wsleep1"] /\ curr' = [curr EXCEPT ![t] = curr[t]] /\ cnt' = [cnt EXCEPT ![t] = cnt[t]]
          BY <2>9, AtStage, <3>b DEF RegrantWriteLogSpace
        <4>2. Shut' = Shut /\ head' = head /\ UNCHANGED heads
          BY <2>9, <3>b DEF RegrantWriteLogSpace, Shut
        <4>3. "wsleep1" \in Stages /\ curr[t] \in Nat /\ cnt[t] \in Nat
          BY AtStage, Sizes DEF Stages
        <4>4. WriteAt(t, "wsleep1", curr[t], cnt[t]) = OfWrite(t) /\ ReserveAt(t, "wsleep1", curr[t], cnt[t]) = OfReserve(t)
          BY <2>9, HoldIs, <3>b DEF RegrantWriteLogSpace, WriteAt, ReserveAt, UnitsOf, Between, Asking, Waiting, Stages
        <4> QED BY <4>1, <4>2, <4>3, <4>4, SameHolds
      <3> QED BY <3>a, <3>b
    <2>10. CASE RegrantRedo(t)
      <3>1. pc[t] \in Between /\ pc[t] \in Waiting /\ UNCHANGED <<shutdown, head>> /\ RegrantTry(t)
        BY <2>10 DEF RegrantRedo, Between, Waiting
      <3>2. cnt[t] = 0
        BY <3>1, AtStage DEF StageAt
      <3> QED BY <3>1, <3>2, RegrantTryHolds
    <2>11. CASE RegrantWake(t)
      <3>a. CASE Shut
        BY <2>11, <3>a, ErrorHolds DEF RegrantWake
      <3>b. CASE ~Shut
        <4>1. pc' = [pc EXCEPT ![t] = "wredo"] /\ curr' = [curr EXCEPT ![t] = curr[t]] /\ cnt' = [cnt EXCEPT ![t] = cnt[t]]
          BY <2>11, AtStage, <3>b DEF RegrantWake
        <4>2. Shut' = Shut /\ head' = head /\ UNCHANGED heads
          BY <2>11, <3>b DEF RegrantWake, Shut
        <4>3. "wredo" \in Stages /\ curr[t] \in Nat /\ cnt[t] \in Nat
          BY AtStage, Sizes DEF Stages
        <4>4. WriteAt(t, "wredo", curr[t], cnt[t]) = OfWrite(t) /\ ReserveAt(t, "wredo", curr[t], cnt[t]) = OfReserve(t)
          BY <2>11, HoldIs, <3>b DEF RegrantWake, WriteAt, ReserveAt, UnitsOf, Between, Asking, Waiting, Stages
        <4> QED BY <4>1, <4>2, <4>3, <4>4, SameHolds
      <3> QED BY <3>a, <3>b
    <2>12. CASE RegrantReserveLogSpace(t)
      <3> DEFINE c == Minus1(cnt[t])
      <3>1. pc' = [pc EXCEPT ![t] = "rolled"] /\ curr' = [curr EXCEPT ![t] = Unit[t]] /\ cnt' = [cnt EXCEPT ![t] = c]
        BY <2>12 DEF RegrantReserveLogSpace
      <3>2. Shut' = Shut /\ head' = head + 0 /\ pc[t] = "held" /\ t \in Perm
        BY <2>12 DEF RegrantReserveLogSpace, Shut, RestOK
      <3>3. /\ c \in Nat /\ Unit[t] \in 0 .. LogSize /\ Unit[t] \in Nat /\ curr[t] \in 0 .. LogSize /\ curr[t] \in Nat
            /\ cnt[t] \in Nat /\ "rolled" \in Stages /\ c = (IF cnt[t] > 0 THEN cnt[t] - 1 ELSE 0)
        BY AtStage, UnitsLeft, Sizes DEF Stages, Minus1
      <3> HIDE DEF c
      <3>4. OfWrite(t) = curr[t] + Unit[t] * c /\ OfReserve(t) = curr[t] + Unit[t] * c
        BY <3>2, <3>3 DEF OfWrite, OfReserve, Rest, Between
      <3>5. /\ WriteAt(t, "rolled", Unit[t], c) = Unit[t] * c
            /\ ReserveAt(t, "rolled", Unit[t], c) = Unit[t] * (IF c > 0 THEN c ELSE 1)
        BY DEF WriteAt, ReserveAt, Between
      <3>6. Unit[t] * c \in Nat /\ Unit[t] * 1 = Unit[t] /\ Unit[t] * 0 = 0
        BY <3>3, Product
      <3>7. /\ SubSpace(reserve, curr[t]) \in Place
            /\ Pos(SubSpace(reserve, curr[t])) = Pos(reserve) - curr[t]
            /\ Pos(SubSpace(write, curr[t])) = Pos(write) - curr[t]
            /\ Pos(reserve) \in Int /\ Pos(write) \in Int
        BY <3>3, Back, PosIsInt DEF HeadsOK
      <3>8. Pos(AddSpace(SubSpace(reserve, curr[t]), Unit[t])) = Pos(reserve) - curr[t] + Unit[t]
        BY <3>3, <3>7, Forward
      <3>9. /\ write' = SubSpace(write, curr[t])
            /\ reserve' = IF c > 0 THEN SubSpace(reserve, curr[t]) ELSE AddSpace(SubSpace(reserve, curr[t]), Unit[t])
        BY <2>12 DEF RegrantReserveLogSpace, c
      <3>10. Pos(write') = Pos(write) + 0 + WriteAt(t, "rolled", Unit[t], c) - OfWrite(t)
        BY <3>3, <3>4, <3>5, <3>6, <3>7, <3>9
      <3>11. Pos(reserve') = Pos(reserve) + 0 + ReserveAt(t, "rolled", Unit[t], c) - OfReserve(t)
        <4>1. CASE c > 0
          BY <3>3, <3>4, <3>5, <3>6, <3>7, <3>9, <4>1
        <4>2. CASE c = 0
          BY <3>3, <3>4, <3>5, <3>6, <3>7, <3>8, <3>9, <4>2
        <4> QED BY <3>3, <4>1, <4>2
      <3> QED BY <3>1, <3>2, <3>3, <3>10, <3>11, OneHolds
    <2>13. CASE UngrantLogSpace(t)
      <3>a. CASE Shut
        BY <2>13, <3>a, ErrorHolds DEF UngrantLogSpace
      <3>b. CASE ~Shut
        <4> DEFINE c == Minus1(cnt[t])
                   n == Unit[t] * c
                   give(h) == IF c > 0 THEN SubSpace(SubSpace(h, curr[t]), n) ELSE SubSpace(h, curr[t])
        <4>1. pc' = [pc EXCEPT ![t] = "ungranted"] /\ curr' = [curr EXCEPT ![t] = curr[t]] /\ cnt' = [cnt EXCEPT ![t] = c]
          BY <2>13, AtStage DEF UngrantLogSpace
        <4>2. Shut' = Shut /\ head' = head + 0 /\ pc[t] = "held"
          BY <2>13, <3>b, AtStage DEF UngrantLogSpace, Shut, RestOK, StageAt
        <4>3. /\ c \in Nat /\ Unit[t] \in Nat /\ curr[t] \in 0 .. LogSize /\ curr[t] \in Nat
              /\ cnt[t] \in Nat /\ "ungranted" \in Stages /\ c = (IF cnt[t] > 0 THEN cnt[t] - 1 ELSE 0)
              /\ c > 0 => t \in Perm /\ n \in 0 .. LogSize
          BY AtStage, UnitsLeft, Sizes DEF Stages, Minus1
        <4>4. write' = give(write) /\ reserve' = give(reserve)
          BY <2>13 DEF UngrantLogSpace
        <4>5. n \in Nat /\ Unit[t] * 0 = 0
          <5> HIDE DEF c
          <5> QED BY <4>3, Product
        <4>6. UnitsOf(t, cnt[t]) = IF c > 0 THEN n ELSE 0
          <5>1. UnitsOf(t, cnt[t]) = IF t \in Perm THEN n ELSE 0
            <6> HIDE DEF c
            <6> QED BY <4>3, <4>5 DEF UnitsOf
          <5>2. c = 0 => n = 0
            <6> HIDE DEF c
            <6> QED BY <4>5
          <5> HIDE DEF n, c
          <5> QED BY <4>3, <5>1, <5>2
        <4> HIDE DEF c, n
        <4>7. /\ OfWrite(t) = curr[t] + (IF c > 0 THEN n ELSE 0) /\ OfReserve(t) = curr[t] + (IF c > 0 THEN n ELSE 0)
              /\ WriteAt(t, "ungranted", curr[t], c) = 0 /\ ReserveAt(t, "ungranted", curr[t], c) = 0
          BY <4>2, <4>6, HoldIs DEF WriteAt, ReserveAt, Between
        <4>8. ASSUME NEW h \in Place PROVE Pos(give(h)) = Pos(h) - curr[t] - (IF c > 0 THEN n ELSE 0)
          <5>1. /\ SubSpace(h, curr[t]) \in Place /\ Pos(SubSpace(h, curr[t])) = Pos(h) - curr[t]
                /\ Pos(h) \in Int
            BY <4>3, Back, PosIsInt
          <5>2. c > 0 => Pos(SubSpace(SubSpace(h, curr[t]), n)) = Pos(h) - curr[t] - n
            BY <4>3, <5>1, Back
          <5> QED BY <4>3, <5>1, <5>2
        <4> HIDE DEF give
        <4>9. /\ Pos(write') = Pos(write) - curr[t] - (IF c > 0 THEN n ELSE 0)
              /\ Pos(reserve') = Pos(reserve) - curr[t] - (IF c > 0 THEN n ELSE 0)
              /\ Pos(write) \in Int /\ Pos(reserve) \in Int
          BY <4>4, <4>8, PosIsInt DEF HeadsOK
        <4>10. /\ Pos(write') = Pos(write) + 0 + WriteAt(t, "ungranted", curr[t], c) - OfWrite(t)
               /\ Pos(reserve') = Pos(reserve) + 0 + ReserveAt(t, "ungranted", curr[t], c) - OfReserve(t)
          BY <4>3, <4>5, <4>7, <4>9
        <4> QED BY <4>1, <4>2, <4>3, <4>10, OneHolds
      <3> QED BY <3>a, <3>b
    <2>14. CASE UngrantWake(t)
      <3>1. pc' = [pc EXCEPT ![t] = "idle"] /\ curr' = [curr EXCEPT ![t] = 0] /\ cnt' = [cnt EXCEPT ![t] = 0]
        BY <2>14, AtStage DEF UngrantWake
      <3>2. Shut' = Shut /\ head' = head /\ UNCHANGED heads
        BY <2>14 DEF UngrantWake, Shut
      <3>3. "idle" \in Stages /\ 0 \in Nat /\ 0 \in Nat
        BY AtStage, Sizes DEF Stages
      <3>4. WriteAt(t, "idle", 0, 0) = OfWrite(t) /\ ReserveAt(t, "idle", 0, 0) = OfReserve(t)
        BY <2>14, HoldIs DEF UngrantWake, WriteAt, ReserveAt, UnitsOf, Between, Asking, Waiting, Stages
      <3> QED BY <3>1, <3>2, <3>3, <3>4, SameHolds
    <2> QED BY <1>a, <2>1, <2>2, <2>3, <2>4, <2>5, <2>6, <2>7, <2>8, <2>9, <2>10, <2>11, <2>12, <2>13, <2>14 DEF Thread
  <1>b. ASSUME NEW t \in Tickets, NEW n \in WriteSizes, LogWrite(t, n) PROVE SpaceIsConserved'
    <2>1. pc' = [pc EXCEPT ![t] = "held"] /\ curr' = [curr EXCEPT ![t] = curr[t] - n] /\ cnt' = [cnt EXCEPT ![t] = cnt[t]]
      BY <1>b, AtStage DEF LogWrite
    <2>2. /\ Shut' = Shut /\ head' = head + n /\ pc[t] = "held" /\ write' = write /\ reserve' = reserve
          /\ n \in Nat /\ n <= curr[t]
      BY <1>b, GrantAssumption DEF LogWrite, Shut, heads
    <2>3. "held" \in Stages /\ curr[t] - n \in Nat /\ curr[t] \in Nat /\ cnt[t] \in Nat
      BY <2>2, AtStage DEF Stages
    <2>4. UnitsOf(t, cnt[t]) \in Int /\ OfWrite(t) = curr[t] + UnitsOf(t, cnt[t]) /\ OfReserve(t) = curr[t] + UnitsOf(t, cnt[t])
      <3> DEFINE j == IF cnt[t] > 0 /\ t \in Perm THEN cnt[t] - 1 ELSE 0
      <3>1. j \in Nat
        BY <2>3
      <3> HIDE DEF j
      <3>2. Unit[t] * j \in Nat
        BY <3>1, Product
      <3>3. UnitsOf(t, cnt[t]) = Unit[t] * j
        BY DEF UnitsOf, j
      <3> QED BY <2>2, <3>2, <3>3, HoldIs DEF WriteAt, ReserveAt, Between
    <2>5. /\ WriteAt(t, "held", curr[t] - n, cnt[t]) = curr[t] - n + UnitsOf(t, cnt[t])
          /\ ReserveAt(t, "held", curr[t] - n, cnt[t]) = curr[t] - n + UnitsOf(t, cnt[t])
      BY DEF WriteAt, ReserveAt, Between
    <2>6. Pos(write) \in Int /\ Pos(reserve) \in Int
      BY PosIsInt DEF HeadsOK
    <2>7. /\ Pos(write') = Pos(write) + n + WriteAt(t, "held", curr[t] - n, cnt[t]) - OfWrite(t)
          /\ Pos(reserve') = Pos(reserve) + n + ReserveAt(t, "held", curr[t] - n, cnt[t]) - OfReserve(t)
      BY <2>2, <2>3, <2>4, <2>5, <2>6
    <2> QED BY <2>1, <2>2, <2>3, <2>7, OneHolds
  <1>c. ASSUME NEW n \in RoundSizes, LogRoundoff(n) PROVE SpaceIsConserved'
    <2>1. n \in 0 .. LogSize /\ n \in Nat
      BY GrantAssumption, Sizes
    <2>2. (Shut => Shut') /\ UNCHANGED tics /\ head' = head + n
      BY <1>c DEF LogRoundoff, Shut
    <2>3. Pos(write') = Pos(write) + n /\ Pos(reserve') = Pos(reserve) + n
      BY <1>c, <2>1, Forward DEF LogRoundoff, HeadsOK
    <2> QED BY <2>1, <2>2, <2>3, NoneHolds
  <1>d. ASSUME NEW l \in Lsns, SyncLog(l) PROVE SpaceIsConserved'
    <2>1. Shut => Shut'
      BY <1>d DEF SyncLog, Shut, RestOK
    <2>2. UNCHANGED tics /\ head' = head + 0 /\ write' = write /\ reserve' = reserve
      BY <1>d DEF SyncLog, heads, tics, RestOK
    <2>3. Pos(write) \in Int /\ Pos(reserve) \in Int
      BY PosIsInt DEF HeadsOK
    <2>4. Pos(write') = Pos(write) + 0 /\ Pos(reserve') = Pos(reserve) + 0
      BY <2>2, <2>3
    <2> QED BY <2>1, <2>2, <2>4, NoneHolds
  <1>e. ASSUME NEW l \in Lsns, AilAdvance(l) PROVE SpaceIsConserved'
    <2>1. Shut => Shut'
      BY <1>e DEF AilAdvance, Shut, RestOK
    <2>2. UNCHANGED tics /\ head' = head + 0 /\ write' = write /\ reserve' = reserve
      BY <1>e DEF AilAdvance, heads, tics, RestOK
    <2>3. Pos(write) \in Int /\ Pos(reserve) \in Int
      BY PosIsInt DEF HeadsOK
    <2>4. Pos(write') = Pos(write) + 0 /\ Pos(reserve') = Pos(reserve) + 0
      BY <2>2, <2>3
    <2> QED BY <2>1, <2>2, <2>4, NoneHolds
  <1>f. ASSUME NEW l \in movers, MoveTail(l) PROVE SpaceIsConserved'
    <2>1. Shut => Shut'
      BY <1>f DEF MoveTail, Shut, RestOK
    <2>2. UNCHANGED tics /\ head' = head + 0 /\ write' = write /\ reserve' = reserve
      BY <1>f DEF MoveTail, heads, tics, RestOK
    <2>3. Pos(write) \in Int /\ Pos(reserve) \in Int
      BY PosIsInt DEF HeadsOK
    <2>4. Pos(write') = Pos(write) + 0 /\ Pos(reserve') = Pos(reserve) + 0
      BY <2>2, <2>3
    <2> QED BY <2>1, <2>2, <2>4, NoneHolds
  <1>g. ASSUME AssignTail PROVE SpaceIsConserved'
    <2>1. Shut => Shut'
      BY <1>g DEF AssignTail, Shut, RestOK
    <2>2. UNCHANGED tics /\ head' = head + 0 /\ write' = write /\ reserve' = reserve
      BY <1>g DEF AssignTail, heads, tics, RestOK
    <2>3. Pos(write) \in Int /\ Pos(reserve) \in Int
      BY PosIsInt DEF HeadsOK
    <2>4. Pos(write') = Pos(write) + 0 /\ Pos(reserve') = Pos(reserve) + 0
      BY <2>2, <2>3
    <2> QED BY <2>1, <2>2, <2>4, NoneHolds
  <1>h. ASSUME ForceUmount PROVE SpaceIsConserved'
    <2>1. Shut => Shut'
      BY <1>h DEF ForceUmount, Shut, RestOK
    <2>2. UNCHANGED tics /\ head' = head + 0 /\ write' = write /\ reserve' = reserve
      BY <1>h DEF ForceUmount, heads, tics, RestOK
    <2>3. Pos(write) \in Int /\ Pos(reserve) \in Int
      BY PosIsInt DEF HeadsOK
    <2>4. Pos(write') = Pos(write) + 0 /\ Pos(reserve') = Pos(reserve) + 0
      BY <2>2, <2>3
    <2> QED BY <2>1, <2>2, <2>4, NoneHolds
  <1>i. ASSUME UNCHANGED vars PROVE SpaceIsConserved'
    <2>1. Shut => Shut'
      BY <1>i DEF vars, Shut, RestOK
    <2>2. UNCHANGED tics /\ head' = head + 0 /\ write' = write /\ reserve' = reserve
      BY <1>i DEF vars, heads, tics, RestOK
    <2>3. Pos(write) \in Int /\ Pos(reserve) \in Int
      BY PosIsInt DEF HeadsOK
    <2>4. Pos(write') = Pos(write) + 0 /\ Pos(reserve') = Pos(reserve) + 0
      BY <2>2, <2>3
    <2> QED BY <2>1, <2>2, <2>4, NoneHolds
  <1> QED BY <1>a, <1>b, <1>c, <1>d, <1>e, <1>f, <1>g, <1>h, <1>i DEF Next

----------------------------------------------------------------------------
(* The head of the log and the tail *)

\* A step that moves the write head no further and the AIL no back.
LEMMA NotOverrun ==
  ASSUME HeadNeverOverrunsTail, HeadsOK, PlacesOK, RestOK, Shut => Shut',
         Pos(write') \in Int, Pos(write') <= Pos(write), Pos(ailMin') \in Int, Pos(ailMin) <= Pos(ailMin'), round' = round
  PROVE  HeadNeverOverrunsTail'
  <1>1. /\ Pos(write) \in Int /\ Pos(ailMin) \in Int /\ round \in Int /\ LogSize \in Int
    BY PosIsInt, Sizes DEF HeadsOK, PlacesOK, RestOK
  <1> QED BY <1>1 DEF HeadNeverOverrunsTail

\* Space is granted only as far as the tail, and so the AIL, allows.
LEMMA GrantIsSafe ==
  ASSUME HeadsOK, PlacesOK, RestOK, ReserveCoversWrite, NEW n \in 1 .. LogSize, UNCHANGED <<ailMin, round, shutdown>>,
         ~Shut => \/ n <= SpaceLeft(tail, reserve)
                  \/ n <= SpaceLeft(tail, write),
         write' = AddSpace(write, n)
  PROVE  HeadNeverOverrunsTail'
  <1>1. /\ Pos(write) \in Int /\ Pos(reserve) \in Int /\ Pos(tail) \in Int /\ Pos(ailMin) \in Int
        /\ Pos(tail) <= Pos(ailMin) /\ round >= 0 /\ round \in Int /\ LogSize \in Int /\ n \in Int
    <2>1. LsnLeq(tail, ailMin)
      BY DEF PlacesOK
    <2> QED BY <2>1, Order, PosIsInt, Sizes DEF HeadsOK, PlacesOK, RestOK
  <1>2. Pos(AddSpace(write, n)) = Pos(write) + n /\ Pos(AddSpace(reserve, n)) = Pos(reserve) + n
    BY Forward, Sizes DEF HeadsOK
  <1>3. ASSUME ~Shut PROVE Pos(write) + n <= Pos(tail) + LogSize
    <2>1. CASE n <= SpaceLeft(tail, write)
      BY <1>2, <2>1, Safe DEF HeadsOK, PlacesOK
    <2>2. CASE n <= SpaceLeft(tail, reserve)
      <3>1. Pos(reserve) + n <= Pos(tail) + LogSize
        BY <1>2, <2>2, Safe DEF HeadsOK, PlacesOK
      <3>2. Pos(write) <= Pos(reserve)
        BY <1>3 DEF ReserveCoversWrite
      <3> QED BY <1>1, <3>1, <3>2
    <2> QED BY <1>3, <2>1, <2>2
  <1>4. ASSUME ~Shut' PROVE Pos(write') <= Pos(ailMin') + LogSize + round'
    <2>1. ~Shut
      BY <1>4 DEF Shut
    <2>2. Pos(write) + n <= Pos(tail) + LogSize
      BY <1>3, <2>1
    <2>3. Pos(write') = Pos(write) + n /\ ailMin' = ailMin /\ round' = round
      BY <1>2
    <2> QED BY <1>1, <2>2, <2>3
  <1> QED BY <1>4 DEF HeadNeverOverrunsTail

LEMMA SameOverrun ==
  ASSUME HeadNeverOverrunsTail, UNCHANGED <<write, ailMin, round>>, Shut => Shut' PROVE HeadNeverOverrunsTail'
  BY DEF HeadNeverOverrunsTail

LEMMA GrantTrySafe ==
  ASSUME HeadsOK, PlacesOK, RestOK, ReserveCoversWrite, HeadNeverOverrunsTail, NEW t \in Tickets,
         UNCHANGED <<ailMin, round, shutdown>>, GrantTry(t) \/ RegrantTry(t)
  PROVE  HeadNeverOverrunsTail'
  <1>0. Shut => Shut'
    BY DEF Shut
  <1>1. CASE UNCHANGED write
    BY <1>0, <1>1, SameOverrun
  <1>2. CASE SpaceLeft(tail, reserve) >= Need(t) /\ write' = AddSpace(write, Need(t))
    <2>1. SpaceLeft(tail, reserve) \in Int
      BY Sizes DEF SpaceLeft, HeadsOK, PlacesOK, Place
    <2>2. Need(t) \in 1 .. LogSize
      BY Sizes
    <2>3. Need(t) <= SpaceLeft(tail, reserve)
      BY <1>2, <2>1, <2>2
    <2> QED BY <1>2, <2>2, <2>3, GrantIsSafe
  <1>3. CASE SpaceLeft(tail, write) >= Unit[t] /\ write' = AddSpace(write, Unit[t])
    <2>1. SpaceLeft(tail, write) \in Int
      BY Sizes DEF SpaceLeft, HeadsOK, PlacesOK, Place
    <2>2. Unit[t] \in 1 .. LogSize
      BY Sizes
    <2>3. Unit[t] <= SpaceLeft(tail, write)
      BY <1>3, <2>1, <2>2
    <2> QED BY <1>3, <2>2, <2>3, GrantIsSafe
  <1> QED BY <1>1, <1>2, <1>3 DEF GrantTry, RegrantTry, ErrorReturn, heads

\* No step takes the write head past the tail by more than the roundoff.
LEMMA OverrunStep ==
  ASSUME TicsOK, HeadsOK, PlacesOK, RestOK, ReserveCoversWrite, HeadNeverOverrunsTail, Next \/ UNCHANGED vars
  PROVE  HeadNeverOverrunsTail'
  <1>a. ASSUME NEW t \in Tickets, Thread(t) PROVE HeadNeverOverrunsTail'
    <2>1. CASE LogReserve(t)
      <3>1. UNCHANGED <<write, ailMin, round>> /\ (Shut => Shut')
        BY <2>1 DEF LogReserve, heads, ail, Shut, RestOK
      <3> QED BY <3>1, SameOverrun
    <2>2. CASE GrantLogSpace(t)
      <3>1. UNCHANGED <<ailMin, round, shutdown>> /\ (GrantTry(t) \/ RegrantTry(t))
        BY <2>2 DEF GrantLogSpace, ail
      <3> QED BY <3>1, GrantTrySafe
    <2>3. CASE GrantQueueUp(t)
      <3>1. UNCHANGED <<write, ailMin, round>> /\ (Shut => Shut')
        BY <2>3 DEF GrantQueueUp, heads, ail, Shut, RestOK
      <3> QED BY <3>1, SameOverrun
    <2>4. CASE GrantQueueUpShut(t)
      <3>1. UNCHANGED <<write, ailMin, round>> /\ (Shut => Shut')
        BY <2>4 DEF GrantQueueUpShut, heads, ail, Shut, RestOK
      <3> QED BY <3>1, SameOverrun
    <2>5. CASE GrantWake1(t)
      <3>1. UNCHANGED <<ailMin, round, shutdown>> /\ (GrantTry(t) \/ RegrantTry(t))
        BY <2>5 DEF GrantWake1, ail
      <3> QED BY <3>1, GrantTrySafe
    <2>6. CASE GrantWake2(t)
      <3>1. UNCHANGED <<write, ailMin, round>> /\ (Shut => Shut')
        BY <2>6 DEF GrantWake2, ErrorReturn, heads, ail, Shut, RestOK
      <3> QED BY <3>1, SameOverrun
    <2>7. CASE LogReserveAgain(t)
      <3>1. UNCHANGED <<write, ailMin, round>> /\ (Shut => Shut')
        BY <2>7 DEF LogReserveAgain, heads, ail, Shut, RestOK
      <3> QED BY <3>1, SameOverrun
    <2>8. CASE RegrantPrereserved(t)
      <3>1. UNCHANGED <<write, ailMin, round>> /\ (Shut => Shut')
        BY <2>8 DEF RegrantPrereserved, heads, ail, Shut, RestOK
      <3> QED BY <3>1, SameOverrun
    <2>9. CASE RegrantWriteLogSpace(t)
      <3>1. /\ UNCHANGED <<ailMin, round, shutdown>>
            /\ RegrantTry(t) \/ UNCHANGED write
        BY <2>9 DEF RegrantWriteLogSpace, ail, heads
      <3>2. Shut => Shut'
        BY <3>1 DEF Shut
      <3> QED BY <3>1, <3>2, GrantTrySafe, SameOverrun
    <2>10. CASE RegrantRedo(t)
      <3>1. UNCHANGED <<ailMin, round, shutdown>> /\ (GrantTry(t) \/ RegrantTry(t))
        BY <2>10 DEF RegrantRedo, ail
      <3> QED BY <3>1, GrantTrySafe
    <2>11. CASE RegrantWake(t)
      <3>1. UNCHANGED <<write, ailMin, round>> /\ (Shut => Shut')
        BY <2>11 DEF RegrantWake, ErrorReturn, heads, ail, Shut, RestOK
      <3> QED BY <3>1, SameOverrun
    <2>12. CASE RegrantReserveLogSpace(t)
      <3>1. curr[t] \in 0 .. LogSize
        BY UnitsLeft
      <3>2. write' = SubSpace(write, curr[t]) /\ UNCHANGED <<ailMin, round>> /\ (Shut => Shut')
        BY <2>12 DEF RegrantReserveLogSpace, ail, Shut
      <3>3. Pos(write') = Pos(write) - curr[t] /\ Pos(write) \in Int /\ Pos(ailMin) \in Int
        BY <3>1, <3>2, Back, PosIsInt DEF HeadsOK, PlacesOK
      <3>4. Pos(write') \in Int /\ Pos(write') <= Pos(write) /\ Pos(ailMin') \in Int /\ Pos(ailMin) <= Pos(ailMin')
        BY <3>1, <3>2, <3>3, Sizes
      <3> QED BY <3>2, <3>4, NotOverrun
    <2>13. CASE UngrantLogSpace(t)
      <3> DEFINE c == Minus1(cnt[t])
                 m == Unit[t] * c
      <3>1. curr[t] \in 0 .. LogSize /\ (c > 0 => m \in 0 .. LogSize)
        BY UnitsLeft
      <3>2. /\ write' = IF c > 0 THEN SubSpace(SubSpace(write, curr[t]), m) ELSE SubSpace(write, curr[t])
            /\ UNCHANGED <<ailMin, round>> /\ (Shut => Shut')
        BY <2>13 DEF UngrantLogSpace, ail, Shut
      <3> HIDE DEF m, c
      <3>3. /\ Pos(SubSpace(write, curr[t])) = Pos(write) - curr[t] /\ SubSpace(write, curr[t]) \in Place
            /\ Pos(write) \in Int /\ Pos(ailMin) \in Int
        BY <3>1, Back, PosIsInt DEF HeadsOK, PlacesOK
      <3>4. c > 0 => Pos(SubSpace(SubSpace(write, curr[t]), m)) = Pos(write) - curr[t] - m
        BY <3>1, <3>3, Back
      <3>5. Pos(write') \in Int /\ Pos(write') <= Pos(write) /\ Pos(ailMin') \in Int /\ Pos(ailMin) <= Pos(ailMin')
        <4>1. CASE c > 0
          BY <3>1, <3>2, <3>3, <3>4, <4>1, Sizes
        <4>2. CASE ~(c > 0)
          BY <3>1, <3>2, <3>3, <4>2, Sizes
        <4> QED BY <4>1, <4>2
      <3> QED BY <3>2, <3>5, NotOverrun
    <2>14. CASE UngrantWake(t)
      <3>1. UNCHANGED <<write, ailMin, round>> /\ (Shut => Shut')
        BY <2>14 DEF UngrantWake, heads, ail, Shut, RestOK
      <3> QED BY <3>1, SameOverrun
    <2> QED BY <1>a, <2>1, <2>2, <2>3, <2>4, <2>5, <2>6, <2>7, <2>8, <2>9, <2>10, <2>11, <2>12, <2>13, <2>14 DEF Thread
  <1>b. ASSUME NEW t \in Tickets, NEW n \in WriteSizes, LogWrite(t, n) PROVE HeadNeverOverrunsTail'
    <2>1. UNCHANGED <<write, ailMin, round>> /\ (Shut => Shut')
      BY <1>b DEF LogWrite, heads, ail, Shut, RestOK
    <2> QED BY <2>1, SameOverrun
  <1>c. ASSUME NEW n \in RoundSizes, LogRoundoff(n) PROVE HeadNeverOverrunsTail'
    <2>1. n \in 0 .. LogSize /\ n \in Int
      BY GrantAssumption, Sizes
    <2>2. write' = AddSpace(write, n) /\ round' = round + n /\ UNCHANGED <<ailMin, shutdown>>
      BY <1>c DEF LogRoundoff, ail
    <2>3. Pos(write') = Pos(write) + n
      BY <2>1, <2>2, Forward DEF HeadsOK
    <2>4. Pos(write) \in Int /\ Pos(ailMin) \in Int /\ round \in Int /\ LogSize \in Int
      BY PosIsInt, Sizes DEF HeadsOK, PlacesOK, RestOK
    <2> QED BY <2>1, <2>2, <2>3, <2>4 DEF HeadNeverOverrunsTail, Shut
  <1>d. ASSUME NEW l \in Lsns, SyncLog(l) PROVE HeadNeverOverrunsTail'
    <2>1. UNCHANGED <<write, ailMin, round>> /\ (Shut => Shut')
      BY <1>d DEF SyncLog, heads, ail, Shut, RestOK
    <2> QED BY <2>1, SameOverrun
  <1>e. ASSUME NEW l \in Lsns, AilAdvance(l) PROVE HeadNeverOverrunsTail'
    <2>1. l \in Place /\ ailMin \in Place /\ write \in Place /\ ~LsnLeq(l, ailMin) /\ ailMin' = l
          /\ UNCHANGED <<write, round, shutdown>>
      BY <1>e, LsnsArePlaces DEF AilAdvance, PlacesOK, HeadsOK, heads
    <2>2. Pos(ailMin) <= Pos(l) /\ Pos(l) \in Int /\ Pos(write) \in Int
      BY <2>1, Order, PosIsInt
    <2>3. Shut => Shut'
      BY <2>1 DEF Shut
    <2>4. Pos(write') \in Int /\ Pos(write') <= Pos(write) /\ Pos(ailMin') \in Int /\ Pos(ailMin) <= Pos(ailMin') /\ round' = round
      BY <2>1, <2>2
    <2> QED BY <2>3, <2>4, NotOverrun
  <1>f. ASSUME NEW l \in movers, MoveTail(l) PROVE HeadNeverOverrunsTail'
    <2>1. UNCHANGED <<write, ailMin, round>> /\ (Shut => Shut')
      BY <1>f DEF MoveTail, heads, ail, Shut, RestOK
    <2> QED BY <2>1, SameOverrun
  <1>g. ASSUME AssignTail PROVE HeadNeverOverrunsTail'
    <2>1. UNCHANGED <<write, ailMin, round>> /\ (Shut => Shut')
      BY <1>g DEF AssignTail, heads, ail, Shut, RestOK
    <2> QED BY <2>1, SameOverrun
  <1>h. ASSUME ForceUmount PROVE HeadNeverOverrunsTail'
    <2>1. UNCHANGED <<write, ailMin, round>> /\ (Shut => Shut')
      BY <1>h DEF ForceUmount, heads, ail, Shut, RestOK
    <2> QED BY <2>1, SameOverrun
  <1>i. ASSUME UNCHANGED vars PROVE HeadNeverOverrunsTail'
    <2>1. UNCHANGED <<write, ailMin, round>> /\ (Shut => Shut')
      BY <1>i DEF vars, heads, ail, Shut, RestOK
    <2> QED BY <2>1, SameOverrun
  <1> QED BY <1>a, <1>b, <1>c, <1>d, <1>e, <1>f, <1>g, <1>h, <1>i DEF Next

----------------------------------------------------------------------------
(* The theorems *)

LEMMA InitBase == Init => Base
  <1> SUFFICES ASSUME Init PROVE Base
    OBVIOUS
  <1> DEFINE p == At(LogSize)
             z == [cycle |-> 0, bytes |-> 0]
  <1>1. p \in Place /\ z \in Place /\ LsnLeq(p, p) /\ LsnLeq(z, p)
    <2>1. LogSize \in Nat /\ p \in Place /\ Pos(p) = LogSize
      BY AtIsPlace, Sizes
    <2>2. z \in Place /\ Pos(z) = 0
      BY Sizes DEF Place, Pos
    <2> HIDE DEF p, z
    <2> QED BY <2>1, <2>2, Order
  <1>2. HeadsOK /\ PlacesOK
    <2>1. /\ reserve = p /\ write = p /\ tail = p /\ lastSync = p /\ ailMin = p /\ target = z /\ movers = {}
      BY DEF Init
    <2> HIDE DEF p, z
    <2> QED BY <1>1, <2>1 DEF HeadsOK, PlacesOK
  <1>3. TicsOK
    <2>1. /\ pc = [t \in Tickets |-> "idle"] /\ curr = [t \in Tickets |-> 0] /\ cnt = [t \in Tickets |-> 0]
      BY DEF Init
    <2>2. \A t \in Tickets : StageAt(t, Shut, "idle", 0, 0)
      BY Sizes DEF StageAt, Stages, Between, Waiting, Asking
    <2>3. "idle" \in Stages
      BY DEF Stages
    <2> QED BY <2>1, <2>2, <2>3 DEF TicsOK
  <1>4. QueuesOK
    BY DEF Init, QueuesOK
  <1>5. RestOK
    <2>1. awake = {} /\ shutdown = 0 /\ head = LogSize /\ round = 0 /\ oops = FALSE
      BY DEF Init
    <2>2. MaxRound \in Nat /\ MaxShutdowns \in Nat /\ LogSize \in Nat
      BY GrantAssumption, Sizes
    <2>3. oops \in BOOLEAN
      BY <2>1, Zenon
    <2>4. awake \subseteq Sleeping /\ shutdown \in 0 .. MaxShutdowns /\ head \in Nat /\ round \in 0 .. MaxRound
      BY <2>1, <2>2
    <2> QED BY <2>3, <2>4 DEF RestOK
  <1> QED BY <1>2, <1>3, <1>4, <1>5 DEF Base

LEMMA BaseStep == Base /\ [Next]_vars => Base'
  <1> SUFFICES ASSUME Base, Next \/ UNCHANGED vars PROVE Base'
    OBVIOUS
  <1>1. TicsOK /\ HeadsOK /\ PlacesOK /\ QueuesOK /\ RestOK
    BY DEF Base
  <1>2. TicsOK'
    BY <1>1, TicsStep
  <1>3. HeadsOK'
    BY <1>1, HeadsStep
  <1>4. PlacesOK'
    BY <1>1, PlacesStep
  <1>5. QueuesOK'
    BY <1>1, QueuesStep
  <1>6. RestOK'
    BY <1>1, RestStep
  <1> QED BY <1>2, <1>3, <1>4, <1>5, <1>6 DEF Base

LEMMA BaseAlways == Spec => []Base
  BY InitBase, BaseStep, PTL DEF Spec

\* Every variable keeps its type, whatever the tickets do.
THEOREM GrantTypes == Spec => []TypeOK
  BY BaseAlways, BaseTypes, PTL

LEMMA InitConserved == Init => SpaceIsConserved
  <1> SUFFICES ASSUME Init PROVE SpaceIsConserved
    OBVIOUS
  <1>1. TicsOK
    BY InitBase DEF Base
  <1>2. \A t \in Tickets : HeldOfReserve[t] = 0 /\ HeldOfWrite[t] = 0
    <2>1. \A t \in Tickets : pc[t] = "idle"
      BY DEF Init
    <2> QED BY <2>1 DEF HeldOfReserve, HeldOfWrite, OfReserve, OfWrite, Between
  <1>3. IsFiniteSet(Tickets)
    BY GrantAssumption
  <1>4. ASSUME NEW f, \A t \in Tickets : f[t] = 0 PROVE Total(f) = 0
    BY <1>3, <1>4, SumOfNone DEF Total
  <1>5. Pos(write) = LogSize /\ Pos(reserve) = LogSize /\ head = LogSize
    BY AtIsPlace, Sizes DEF Init
  <1>6. Total(HeldOfReserve) = 0 /\ Total(HeldOfWrite) = 0
    BY <1>2, <1>4
  <1> QED BY <1>5, <1>6, ConservedIs, Sizes

LEMMA ConservedAlways == Base /\ SpaceIsConserved /\ [Next]_vars => SpaceIsConserved'
  <1> SUFFICES ASSUME Base, SpaceIsConserved, Next \/ UNCHANGED vars PROVE SpaceIsConserved'
    OBVIOUS
  <1>1. TicsOK' /\ TicsOK /\ HeadsOK /\ RestOK
    BY BaseStep DEF Base
  <1> QED BY <1>1, ConservedStep

\* No byte of log space leaks or is given back twice: until a shutdown both grant heads
\* are ahead of the log by exactly what the tickets hold (xlog_grant_add_space,
\* xlog_grant_sub_space and their callers), for any number of tickets.
THEOREM SpaceAccounting == Spec => []SpaceIsConserved
  BY InitConserved, BaseAlways, ConservedAlways, PTL DEF Spec

\* The reserve head is never behind the write head (xlog_verify_grant_head).
THEOREM ReserveIsAhead == Spec => []ReserveCoversWrite
  <1>1. Base /\ SpaceIsConserved => ReserveCoversWrite
    BY CoversFrom DEF Base
  <1> QED BY <1>1, BaseAlways, SpaceAccounting, PTL

\* The head of the log never runs over what the first item of the AIL still needs, except
\* by the roundoff xlog_sync adds, although the tail is updated late and out of order
\* (xlog_grant_log_space, xlog_regrant_write_log_space, xfs_log_move_tail).
THEOREM HeadStaysBehindTail == Spec => []HeadNeverOverrunsTail
  <1>1. Init => HeadNeverOverrunsTail
    <2> SUFFICES ASSUME Init PROVE HeadNeverOverrunsTail
      OBVIOUS
    <2>1. write = ailMin /\ round = 0
      BY DEF Init
    <2>2. Pos(write) \in Int /\ LogSize \in Nat
      BY PosIsInt, Sizes, InitBase DEF Base, HeadsOK
    <2> QED BY <2>1, <2>2 DEF HeadNeverOverrunsTail
  <1>2. Base /\ ReserveCoversWrite /\ HeadNeverOverrunsTail /\ [Next]_vars => HeadNeverOverrunsTail'
    BY OverrunStep DEF Base
  <1> QED BY <1>1, <1>2, BaseAlways, ReserveIsAhead, PTL DEF Spec

\* The AIL is never asked to push past the last record known to be on disk
\* (xlog_grant_push_ail).
THEOREM TargetStaysOnDisk == Spec => []TargetIsOnDisk
  <1>1. Base => TargetIsOnDisk
    BY DEF Base, PlacesOK, TargetIsOnDisk
  <1> QED BY <1>1, BaseAlways, PTL

----------------------------------------------------------------------------
(* The tail of the log: XfsLogTail *)

(* What the order of records, callbacks and tail values has in common in every *)
(* execution: nothing names a record beyond l_last_sync_lsn, and all up to     *)
(* there is on disk.                                                           *)
Ordered ==
  /\ \A n \in Recs : (rec[n] = "open") <=> (n >= filling)
  /\ Durable(syncLsn)
  /\ cb = "callback" => syncLsn + 1 \in Recs /\ rec[syncLsn + 1] = "disk"
  /\ \A t \in Txs : commit[t] # 0 => start[t] <= commit[t]
  /\ \A t \in Txs : start[t] <= filling
  /\ tailLsn <= syncLsn
  /\ \A n \in Recs : hdr[n] <= syncLsn /\ got[n] <= syncLsn
  /\ \A m \in Movers : mt[m] <= syncLsn
  /\ \A i \in Items : li[i] <= syncLsn

Inv == TailTypeOK /\ Ordered

(* While no transaction spans records and the AIL does not run empty: every    *)
(* tail value read anywhere is not beyond any item on the AIL, and an item     *)
(* stays on the AIL, at the lsn of the last transaction that logged it, until  *)
(* it is flushed.                                                              *)
Waits(t) == /\ commit[t] # 0 => commit[t] >= syncLsn
            /\ commit[t] # 0 /\ cb = "callback" => commit[t] >= syncLsn + 1

Listed(t) == /\ li[it[t]] # 0
             /\ \E u \in called : /\ it[u] = it[t] /\ commit[u] = li[it[t]]
                                  /\ commit[t] <= commit[u]

Whole       == \A t \in Txs : start[t] = commit[t]
CalledInLog == \A t \in called : commit[t] # 0 /\ commit[t] <= syncLsn
Pending     == \A t \in Txs \ called : Waits(t)
NotDrained  == \E i \in Items : li[i] # 0
Behind      == \A i \in Items : li[i] # 0 =>
                 /\ tailLsn <= li[i]
                 /\ \A n \in Recs : hdr[n] <= li[i] /\ got[n] <= li[i]
                 /\ \A m \in Movers : mt[m] <= li[i]
NoZeroTail  == /\ \A n \in Recs : rec[n] = "read" => got[n] # 0
               /\ \A m \in Movers : mt[m] # 0
AllListed   == \A t \in called \ inPlace : Listed(t)

Steady == Whole /\ CalledInLog /\ Pending /\ NotDrained /\ Behind /\ NoZeroTail /\ AllListed

----------------------------------------------------------------------------
(* The initial state satisfies the invariant. *)
LEMMA InitInv == TailInit => Inv
  BY TailAssumption DEF TailInit, Inv, TailTypeOK, Ordered, Durable, Recs, Movers, None

(* Every step preserves the invariant: each action changes only a few of the   *)
(* values it bounds.                                                           *)
LEMMA NextInv == Inv /\ [TailNext]_tailVars => Inv'
  <1> SUFFICES ASSUME Inv, [TailNext]_tailVars PROVE Inv'
    OBVIOUS
  <1> USE TailAssumption DEF Inv, TailTypeOK, Ordered, Durable, Recs, Movers, None
  <1>1. ASSUME NEW t \in Txs, NEW i \in Items, Begin(t, i) PROVE Inv'
    <2>1. filling \in Nat /\ filling # 0
      OBVIOUS
    <2>2. PICK c \in {0, filling} : commit' = [commit EXCEPT ![t] = c]
      BY <1>1 DEF Begin
    <2>3. /\ commit' \in [Txs -> Nat] /\ start' \in [Txs -> Nat]
          /\ it' \in [Txs -> Items]
      BY <1>1, <2>1, <2>2 DEF Begin
    <2>4. TailTypeOK'
      BY <1>1, <2>3 DEF Begin, recv
    <2>5. \A u \in Txs : start'[u] <= filling'
      BY <1>1, <2>1 DEF Begin
    <2>6. ASSUME NEW u \in Txs PROVE commit'[u] # 0 => start'[u] <= commit'[u]
      <3>1. CASE u = t
        BY <1>1, <2>1, <2>2, <3>1 DEF Begin
      <3>2. CASE u # t
        BY <1>1, <2>2, <3>2 DEF Begin
      <3> QED
        BY <3>1, <3>2
    <2> QED
      BY <1>1, <2>4, <2>5, <2>6 DEF Begin, recv
  <1>2. ASSUME NEW t \in Txs, CommitRecord(t) PROVE Inv'
    BY <1>2 DEF CommitRecord, recv
  <1>3. CASE Switch
    <2>1. TailTypeOK' /\ Durable(syncLsn)'
      BY <1>3 DEF Switch, txv
    <2>2. \A n \in Recs : (rec'[n] = "open") <=> (n >= filling')
      BY <1>3 DEF Switch, txv
    <2>3. \A t \in Txs : start'[t] <= filling'
      BY <1>3 DEF Switch, txv
    <2>4. cb' = "callback" => syncLsn' + 1 \in Recs /\ rec'[syncLsn' + 1] = "disk"
      BY <1>3 DEF Switch
    <2> QED
      BY <1>3, <2>1, <2>2, <2>3, <2>4 DEF Switch, txv
  <1>4. ASSUME NEW n \in Recs, ReadAil(n) PROVE Inv'
    <2>1. PICK v \in {li[i] : i \in Items} \cup {0} : got' = [got EXCEPT ![n] = v]
      BY <1>4 DEF ReadAil
    <2>2. v \in Nat /\ v <= syncLsn
      BY <2>1
    <2>3. TailTypeOK' /\ \A k \in Recs : hdr'[k] <= syncLsn' /\ got'[k] <= syncLsn'
      BY <1>4, <2>1, <2>2 DEF ReadAil, txv
    <2> QED
      BY <1>4, <2>3 DEF ReadAil, txv
  <1>5. ASSUME NEW n \in Recs, AssignTailLsn(n) PROVE Inv'
    <2>1. tailLsn' \in Nat /\ tailLsn' <= syncLsn
      BY <1>5 DEF AssignTailLsn
    <2>2. TailTypeOK' /\ Durable(syncLsn)'
      BY <1>5, <2>1 DEF AssignTailLsn, txv
    <2> QED
      BY <1>5, <2>1, <2>2 DEF AssignTailLsn, txv
  <1>6. ASSUME NEW n \in Recs, Stamp(n) PROVE Inv'
    BY <1>6 DEF Stamp, txv
  <1>7. ASSUME NEW n \in Recs, Written(n) PROVE Inv'
    BY <1>7 DEF Written, txv
  <1>8. CASE CbStart
    BY <1>8 DEF CbStart, txv, recv
  <1>9. CASE CbLastSync
    <2>1. TailTypeOK' /\ Durable(syncLsn)'
      BY <1>9 DEF CbLastSync, txv, recv
    <2>2. syncLsn \in Nat /\ syncLsn' = syncLsn + 1
      BY <1>9 DEF CbLastSync
    <2>3. tailLsn' <= syncLsn' /\ \A i \in Items : li'[i] <= syncLsn'
      BY <1>9, <2>2 DEF CbLastSync
    <2>4. \A n \in Recs : hdr'[n] <= syncLsn' /\ got'[n] <= syncLsn'
      BY <1>9, <2>2 DEF CbLastSync, recv
    <2>5. \A m \in Movers : mt'[m] <= syncLsn'
      <3> SUFFICES ASSUME NEW m \in Movers PROVE mt[m] <= syncLsn + 1
        BY <1>9, <2>2 DEF CbLastSync
      <3>1. mt[m] \in Int /\ mt[m] <= syncLsn
        OBVIOUS
      <3> QED
        BY <2>2, <3>1
    <2> QED
      BY <1>9, <2>1, <2>3, <2>4, <2>5 DEF CbLastSync, txv, recv
  <1>10. ASSUME NEW t \in Txs, Called(t) PROVE Inv'
    <2>1. /\ li' \in [Items -> Nat]
          /\ \A j \in Items : li'[j] <= syncLsn
      BY <1>10 DEF Called
    <2>2. /\ mt' \in [Movers -> Nat \cup {None}]
          /\ \A m \in Movers : mt'[m] <= syncLsn
      <3>1. CASE UNCHANGED mt
        BY <3>1
      <3>2. CASE \E v \in {li'[j] : j \in Items} : mt' = [mt EXCEPT ![CB] = v]
        BY <3>2, <2>1
      <3> QED
        BY <1>10, <3>1, <3>2 DEF Called
    <2> QED
      BY <1>10, <2>1, <2>2 DEF Called, txv, recv
  <1>11. ASSUME NEW i \in Items, Flushed(i) PROVE Inv'
    <2>1. /\ li' \in [Items -> Nat]
          /\ \A j \in Items : li'[j] <= syncLsn
      BY <1>11 DEF Flushed
    <2>2. /\ mt' \in [Movers -> Nat \cup {None}]
          /\ \A m \in Movers : mt'[m] <= syncLsn
      <3>1. CASE UNCHANGED mt
        BY <3>1
      <3>2. CASE \E v \in {li'[j] : j \in Items} \cup {0} : mt' = [mt EXCEPT ![i] = v]
        BY <3>2, <2>1
      <3> QED
        BY <1>11, <3>1, <3>2 DEF Flushed
    <2> QED
      BY <1>11, <2>1, <2>2 DEF Flushed, txv, recv
  <1>12. ASSUME NEW m \in Movers, MoveTailEmpty(m) PROVE Inv'
    BY <1>12 DEF MoveTailEmpty, txv, recv
  <1>13. ASSUME NEW m \in Movers, MoveTailLsn(m) PROVE Inv'
    <2>1. tailLsn' \in Nat /\ mt' \in [Movers -> Nat \cup {None}]
      BY <1>13 DEF MoveTailLsn
    <2>2. tailLsn' <= syncLsn /\ \A k \in Movers : mt'[k] <= syncLsn
      BY <1>13 DEF MoveTailLsn
    <2> QED
      BY <1>13, <2>1, <2>2 DEF MoveTailLsn, txv, recv
  <1>14. CASE UNCHANGED tailVars
    BY <1>14 DEF tailVars, txv, recv
  <1> QED
    BY <1>1, <1>2, <1>3, <1>4, <1>5, <1>6, <1>7, <1>8, <1>9, <1>10, <1>11, <1>12,
       <1>13, <1>14 DEF TailNext

(* The type invariant and the order hold in every execution. *)
LEMMA Invariance == TailSpec => []Inv
  BY InitInv, NextInv, PTL DEF TailSpec

(* The type invariant of the tail's state: l_tail_lsn, the stamped h_tail_lsn   *)
(* and the pending arguments of xfs_log_move_tail are always lsns, and the      *)
(* callbacks never get ahead of the records.                                    *)
THEOREM TypeInvariant == TailSpec => []TailTypeOK
  BY Invariance, PTL DEF Inv

(* The tail is on disk, whatever transactions span and however the AIL drains:  *)
(* xlog_assign_tail_lsn and xfs_log_move_tail never take a value from a record  *)
(* whose callbacks have not begun.                                              *)
THEOREM TailOnDisk == TailSpec => []TailIsOnDisk
  <1>1. Inv => TailIsOnDisk
    BY TailAssumption DEF Inv, TailTypeOK, Ordered, TailIsOnDisk, Durable, Recs
  <1> QED
    BY <1>1, Invariance, PTL

----------------------------------------------------------------------------
(* The steady log: every transaction in one record, the AIL never empty. *)

(* The conditions hold of a mounted filesystem whose AIL has one item. *)
LEMMA InitSteady == TailInit => Steady
  BY TailAssumption DEF TailInit, Steady, Whole, CalledInLog, Pending, Waits, NotDrained,
     Behind, NoZeroTail, AllListed, Recs, Movers, None

(* They are preserved: the smallest lsn on the AIL only grows, so a tail value  *)
(* that was read earlier stays behind every item, and an item leaves the AIL   *)
(* only when the changes logged for it are in their place.                     *)
LEMMA NextSteady ==
  ASSUME ~MaySpan, ~MayDrain, Inv, Steady, [TailNext]_tailVars
  PROVE  Steady'
  <1> USE TailAssumption DEF Inv, TailTypeOK, Recs, Movers, None
  <1>1. ASSUME NEW t \in Txs, NEW i \in Items, Begin(t, i) PROVE Steady'
    <2>1. /\ commit' = [commit EXCEPT ![t] = filling] /\ start' = [start EXCEPT ![t] = filling]
          /\ commit[t] = 0 /\ filling \in Nat \ {0}
      BY <1>1 DEF Begin, Steady, Whole
    <2>2. /\ t \notin called /\ \A u \in Txs \ {t} : commit'[u] = commit[u]
          /\ \A u \in Txs \ {t} : it'[u] = it[u]
      BY <1>1, <2>1 DEF Begin, Steady, CalledInLog
    <2>3. Whole'
      BY <2>1 DEF Steady, Whole
    <2>4. CalledInLog' /\ NotDrained' /\ Behind' /\ NoZeroTail'
      BY <1>1, <2>2 DEF Begin, recv, Steady, CalledInLog, NotDrained, Behind, NoZeroTail
    <2>5. filling > syncLsn /\ (cb = "callback" => filling > syncLsn + 1)
      BY <1>1 DEF Begin, Ordered, Durable
    <2>6. Pending'
      BY <1>1, <2>1, <2>2, <2>5 DEF Begin, Steady, Pending, Waits
    <2>7. AllListed'
      <3> SUFFICES ASSUME NEW u \in called \ inPlace PROVE Listed(u)'
        BY <1>1 DEF Begin, AllListed
      <3>1. PICK w \in called : it[w] = it[u] /\ commit[w] = li[it[u]] /\ commit[u] <= commit[w]
        BY DEF Steady, AllListed, Listed
      <3>2. /\ it'[u] = it[u] /\ commit'[u] = commit[u] /\ it'[w] = it[w]
            /\ commit'[w] = commit[w] /\ li' = li /\ called' = called
        BY <1>1, <2>2 DEF Begin
      <3>3. li[it[u]] # 0
        BY DEF Steady, AllListed, Listed
      <3> QED
        BY <3>1, <3>2, <3>3 DEF Listed
    <2> QED
      BY <2>3, <2>4, <2>6, <2>7 DEF Steady
  <1>2. ASSUME NEW t \in Txs, CommitRecord(t) PROVE Steady'
    BY <1>2 DEF CommitRecord, Steady, Whole
  <1>3. CASE Switch
    <2>1. Whole' /\ CalledInLog' /\ Pending' /\ NotDrained' /\ Behind' /\ AllListed'
      BY <1>3 DEF Switch, txv, Steady, Whole, CalledInLog, Pending, Waits, NotDrained,
         Behind, AllListed, Listed
    <2>2. NoZeroTail'
      BY <1>3 DEF Switch, Steady, NoZeroTail
    <2> QED
      BY <2>1, <2>2 DEF Steady
  <1>4. ASSUME NEW n \in Recs, ReadAil(n) PROVE Steady'
    <2>1. Whole' /\ CalledInLog' /\ Pending' /\ NotDrained' /\ AllListed'
      BY <1>4 DEF ReadAil, txv, Steady, Whole, CalledInLog, Pending, Waits, NotDrained,
         AllListed, Listed
    <2>2. PICK v : IsMin(li, v) /\ got' = [got EXCEPT ![n] = v]
      BY <1>4 DEF ReadAil
    <2>3. v # 0 /\ v \in Nat /\ \A i \in Items : li[i] # 0 => v <= li[i]
      BY <2>2 DEF IsMin, Steady, NotDrained
    <2>4. \A k \in Recs : got'[k] = IF k = n THEN v ELSE got[k]
      BY <2>2
    <2>5. NoZeroTail'
      BY <1>4, <2>3, <2>4 DEF ReadAil, Steady, NoZeroTail
    <2>6. Behind'
      BY <1>4, <2>3, <2>4 DEF ReadAil, Steady, Behind
    <2> QED
      BY <2>1, <2>5, <2>6 DEF Steady
  <1>5. ASSUME NEW n \in Recs, AssignTailLsn(n) PROVE Steady'
    <2>1. Whole' /\ CalledInLog' /\ Pending' /\ NotDrained' /\ AllListed'
      BY <1>5 DEF AssignTailLsn, txv, Steady, Whole, CalledInLog, Pending, Waits, NotDrained,
         AllListed, Listed
    <2>2. tailLsn' = got[n]
      BY <1>5 DEF AssignTailLsn, Steady, NoZeroTail
    <2>3. Behind' /\ NoZeroTail'
      BY <1>5, <2>2 DEF AssignTailLsn, Steady, Behind, NoZeroTail
    <2> QED
      BY <2>1, <2>3 DEF Steady
  <1>6. ASSUME NEW n \in Recs, Stamp(n) PROVE Steady'
    <2>1. Whole' /\ CalledInLog' /\ Pending' /\ NotDrained' /\ AllListed'
      BY <1>6 DEF Stamp, txv, Steady, Whole, CalledInLog, Pending, Waits, NotDrained,
         AllListed, Listed
    <2>2. Behind' /\ NoZeroTail'
      BY <1>6 DEF Stamp, Steady, Behind, NoZeroTail
    <2> QED
      BY <2>1, <2>2 DEF Steady
  <1>7. ASSUME NEW n \in Recs, Written(n) PROVE Steady'
    <2>1. Whole' /\ CalledInLog' /\ Pending' /\ NotDrained' /\ Behind' /\ AllListed'
      BY <1>7 DEF Written, txv, Steady, Whole, CalledInLog, Pending, Waits, NotDrained,
         Behind, AllListed, Listed
    <2>2. NoZeroTail'
      BY <1>7 DEF Written, Steady, NoZeroTail
    <2> QED
      BY <2>1, <2>2 DEF Steady
  <1>8. CASE CbStart
    <2>1. Whole' /\ CalledInLog' /\ NotDrained' /\ Behind' /\ NoZeroTail' /\ AllListed'
      BY <1>8 DEF CbStart, txv, recv, Steady, Whole, CalledInLog, NotDrained,
         Behind, NoZeroTail, AllListed, Listed
    <2>2. Pending'
      BY <1>8 DEF CbStart, txv, Steady, Pending, Waits
    <2> QED
      BY <2>1, <2>2 DEF Steady
  <1>9. CASE CbLastSync
    <2>1. Whole' /\ NotDrained' /\ Behind' /\ NoZeroTail' /\ AllListed'
      BY <1>9 DEF CbLastSync, txv, recv, Steady, Whole, NotDrained,
         Behind, NoZeroTail, AllListed, Listed
    <2>2. CalledInLog' /\ Pending'
      BY <1>9 DEF CbLastSync, txv, Steady, CalledInLog, Pending, Waits
    <2> QED
      BY <2>1, <2>2 DEF Steady
  <1>10. ASSUME NEW t \in Txs, Called(t) PROVE Steady'
    <2>1. /\ it[t] \in Items /\ start[t] = syncLsn /\ commit[t] = syncLsn
          /\ syncLsn \in Nat \ {0}
      BY <1>10 DEF Called, Steady, Whole
    <2>2. /\ li'[it[t]] = syncLsn /\ \A j \in Items \ {it[t]} : li'[j] = li[j]
          /\ li' \in [Items -> Nat]
      BY <1>10, <2>1 DEF Called, Ordered
    <2>3. Whole' /\ CalledInLog' /\ Pending'
      BY <1>10, <2>1 DEF Called, txv, Steady, Whole, CalledInLog, Pending, Waits
    <2>4. NotDrained'
      BY <2>1, <2>2 DEF NotDrained
    <2>5. \/ mt' = mt
          \/ \E v : /\ v # 0 /\ v \in Nat /\ mt' = [mt EXCEPT ![CB] = v]
                    /\ \A j \in Items : li'[j] # 0 => v <= li'[j]
      <3>1. CASE mt' = mt
        BY <3>1
      <3>2. CASE \E v : v # 0 /\ IsMin(li', v) /\ mt' = [mt EXCEPT ![CB] = v]
        <4>1. PICK v : v # 0 /\ IsMin(li', v) /\ mt' = [mt EXCEPT ![CB] = v]
          BY <3>2
        <4>2. v \in Nat /\ \A j \in Items : li'[j] # 0 => v <= li'[j]
          BY <2>2, <4>1 DEF IsMin
        <4> QED
          BY <4>1, <4>2
      <3> QED
        BY <1>10, <3>1, <3>2 DEF Called
    <2>6. NoZeroTail'
      BY <1>10, <2>5 DEF Called, recv, Steady, NoZeroTail
    <2>7. ASSUME NEW j \in Items, li'[j] # 0
          PROVE  /\ tailLsn <= li'[j] /\ \A n \in Recs : hdr[n] <= li'[j] /\ got[n] <= li'[j]
                 /\ \A m \in Movers : mt[m] <= li'[j]
      <3>1. CASE j = it[t]
        BY <2>2, <3>1 DEF Ordered
      <3>2. CASE j # it[t]
        BY <2>2, <2>7, <3>2 DEF Steady, Behind
      <3> QED
        BY <3>1, <3>2
    <2>8. Behind'
      BY <1>10, <2>5, <2>7 DEF Called, recv, Behind
    <2>9. ASSUME NEW u \in called' \ inPlace' PROVE Listed(u)'
      <3>1. called' = called \cup {t} /\ it' = it /\ commit' = commit /\ inPlace' = inPlace
        BY <1>10 DEF Called, txv
      <3>2. CASE it[u] = it[t]
        <4>1. commit[u] <= syncLsn
          BY <2>1, <2>9, <3>1 DEF Steady, CalledInLog
        <4> QED
          BY <2>1, <2>2, <3>1, <3>2, <4>1 DEF Listed
      <3>3. CASE it[u] # it[t]
        BY <2>2, <2>9, <3>1, <3>3 DEF Steady, AllListed, Listed
      <3> QED
        BY <3>2, <3>3
    <2>10. AllListed'
      BY <2>9 DEF AllListed
    <2> QED
      BY <2>3, <2>4, <2>6, <2>8, <2>10 DEF Steady
  <1>11. ASSUME NEW i \in Items, Flushed(i) PROVE Steady'
    <2>1. li' = [li EXCEPT ![i] = 0] /\ li' \in [Items -> Nat]
      BY <1>11 DEF Flushed
    <2>2. PICK k \in Items : k # i /\ li[k] # 0
      BY <1>11 DEF Flushed, Ail
    <2>3. NotDrained'
      BY <2>1, <2>2 DEF NotDrained
    <2>4. Whole' /\ CalledInLog' /\ Pending'
      BY <1>11 DEF Flushed, txv, Steady, Whole, CalledInLog, Pending, Waits
    <2>5. \/ mt' = mt
          \/ \E v : /\ v # 0 /\ v \in Nat /\ mt' = [mt EXCEPT ![i] = v]
                    /\ \A j \in Items : li'[j] # 0 => v <= li'[j]
      BY <1>11, <2>1, <2>2 DEF Flushed, IsMin
    <2>6. NoZeroTail'
      BY <1>11, <2>5 DEF Flushed, recv, Steady, NoZeroTail
    <2>7. Behind'
      <3> SUFFICES ASSUME NEW j \in Items, li'[j] # 0
                   PROVE  /\ tailLsn <= li[j]
                          /\ \A n \in Recs : hdr[n] <= li[j] /\ got[n] <= li[j]
                          /\ \A m \in Movers : mt'[m] <= li[j]
        BY <1>11, <2>1 DEF Flushed, recv, Behind
      <3>1. li'[j] = li[j]
        BY <2>1
      <3>2. /\ tailLsn <= li[j] /\ \A n \in Recs : hdr[n] <= li[j] /\ got[n] <= li[j]
            /\ \A m \in Movers : mt[m] <= li[j]
        BY <3>1 DEF Steady, Behind
      <3> QED
        BY <2>5, <3>1, <3>2
    <2>8. AllListed'
      BY <1>11, <2>1 DEF Flushed, txv, Steady, AllListed, Listed
    <2> QED
      BY <2>3, <2>4, <2>6, <2>7, <2>8 DEF Steady
  <1>12. ASSUME NEW m \in Movers, MoveTailEmpty(m) PROVE Steady'
    BY <1>12 DEF MoveTailEmpty, Steady, NoZeroTail
  <1>13. ASSUME NEW m \in Movers, MoveTailLsn(m) PROVE Steady'
    <2>1. Whole' /\ CalledInLog' /\ Pending' /\ NotDrained' /\ AllListed'
      BY <1>13 DEF MoveTailLsn, txv, Steady, Whole, CalledInLog, Pending, Waits, NotDrained,
         AllListed, Listed
    <2>2. Behind' /\ NoZeroTail'
      BY <1>13 DEF MoveTailLsn, recv, Steady, Behind, NoZeroTail
    <2> QED
      BY <2>1, <2>2 DEF Steady
  <1>14. CASE UNCHANGED tailVars
    BY <1>14 DEF tailVars, txv, recv, Steady, Whole, CalledInLog, Pending, Waits, NotDrained,
       Behind, NoZeroTail, AllListed, Listed
  <1> QED
    BY <1>1, <1>2, <1>3, <1>4, <1>5, <1>6, <1>7, <1>8, <1>9, <1>10, <1>11, <1>12,
       <1>13, <1>14 DEF TailNext

(* Together with the order of the records they hold in every execution. *)
LEMMA SteadyInvariance == ~MaySpan /\ ~MayDrain => (TailSpec => [](Inv /\ Steady))
  <1> SUFFICES ASSUME ~MaySpan, ~MayDrain PROVE TailSpec => [](Inv /\ Steady)
    OBVIOUS
  <1>1. TailInit => Inv /\ Steady
    BY InitInv, InitSteady
  <1>2. Inv /\ Steady /\ [TailNext]_tailVars => (Inv /\ Steady)'
    BY NextInv, NextSteady
  <1> QED
    BY <1>1, <1>2, PTL DEF TailSpec

(* While no transaction spans log records and the AIL does not run empty, the  *)
(* space behind l_tail_lsn holds nothing that has still to be flushed, however *)
(* the callers of xfs_log_move_tail and xlog_assign_tail_lsn interleave.       *)
THEOREM SteadyTail == ~MaySpan /\ ~MayDrain => (TailSpec => []TailNotPastTheAil)
  <1>1. Inv /\ Steady => TailNotPastTheAil
    BY DEF Inv, TailTypeOK, Steady, Behind, TailNotPastTheAil, Ail
  <1> QED
    BY <1>1, SteadyInvariance, PTL

(* Under the same conditions recovery, started from the tail in the last whole *)
(* record, replays every committed change that is not in its place: a          *)
(* transaction not yet called back is at or after l_last_sync_lsn, and one     *)
(* that is has its item on the AIL, at or after every tail ever stamped.       *)
THEOREM SteadyRecovery == ~MaySpan /\ ~MayDrain => (TailSpec => []RecoveryFindsAll)
  <1>1. Inv /\ Steady => RecoveryFindsAll
    <2> SUFFICES ASSUME Inv, Steady, NEW n \in Recs,
                        Durable(n), n + 1 \in Recs => rec[n + 1] # "disk",
                        NEW t \in Txs \ inPlace, commit[t] \in 1 .. n
                 PROVE  \E u \in Txs : /\ it[u] = it[t] /\ commit[t] <= commit[u]
                                       /\ commit[u] <= n /\ hdr[n] <= start[u]
      BY DEF RecoveryFindsAll
    <2> USE TailAssumption DEF Inv, TailTypeOK, Recs
    <2>1. syncLsn <= n /\ hdr[n] <= syncLsn
      BY DEF Ordered, Durable
    <2>2. CASE t \notin called
      <3>1. commit[t] >= syncLsn /\ start[t] = commit[t] /\ commit[t] \in Nat
        BY <2>2 DEF Steady, Pending, Waits, Whole
      <3>2. hdr[n] <= start[t] /\ commit[t] <= n
        BY <2>1, <3>1
      <3> QED
        BY <3>1, <3>2
    <2>3. CASE t \in called
      <3>1. Listed(t)
        BY <2>3 DEF Steady, AllListed
      <3>2. PICK u \in called : /\ it[u] = it[t] /\ commit[u] = li[it[t]]
                                /\ commit[t] <= commit[u]
        BY <3>1 DEF Listed
      <3>3. commit[u] <= syncLsn /\ hdr[n] <= commit[u]
        BY <3>1, <3>2 DEF Listed, Steady, CalledInLog, Behind
      <3> QED
        BY <2>1, <3>2, <3>3 DEF Steady, Whole
    <2> QED
      BY <2>2, <2>3
  <1> QED
    BY <1>1, SteadyInvariance, PTL
=============================================================================
