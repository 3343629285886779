---------------------------- MODULE XfsIclogProofs ----------------------------
(***************************************************************************)
(* Proofs about XfsIclog.                                                  *)
(*                                                                         *)
(* The shapes of its variables and who runs what: Base, the shapes         *)
(* together with what a thread's place in the code says of it, is          *)
(* inductive by itself, nothing in it depends on the order of the ring.    *)
(* Scan, the loop of xlog_state_do_callback over the ring, is recursive,   *)
(* so what it does is shown here once, by induction on its length, and     *)
(* used as ScanEffect after that.                                          *)
(*                                                                         *)
(* The ring: while the log lives the iclogs lie on the ring in the order   *)
(* of their records, and each record is written once; when the log is dead *)
(* all iclogs are. From Core, which says so and is inductive on top of     *)
(* Base, follow the type invariant and the soundness of l_last_sync_lsn.   *)
(*                                                                         *)
(* Commit callbacks: each is in one place and so runs once; while the log  *)
(* lives they wait in the order of the records, so that XfsIclog           *)
(* implements XfsLogOrder step by step; and what a log force was told      *)
(* stays true until it returns.                                            *)
(***************************************************************************)
EXTENDS XfsIclog, SequencesExt, TLAPS, FiniteSetTheorems, WellFoundedInduction, SequenceTheorems

Held == {"finish", "wantsync", "notify", "release"}
InLoop == {"lastsync", "cbgrab", "cbrun"}
Loose == {"ACTIVE", "DIRTY"}

\* where a thread can be
Places == Held \cup InLoop \cup
  {"idle", "space", "flushwait", "released", "sync", "eio", "donesync", "cbstart", "syncall",
   "syncone", "writewait", "forcewait", "ok", "dead"}

----------------------------------------------------------------------------
(* Every non-empty set of natural numbers has a least element, and every       *)
(* bounded one a greatest.                                                     *)
LEMMA MinExists ==
  ASSUME NEW S, S \subseteq Nat, S # {}
  PROVE  Min(S) \in S /\ \A y \in S : Min(S) <= y
  <1> DEFINE R == OpToRel(<, Nat)
  <1>1. IsWellFoundedOn(R, Nat)
    BY NatLessThanWellFounded
  <1>2. \E x \in S : \A y \in S : <<y, x>> \notin R
    <2> HIDE DEF R
    <2> QED BY <1>1, WFMin
  <1>3. \E x \in S : \A y \in S : x <= y
    <2>1. R = {ss \in Nat \X Nat : ss[1] < ss[2]}
      BY Zenon DEF OpToRel
    <2>2. ASSUME NEW x \in S, NEW y \in S, <<y, x>> \notin R PROVE x <= y
      <3> HIDE DEF R
      <3> QED BY <2>1, <2>2, SMT
    <2> HIDE DEF R
    <2> QED BY <1>2, <2>2
  <1> QED BY <1>3 DEF Min

\* A bounded set of naturals that is not empty has a maximum.
LEMMA MaxExists ==
  ASSUME NEW S, S \subseteq Nat, S # {}, NEW b \in Nat, \A y \in S : y <= b
  PROVE  Max(S) \in S /\ \A y \in S : Max(S) >= y
  <1> DEFINE T == {x \in 0 .. b : b - x \in S}
  <1>1. PICK y \in S : TRUE
    OBVIOUS
  <1>2. b - y \in 0 .. b /\ b - (b - y) = y /\ y \in Nat
    BY <1>1
  <1>3. b - y \in T
    OBVIOUS
  <1>4. T \subseteq Nat /\ T # {}
    <2>1. T \subseteq 0 .. b /\ 0 .. b \subseteq Nat
      OBVIOUS
    <2> HIDE DEF T
    <2> QED BY <1>3, <2>1
  <1>5. Min(T) \in T /\ \A x \in T : Min(T) <= x
    <2> HIDE DEF T
    <2> QED BY <1>4, MinExists
  <1>6. \A z \in S : b - z \in T
    <2> SUFFICES ASSUME NEW z \in S PROVE b - z \in T
      OBVIOUS
    <2>1. z \in Nat /\ z <= b
      OBVIOUS
    <2>2. b - (b - z) = z /\ b - z \in 0 .. b
      OBVIOUS
    <2> QED OBVIOUS
  <1>7. b - Min(T) \in S /\ \A z \in S : b - Min(T) >= z
    <2>1. b - Min(T) \in S /\ Min(T) \in 0 .. b
      BY <1>5
    <2>2. ASSUME NEW z \in S PROVE b - Min(T) >= z
      <3>1. Min(T) <= b - z /\ z \in Nat
        BY <1>5
      <3> HIDE DEF T
      <3> QED BY <3>1, <2>1
    <2> QED BY <2>1, <2>2
  <1>8. \E m \in S : \A z \in S : m >= z
    BY <1>7
  <1> QED BY <1>8 DEF Max

\* The ring has at least two iclogs: neighbours differ.
LEMMA SuccIs ==
  ASSUME NEW i \in Iclogs
  PROVE  Succ(i) \in Iclogs /\ Succ(i) # i /\ Pred(i) \in Iclogs
  BY IclogAssumption DEF Succ, Pred, Iclogs

\* Positions on the ring are iclogs.
LEMMA ModIsIclog == \A i \in Nat : i % N \in Iclogs
  BY IclogAssumption DEF Iclogs

----------------------------------------------------------------------------
Ctx == [cur : Iclogs \cup {None}, left : Nat, err : BOOLEAN, ab : BOOLEAN,
        ci : Iclogs \cup {None}, got : Seq(Txs), then : {"idle", "eio", "donesync", "dead"}]

RingShape ==
  /\ st \in [Iclogs -> States] /\ lsn \in [Iclogs -> Nat]
  /\ off \in [Iclogs -> 0 .. Cap] /\ ref \in [Iclogs -> Int] /\ bw \in [Iclogs -> Int]
  /\ head \in Iclogs /\ curr \in Nat \ {0}
DiskShape ==
  /\ flying \in [Iclogs -> 0 .. 2] /\ torn \subseteq Iclogs /\ disk \subseteq Nat
  /\ lastSync \in Nat /\ shut \in BOOLEAN
CallShape ==
  /\ cbs \in [Iclogs -> Seq(Txs)]
  /\ called \in Seq([tx : Txs, ab : BOOLEAN])
ThreadShape ==
  /\ pc \in [Procs -> Places] /\ awake \subseteq Procs
  /\ ic \in [Procs -> Iclogs \cup {None}]
CtxShape == ctx \in [Procs -> Ctx]
TxShape ==
  /\ left \in [Txs -> Nat] /\ clsn \in [Txs -> Nat]
  /\ phase \in [Txs -> {"none", "data", "commit", "notified", "uncommitted"}]
ForceShape ==
  /\ want \in [Syncers -> Nat] /\ goal \in [Syncers -> Nat] /\ seen \in [Syncers -> Nat]
  /\ sync \in [Syncers -> BOOLEAN] /\ slept \in [Syncers -> BOOLEAN]
Shape == RingShape /\ DiskShape /\ CallShape /\ ThreadShape /\ CtxShape /\ TxShape /\ ForceShape

\* what a scan that starts from the iclog states s does: it marks finished iclogs,
Marked(s, S) ==
  /\ S \in [Iclogs -> States]
  /\ \A i \in Iclogs : S[i] = s[i] \/ (s[i] = "DONE_SYNC" /\ S[i] = "DO_CALLBACK")

\* then stops at an iclog whose callbacks are due, no older one being busy
Stops(S, l, r) ==
  /\ r.at \in Iclogs /\ r.left \in Nat
  /\ \/ S[r.at] = "IOERROR" /\ r.st = S
     \/ /\ S[r.at] \in {"DONE_SYNC", "DO_CALLBACK"} /\ r.st = [S EXCEPT ![r.at] = "CALLBACK"]
        /\ \A i \in Iclogs : S[i] \notin Loose => l[r.at] <= l[i]

\* or finds none
Scanned(s, l, r) ==
  \E S : Marked(s, S) /\ (Stops(S, l, r) \/ (r.at = None /\ r.st = S))

\* An iclog the scan does not pass over is the oldest of those that are busy.
LEMMA Unskipped ==
  ASSUME NEW s \in [Iclogs -> States], NEW l \in [Iclogs -> Nat], NEW j \in Iclogs,
         ~Skipped(s, l, j), s[j] \in {"DONE_SYNC", "DO_CALLBACK"}
  PROVE  \A i \in Iclogs : s[i] \notin Loose => l[j] <= l[i]
  <1> DEFINE B == {l[i] : i \in {k \in Iclogs : s[k] \notin {"ACTIVE", "DIRTY"}}}
  <1>1. l[j] \in B /\ B \subseteq Nat
    OBVIOUS
  <1>2. Min(B) \in Nat /\ \A y \in B : Min(B) <= y
    <2> HIDE DEF B
    <2> QED BY <1>1, MinExists
  <1>3. ~(Min(B) < l[j])
    BY DEF Skipped, LowestLsn
  <1>4. ASSUME NEW i \in Iclogs, s[i] \notin Loose PROVE l[j] <= l[i]
    <2>1. l[i] \in B
      BY <1>4 DEF Loose
    <2>2. Min(B) <= l[i] /\ l[i] \in Nat /\ l[j] \in Nat
      BY <1>2, <2>1
    <2> HIDE DEF B
    <2> QED BY <1>2, <1>3, <2>2
  <1> QED BY <1>4

\* The position Found gives is one of a pass, and its iclog is not passed over.
LEMMA FoundIs ==
  ASSUME NEW s \in [Iclogs -> States], NEW l \in [Iclogs -> Nat], NEW c \in Iclogs,
         NEW n \in Nat, Found(s, l, c, n) # {}
  PROVE  /\ Min(Found(s, l, c, n)) \in 0 .. n - 1
         /\ (c + Min(Found(s, l, c, n))) % N \in Iclogs
         /\ ~Skipped(s, l, (c + Min(Found(s, l, c, n))) % N)
  <1>1. Found(s, l, c, n) \subseteq Nat
    BY DEF Found
  <1>2. Min(Found(s, l, c, n)) \in Found(s, l, c, n)
    BY <1>1, MinExists
  <1>3. /\ Min(Found(s, l, c, n)) \in 0 .. n - 1
        /\ ~Skipped(s, l, (c + Min(Found(s, l, c, n))) % N)
    BY <1>2 DEF Found
  <1> QED BY <1>3, ModIsIclog DEF Iclogs

\* All a scan of xlog_state_do_callback does: mark, then stop or find nothing.
LEMMA ScanEffect ==
  ASSUME NEW ci \in Iclogs \cup {None}, NEW s \in [Iclogs -> States], NEW l \in [Iclogs -> Nat],
         NEW c \in Iclogs, NEW n \in Nat, NEW did, NEW err, head \in Iclogs
  PROVE  Scanned(s, l, Scan(ci, s, l, c, n, did, err))
  <1> DEFINE Stop(F, b) == IF F = {} THEN None ELSE (b + Min(F)) % N
             j1 == Stop(Found(s, l, c, n), c)
             Ready(S, j) == j # None /\ S[j] \in {"DONE_SYNC", "DO_CALLBACK", "IOERROR"}
             Mark(S, j) == IF j # None /\ ~Ready(S, j) /\ ci # None /\ S[ci] = "DONE_SYNC"
                             THEN [S EXCEPT ![ci] = "DO_CALLBACK"] ELSE S
             s1 == Mark(s, j1)
             again == ~Ready(s, j1) /\ Again(did, err)
             j == IF again THEN Stop(Found(s1, l, head, N), head) ELSE j1
             s2 == IF again THEN Mark(s1, j) ELSE s1
             k == IF again THEN Min(Found(s1, l, head, N)) ELSE Min(Found(s, l, c, n))
             r == Scan(ci, s, l, c, n, did, err)
  <1> SUFFICES Scanned(s, l, r)
    OBVIOUS
  <1>1. ASSUME NEW S \in [Iclogs -> States], NEW i PROVE Marked(S, Mark(S, i))
    BY DEF Marked, States
  <1>0. ASSUME NEW S \in [Iclogs -> States], NEW i \in Iclogs, Ready(Mark(S, i), i)
        PROVE  Mark(S, i) = S
    <2> SUFFICES ASSUME ~Ready(S, i), ci # None, S[ci] = "DONE_SYNC", i # None
                 PROVE  FALSE
      OBVIOUS
    <2>2. ci # i /\ Mark(S, i) = [S EXCEPT ![ci] = "DO_CALLBACK"]
      OBVIOUS
    <2>3. Mark(S, i)[i] = S[i]
      OBVIOUS
    <2> HIDE DEF Mark
    <2> QED BY <1>0, <2>3
  <1>2. s1 \in [Iclogs -> States] /\ Marked(s, s1)
    <2>1. Marked(s, s1)
      BY <1>1
    <2> QED BY <2>1 DEF Marked
  <1>3. s2 \in [Iclogs -> States] /\ Marked(s, s2)
    <2>1. Marked(s1, Mark(s1, j))
      <3> HIDE DEF Mark, s1, j
      <3> QED BY <1>1, <1>2
    <2>2. CASE again
      <3>1. s2 = Mark(s1, j)
        BY <2>2
      <3> HIDE DEF Mark, s1, j, s2
      <3> QED BY <1>2, <2>1, <3>1 DEF Marked
    <2>3. CASE ~again
      <3>1. s2 = s1
        BY <2>3
      <3> HIDE DEF s1, s2
      <3> QED BY <1>2, <3>1
    <2> QED BY <2>2, <2>3
  <1>4. CASE ~Ready(s2, j)
    <2>1. r.st = s2 /\ r.at = None
      BY <1>4, Zenon DEF Scan
    <2> HIDE DEF s2, r
    <2> QED BY <1>3, <2>1 DEF Scanned
  <1>5. CASE Ready(s2, j)
    <2>1. /\ j \in Iclogs /\ (s2[j] # "IOERROR" => ~Skipped(s2, l, j))
          /\ (IF again THEN N ELSE n) - k - 1 \in Nat
      <3>1. CASE again
        <4>1. Found(s1, l, head, N) # {}
          BY <1>5, <3>1
        <4>3. N \in Nat
          BY IclogAssumption
        <4>4. j = (head + Min(Found(s1, l, head, N))) % N /\ k = Min(Found(s1, l, head, N))
          BY <3>1, <4>1
        <4>6. s2 = Mark(s1, j)
          BY <3>1
        <4>7. j \in Iclogs
          <5> HIDE DEF s1, j
          <5> QED BY <1>2, <4>1, <4>3, <4>4, FoundIs
        <4>2. s2 = s1
          <5>1. Ready(s2, j)
            BY <1>5
          <5> HIDE DEF s1, j, s2, Mark, Ready
          <5> QED BY <1>0, <1>2, <4>6, <4>7, <5>1
        <4> HIDE DEF s1, s2, j, k
        <4>5. k \in 0 .. N - 1 /\ j \in Iclogs /\ ~Skipped(s2, l, j)
          BY <1>2, <4>1, <4>2, <4>3, <4>4, FoundIs
        <4> HIDE DEF again
        <4> QED BY <3>1, <4>3, <4>5
      <3>2. CASE ~again
        <4>1. Found(s, l, c, n) # {}
          BY <1>5, <3>2
        <4>4. j = (c + Min(Found(s, l, c, n))) % N /\ k = Min(Found(s, l, c, n))
          BY <3>2, <4>1
        <4>6. s2 = Mark(s, j)
          BY <3>2
        <4>7. j \in Iclogs
          <5> HIDE DEF j
          <5> QED BY <4>1, <4>4, FoundIs
        <4>2. s2 = s
          <5>1. Ready(s2, j)
            BY <1>5
          <5> HIDE DEF j, s2, Mark, Ready
          <5> QED BY <1>0, <4>6, <4>7, <5>1
        <4> HIDE DEF s1, s2, j, k
        <4>5. k \in 0 .. n - 1 /\ j \in Iclogs /\ ~Skipped(s2, l, j)
          BY <4>1, <4>2, <4>4, FoundIs
        <4> HIDE DEF again
        <4> QED BY <3>2, <4>5
      <3> QED BY <3>1, <3>2
    <2>2. r = [st |-> IF s2[j] = "IOERROR" THEN s2 ELSE [s2 EXCEPT ![j] = "CALLBACK"],
               at |-> j, left |-> (IF again THEN N ELSE n) - k - 1]
      BY <1>5, Zenon DEF Scan
    <2>3. s2[j] \in {"DONE_SYNC", "DO_CALLBACK", "IOERROR"}
      BY <1>5
    <2>4. s2[j] # "IOERROR" => \A i \in Iclogs : s2[i] \notin Loose => l[j] <= l[i]
      <3> HIDE DEF s2, j
      <3> QED BY <1>3, <2>1, <2>3, Unskipped
    <2>5. Stops(s2, l, r)
      <3> DEFINE m == (IF again THEN N ELSE n) - k - 1
      <3> HIDE DEF s2, j, k, again, r, m
      <3> QED BY <2>1, <2>2, <2>3, <2>4 DEF Stops
    <2> HIDE DEF s2, j, r
    <2> QED BY <1>3, <2>5 DEF Scanned
  <1> QED BY <1>4, <1>5

Threads ==
  /\ \A p \in Procs : pc[p] \in Held \cup {"released", "sync", "donesync", "forcewait"} =>
                        ic[p] \in Iclogs
  /\ \A p \in Procs : pc[p] \in InLoop => ctx[p].cur \in Iclogs
  /\ \A p \in Procs : pc[p] = "cbrun" => ctx[p].got # <<>>
  /\ \A p \in Procs : ctx[p].then = "donesync" => p \in Cpus /\ Dead /\ ic[p] \in Iclogs

AllDead ==
  /\ \A i, j \in Iclogs : st[i] = "IOERROR" => st[j] = "IOERROR"
  /\ \A p \in Procs : ctx[p].ab => Dead
  /\ \A k \in DOMAIN called : called[k].ab => Dead
  /\ torn # {} => Dead

TxOK ==
  \A t \in Txs :
    /\ pc[t] \in {"space", "flushwait"} => phase[t] \in {"data", "commit"} /\ left[t] > 0
    /\ pc[t] = "finish" => phase[t] = "data"
    /\ pc[t] = "notify" => phase[t] = "commit"
    /\ pc[t] = "wantsync" => phase[t] \in {"data", "commit"}
    /\ pc[t] \in {"release", "released", "sync"} => phase[t] \in {"data", "commit", "notified"}
    /\ pc[t] \in {"space", "flushwait", "release", "released", "sync"} /\ phase[t] = "commit" =>
         left[t] = 1

Bounded ==
  /\ \A i \in Iclogs : lsn[i] <= curr
  /\ \A t \in Txs : clsn[t] <= curr

\* xlog_state_sync looks for an iclog by its lsn, which is not 0
Wants == \A f \in Syncers : pc[f] \in {"syncone", "writewait"} => want[f] # 0

\* Who the threads are.
LEMMA ProcsAre == /\ Txs \subseteq Procs /\ Syncers \subseteq Procs /\ Cpus \subseteq Procs
                  /\ Forcers \subseteq Syncers /\ Killer \in Syncers
                  /\ Txs \cap Syncers = {} /\ Txs \cap Cpus = {} /\ Syncers \cap Cpus = {}
  BY IclogAssumption DEF Procs, Syncers

Base == Shape /\ Threads /\ AllDead /\ TxOK /\ Bounded /\ Wants

\* no callback is attached or run, and one already taken is kept or forgotten
Kept ==
  /\ UNCHANGED <<cbs, called>> /\ Committed \subseteq Committed'
  /\ \A p \in Procs : ctx'[p].got = ctx[p].got \/ ctx'[p].got = <<>>

\* A thread that sets its locals leaves those of the others alone.
LEMMA CtxSet ==
  ASSUME CtxShape, NEW p \in Procs, NEW r \in Ctx, ctx' = [ctx EXCEPT ![p] = r]
  PROVE  CtxShape' /\ ctx'[p] = r /\ \A q \in Procs \ {p} : ctx'[q] = ctx[q]
  BY DEF CtxShape

\* An update of some of a thread's locals leaves the others alone.
LEMMA CtxScan ==
  ASSUME CtxShape, NEW p \in Procs, NEW c \in Iclogs \cup {None}, NEW n \in Nat, NEW e \in BOOLEAN,
         ctx' = [ctx EXCEPT ![p].cur = c, ![p].left = n, ![p].err = e]
  PROVE  /\ CtxShape' /\ \A q \in Procs \ {p} : ctx'[q] = ctx[q]
         /\ ctx'[p].cur = c /\ ctx'[p].ab = ctx[p].ab /\ ctx'[p].got = ctx[p].got
         /\ ctx'[p].then = ctx[p].then
  <1> DEFINE r == [ctx[p] EXCEPT !.cur = c, !.left = n, !.err = e]
  <1>1. r \in Ctx /\ r.cur = c /\ r.ab = ctx[p].ab /\ r.got = ctx[p].got /\ r.then = ctx[p].then
    BY DEF CtxShape, Ctx
  <1>2. ctx' = [ctx EXCEPT ![p] = r]
    BY DEF CtxShape
  <1> HIDE DEF r
  <1> QED BY <1>1, <1>2, CtxSet

\* Taking callbacks, or dropping the one that was run, changes got only.
LEMMA CtxGot ==
  ASSUME CtxShape, NEW p \in Procs, NEW g \in Seq(Txs),
         ctx' = [ctx EXCEPT ![p].got = g]
  PROVE  /\ CtxShape' /\ \A q \in Procs \ {p} : ctx'[q] = ctx[q]
         /\ ctx'[p].got = g /\ ctx'[p].ab = ctx[p].ab /\ ctx'[p].cur = ctx[p].cur
         /\ ctx'[p].then = ctx[p].then
  <1> DEFINE r == [ctx[p] EXCEPT !.got = g]
  <1>1. r \in Ctx /\ r.got = g /\ r.ab = ctx[p].ab /\ r.cur = ctx[p].cur /\ r.then = ctx[p].then
    BY DEF CtxShape, Ctx
  <1>2. ctx' = [ctx EXCEPT ![p] = r]
    OBVIOUS
  <1> HIDE DEF r
  <1> QED BY <1>1, <1>2, CtxSet

\* Looking up whether the iclog is dead changes ab only.
LEMMA CtxAb ==
  ASSUME CtxShape, NEW p \in Procs, NEW b \in BOOLEAN,
         ctx' = [ctx EXCEPT ![p].ab = b]
  PROVE  /\ CtxShape' /\ \A q \in Procs \ {p} : ctx'[q] = ctx[q]
         /\ ctx'[p].ab = b /\ ctx'[p].got = ctx[p].got /\ ctx'[p].cur = ctx[p].cur
         /\ ctx'[p].then = ctx[p].then
  <1> DEFINE r == [ctx[p] EXCEPT !.ab = b]
  <1>1. r \in Ctx /\ r.ab = b /\ r.got = ctx[p].got /\ r.cur = ctx[p].cur /\ r.then = ctx[p].then
    BY DEF CtxShape, Ctx
  <1>2. ctx' = [ctx EXCEPT ![p] = r]
    OBVIOUS
  <1> HIDE DEF r
  <1> QED BY <1>1, <1>2, CtxSet

\* xlog_state_done_syncing passes its iclog and its caller on.
LEMMA CtxThen ==
  ASSUME CtxShape, NEW p \in Procs, NEW i \in Iclogs \cup {None},
         NEW h \in {"idle", "eio", "donesync", "dead"},
         ctx' = [ctx EXCEPT ![p].ci = i, ![p].then = h]
  PROVE  /\ CtxShape' /\ \A q \in Procs \ {p} : ctx'[q] = ctx[q]
         /\ ctx'[p].then = h /\ ctx'[p].ab = ctx[p].ab /\ ctx'[p].got = ctx[p].got /\ ctx'[p].cur = ctx[p].cur
  <1> DEFINE r == [ctx[p] EXCEPT !.ci = i, !.then = h]
  <1>1. r \in Ctx /\ r.then = h /\ r.ab = ctx[p].ab /\ r.got = ctx[p].got /\ r.cur = ctx[p].cur
    BY DEF CtxShape, Ctx
  <1>2. ctx' = [ctx EXCEPT ![p] = r]
    BY DEF CtxShape
  <1> HIDE DEF r
  <1> QED BY <1>1, <1>2, CtxSet

\* A fresh context but for the abort flag.
LEMMA NoCtxAb ==
  ASSUME NEW b \in BOOLEAN
  PROVE  [NoCtx EXCEPT !.ab = b] = [cur |-> None, left |-> 0, err |-> FALSE, ab |-> b,
                                    ci |-> None, got |-> <<>>, then |-> "idle"]
  <1> DEFINE r == [NoCtx EXCEPT !.ab = b]
  <1>1. r = [NoCtx EXCEPT !.ab = b]
    OBVIOUS
  <1> HIDE DEF r
  <1>2. r = [cur |-> None, left |-> 0, err |-> FALSE, ab |-> b,
             ci |-> None, got |-> <<>>, then |-> "idle"]
    BY <1>1 DEF NoCtx
  <1> QED BY <1>1, <1>2

\* A thread that enters xlog_state_do_callback or leaves it has no callbacks.
LEMMA CtxIdle ==
  ASSUME CtxShape, NEW p \in Procs, ctx' = [ctx EXCEPT ![p] = NoCtx]
  PROVE  /\ CtxShape' /\ \A q \in Procs \ {p} : ctx'[q] = ctx[q]
         /\ ~ctx'[p].ab /\ ctx'[p].got = <<>> /\ ctx'[p].then = "idle"
  <1>1. NoCtx \in Ctx /\ ~NoCtx.ab /\ NoCtx.got = <<>> /\ NoCtx.then = "idle"
    BY DEF NoCtx, Ctx
  <1> QED BY <1>1, CtxSet

\* A failing transaction starts to shut down.
LEMMA CtxError ==
  ASSUME CtxShape, NEW p \in Procs, ctx' = [ctx EXCEPT ![p] = [NoCtx EXCEPT !.ab = TRUE]]
  PROVE  /\ CtxShape' /\ \A q \in Procs \ {p} : ctx'[q] = ctx[q]
         /\ ctx'[p].got = <<>> /\ ctx'[p].then = "idle"
  <1> DEFINE r == [NoCtx EXCEPT !.ab = TRUE]
  <1>1. r = [cur |-> None, left |-> 0, err |-> FALSE, ab |-> TRUE,
             ci |-> None, got |-> <<>>, then |-> "idle"]
    BY NoCtxAb
  <1>2. ctx' = [ctx EXCEPT ![p] = r]
    OBVIOUS
  <1> HIDE DEF r
  <1>3. r \in Ctx /\ r.got = <<>> /\ r.then = "idle"
    BY <1>1 DEF Ctx
  <1> QED BY <1>2, <1>3, CtxSet

\* A shutdown enters xlog_state_do_callback with the flag set.
LEMMA CtxShutdown ==
  ASSUME CtxShape, NEW p \in Procs, NEW h \in {"idle", "eio", "donesync", "dead"},
         ctx' = [ctx EXCEPT ![p] = [NoCtx EXCEPT !.ab = TRUE, !.then = h]]
  PROVE  /\ CtxShape' /\ \A q \in Procs \ {p} : ctx'[q] = ctx[q]
         /\ ctx'[p].got = <<>> /\ ctx'[p].then = h
  <1> DEFINE r == [NoCtx EXCEPT !.ab = TRUE, !.then = h]
  <1>1. r = [NoCtx EXCEPT !.ab = TRUE, !.then = h]
    OBVIOUS
  <1>2. ctx' = [ctx EXCEPT ![p] = r]
    OBVIOUS
  <1> HIDE DEF r
  <1>3. r = [cur |-> None, left |-> 0, err |-> FALSE, ab |-> TRUE,
             ci |-> None, got |-> <<>>, then |-> h]
    BY <1>1 DEF NoCtx
  <1>4. r \in Ctx /\ r.got = <<>> /\ r.then = h
    BY <1>3 DEF Ctx
  <1> QED BY <1>2, <1>4, CtxSet

\* A refused write is completed by the writer, with the flag set.
LEMMA CtxRefused ==
  ASSUME CtxShape, NEW p \in Procs, NEW i \in Iclogs \cup {None},
         ctx' = [ctx EXCEPT ![p] = [NoCtx EXCEPT !.ab = TRUE, !.ci = i, !.then = "eio"]]
  PROVE  /\ CtxShape' /\ \A q \in Procs \ {p} : ctx'[q] = ctx[q]
         /\ ctx'[p].got = <<>> /\ ctx'[p].then = "eio"
  <1> DEFINE r == [NoCtx EXCEPT !.ab = TRUE, !.ci = i, !.then = "eio"]
  <1>1. r = [NoCtx EXCEPT !.ab = TRUE, !.ci = i, !.then = "eio"]
    OBVIOUS
  <1>2. ctx' = [ctx EXCEPT ![p] = r]
    OBVIOUS
  <1> HIDE DEF r
  <1>3. r = [cur |-> None, left |-> 0, err |-> FALSE, ab |-> TRUE,
             ci |-> i, got |-> <<>>, then |-> "eio"]
    BY <1>1 DEF NoCtx
  <1>4. r \in Ctx /\ r.got = <<>> /\ r.then = "eio"
    BY <1>3 DEF Ctx
  <1> QED BY <1>2, <1>4, CtxSet

\* Closing the current iclog changes its state only, and makes the next current.
LEMMA SwitchIs ==
  ASSUME RingShape, SwitchIclogs
  PROVE  /\ st' \in [Iclogs -> States] /\ head' \in Iclogs /\ curr' \in Nat \ {0}
         /\ head' = Succ(head) /\ curr' = curr + 1 /\ head' # head
         /\ st'[head] = "WANT_SYNC" /\ \A i \in Iclogs \ {head} : st'[i] = st[i]
  BY SuccIs DEF RingShape, SwitchIclogs, States

\* Seen from one iclog, all are dead or none is.
LEMMA AllIoerrorIs ==
  ASSUME RingShape, AllDead, AllIoerror
  PROVE  st' \in [Iclogs -> States] /\ \A i \in Iclogs : st'[i] = "IOERROR"
  BY DEF RingShape, AllDead, AllIoerror, States

\* A thread that moves on leaves the others where they are.
LEMMA MoveIs ==
  ASSUME ThreadShape, NEW p \in Procs, NEW l \in Places, pc' = [pc EXCEPT ![p] = l]
  PROVE  /\ pc' \in [Procs -> Places] /\ pc'[p] = l
         /\ \A q \in Procs \ {p} : pc'[q] = pc[q]
  BY DEF ThreadShape

\* What a scan of xlog_state_do_callback does to the thread that runs it.
LEMMA ScanBase ==
  ASSUME Base, NEW p \in Procs, pc[p] \in {"cbstart", "cbgrab"},
         NEW s \in [Iclogs -> States], NEW l \in [Iclogs -> Nat],
         \A i \in Iclogs : s[i] = "IOERROR" <=> st[i] = "IOERROR",
         NEW r, Scanned(s, l, r), NEW err \in BOOLEAN, NEW up, up \subseteq Procs,
         head' = head, torn' = torn, called' = called, left' = left, phase' = phase, want' = want,
         Resume(p, r, err, up)
  PROVE  /\ st' \in [Iclogs -> States]
         /\ ThreadShape' /\ CtxShape' /\ Threads' /\ AllDead' /\ TxOK' /\ Wants'
         /\ \A q \in Procs : ctx'[q].got = ctx[q].got \/ ctx'[q].got = <<>>
  <1> USE DEF Base, Shape
  <1>1. PICK S : Marked(s, S) /\ (Stops(S, l, r) \/ (r.at = None /\ r.st = S))
    BY DEF Scanned
  <1>2. /\ S \in [Iclogs -> States]
        /\ \A i \in Iclogs : S[i] = "IOERROR" <=> st[i] = "IOERROR"
    BY <1>1 DEF Marked
  <1>c. ctx[p] \in Ctx
    BY DEF CtxShape
  <1>t. ctx[p].then \in {"idle", "eio", "donesync", "dead"}
    BY <1>c DEF Ctx
  <1>d. Dead <=> S[head] = "IOERROR"
    BY <1>2 DEF RingShape, Dead
  <1>3. CASE r.at = None /\ r.st = S
    <2> DEFINE h == ctx[p].then
               x == [NoCtx EXCEPT !.ab = h = "donesync"]
    <2>1. h \in Places
      BY <1>t DEF Places
    <2>2. /\ st' = S /\ pc' = [pc EXCEPT ![p] = h] /\ ctx' = [ctx EXCEPT ![p] = x]
          /\ ic' = [ic EXCEPT ![p] = IF h = "idle" THEN None ELSE @]
          /\ awake' = awake \cup up \cup FlushWaiters(S)
      BY <1>3 DEF Resume
    <2>3. x \in Ctx /\ x.ab = (h = "donesync") /\ x.got = <<>> /\ x.then = "idle"
      <3>1. x = [cur |-> None, left |-> 0, err |-> FALSE, ab |-> h = "donesync",
                 ci |-> None, got |-> <<>>, then |-> "idle"]
        BY NoCtxAb
      <3> HIDE DEF x, h
      <3> QED BY <3>1 DEF Ctx
    <2> HIDE DEF x, h
    <2>4. CtxShape' /\ ctx'[p] = x /\ \A q \in Procs \ {p} : ctx'[q] = ctx[q]
      BY <2>2, <2>3, CtxSet
    <2>5. pc' \in [Procs -> Places] /\ pc'[p] = h /\ \A q \in Procs \ {p} : pc'[q] = pc[q]
      BY <2>1, <2>2, MoveIs
    <2>6. /\ ic' \in [Procs -> Iclogs \cup {None}]
          /\ \A q \in Procs \ {p} : ic'[q] = ic[q]
          /\ h # "idle" => ic'[p] = ic[p]
      BY <2>2 DEF ThreadShape
    <2>7. ThreadShape'
      <3>1. FlushWaiters(S) \subseteq Procs
        BY ProcsAre DEF FlushWaiters
      <3>2. awake' \subseteq Procs
        BY <2>2, <3>1 DEF ThreadShape
      <3> QED BY <2>5, <2>6, <3>2 DEF ThreadShape
    <2>8. Dead' <=> Dead
      BY <1>d, <2>2 DEF Dead
    <2>9. h = "donesync" => Dead /\ ic[p] \in Iclogs
      BY DEF Threads, h
    <2>10. Threads'
      <3>1. \A q \in Procs : pc'[q] \in Held \cup {"released", "sync", "donesync", "forcewait"} =>
                               ic'[q] \in Iclogs
        <4>1. h \in Held \cup {"released", "sync", "donesync", "forcewait"} => h = "donesync"
          BY <1>t DEF Held, h
        <4> QED BY <2>5, <2>6, <2>9, <4>1 DEF Threads
      <3>2. \A q \in Procs : pc'[q] \in InLoop => ctx'[q].cur \in Iclogs
        <4>1. h \notin InLoop
          BY <1>t DEF InLoop, h
        <4> QED BY <2>4, <2>5, <4>1 DEF Threads
      <3>3. \A q \in Procs : pc'[q] = "cbrun" => ctx'[q].got # <<>>
        <4>1. h # "cbrun"
          BY <1>t DEF h
        <4> QED BY <2>4, <2>5, <4>1 DEF Threads
      <3>4. \A q \in Procs : ctx'[q].then = "donesync" => q \in Cpus /\ Dead' /\ ic'[q] \in Iclogs
        BY <2>3, <2>4, <2>6, <2>8 DEF Threads
      <3> QED BY <3>1, <3>2, <3>3, <3>4 DEF Threads
    <2>11. AllDead'
      <3>1. \A i, j \in Iclogs : st'[i] = "IOERROR" => st'[j] = "IOERROR"
        BY <1>2, <2>2 DEF AllDead
      <3>2. \A q \in Procs : ctx'[q].ab => Dead'
        BY <2>3, <2>4, <2>8, <2>9 DEF AllDead
      <3> QED BY <2>8, <3>1, <3>2 DEF AllDead
    <2>12. TxOK'
      <3>1. h \in {"idle", "eio", "donesync", "dead"}
        BY <1>t DEF h
      <3> QED BY <2>5, <3>1, ProcsAre DEF TxOK
    <2>13. Wants'
      <3>1. h \in {"idle", "eio", "donesync", "dead"}
        BY <1>t DEF h
      <3> QED BY <2>5, <3>1, ProcsAre DEF Wants
    <2> QED BY <2>13, <1>2, <2>2, <2>3, <2>4, <2>7, <2>10, <2>11, <2>12
  <1>4. CASE Stops(S, l, r)
    <2> DEFINE j == r.at
    <2>1. j \in Iclogs /\ j # None
      BY <1>4, IclogAssumption DEF Stops
    <2>2. PICK m \in Nat, e \in BOOLEAN :
            ctx' = [ctx EXCEPT ![p].cur = j, ![p].left = m, ![p].err = e]
      BY <1>4, <2>1 DEF Stops, Resume
    <2>3. /\ CtxShape' /\ \A q \in Procs \ {p} : ctx'[q] = ctx[q]
          /\ ctx'[p].cur = j /\ ctx'[p].ab = ctx[p].ab /\ ctx'[p].got = ctx[p].got
          /\ ctx'[p].then = ctx[p].then
      <3>1. /\ ctx[p].got \in Seq(Txs) /\ j \in Iclogs \cup {None}
            /\ FALSE \in BOOLEAN /\ "idle" \in {"idle", "eio", "donesync", "dead"}
        BY <1>c, <2>1 DEF Ctx
      <3> QED BY <2>2, <3>1, CtxScan
    <2>4. PICK h \in {"cbgrab", "lastsync"} : pc' = [pc EXCEPT ![p] = h]
      BY <2>1 DEF Resume
    <2>5. pc' \in [Procs -> Places] /\ pc'[p] = h /\ \A q \in Procs \ {p} : pc'[q] = pc[q]
      <3>1. h \in Places
        BY DEF Places, InLoop
      <3> QED BY <2>4, <3>1, MoveIs
    <2>6. /\ st' \in [Iclogs -> States]
          /\ \A i \in Iclogs : st'[i] = "IOERROR" <=> st[i] = "IOERROR"
      <3>1. CASE st' = S
        BY <1>2, <3>1
      <3>2. CASE S[j] \in {"DONE_SYNC", "DO_CALLBACK"} /\ st' = [S EXCEPT ![j] = "CALLBACK"]
        BY <1>2, <3>2 DEF States
      <3> QED BY <1>4, <3>1, <3>2 DEF Stops, Resume
    <2>7. UNCHANGED ic /\ awake' = awake \cup up
      BY <2>1 DEF Resume
    <2>8. Dead' <=> Dead
      BY <2>6 DEF Dead, RingShape
    <2>9. ThreadShape'
      BY <2>5, <2>7 DEF ThreadShape
    <2>10. Threads'
      <3>1. \A q \in Procs : pc'[q] \in Held \cup {"released", "sync", "donesync", "forcewait"} =>
                               ic'[q] \in Iclogs
        BY <2>5, <2>7 DEF Threads, Held
      <3>2. \A q \in Procs : pc'[q] \in InLoop => ctx'[q].cur \in Iclogs
        BY <2>1, <2>3, <2>5 DEF Threads
      <3>3. \A q \in Procs : pc'[q] = "cbrun" => ctx'[q].got # <<>>
        BY <2>3, <2>5 DEF Threads
      <3>4. \A q \in Procs : ctx'[q].then = "donesync" => q \in Cpus /\ Dead' /\ ic'[q] \in Iclogs
        BY <2>3, <2>7, <2>8 DEF Threads
      <3> QED BY <3>1, <3>2, <3>3, <3>4 DEF Threads
    <2>11. AllDead'
      <3>1. \A i, k \in Iclogs : st'[i] = "IOERROR" => st'[k] = "IOERROR"
        BY <2>6 DEF AllDead
      <3>2. \A q \in Procs : ctx'[q].ab => Dead'
        BY <2>3, <2>8 DEF AllDead
      <3> QED BY <2>8, <3>1, <3>2 DEF AllDead
    <2>12. TxOK'
      BY <2>5, ProcsAre DEF TxOK
    <2>13. Wants'
      BY <2>5, ProcsAre DEF Wants
    <2> QED BY <2>13, <2>3, <2>6, <2>9, <2>10, <2>11, <2>12
  <1> QED BY <1>1, <1>3, <1>4

\* What an action leaves alone keeps its shape.
LEMMA Frame ==
  /\ RingShape /\ UNCHANGED ring => RingShape'
  /\ DiskShape /\ UNCHANGED <<io, lastSync, shut>> => DiskShape'
  /\ CallShape /\ UNCHANGED <<cbs, called>> => CallShape'
  /\ ThreadShape /\ UNCHANGED <<pc, awake, ic>> => ThreadShape'
  /\ CtxShape /\ UNCHANGED ctx => CtxShape'
  /\ TxShape /\ UNCHANGED txv => TxShape'
  /\ ForceShape /\ UNCHANGED force => ForceShape'
  /\ Threads /\ UNCHANGED <<pc, ic, ctx, st, head>> => Threads'
  /\ AllDead /\ UNCHANGED <<st, head, ctx, called, torn>> => AllDead'
  /\ TxOK /\ UNCHANGED <<pc, phase, left>> => TxOK'
  /\ Bounded /\ UNCHANGED <<lsn, curr, clsn>> => Bounded'
  /\ Wants /\ UNCHANGED <<pc, want>> => Wants'
  /\ UNCHANGED <<cbs, called, phase, ctx>> => Kept
  BY DEF RingShape, DiskShape, CallShape, ThreadShape, CtxShape, TxShape, ForceShape, Threads,
     AllDead, TxOK, Bounded, Wants, Kept, Committed, Dead, ring, io, txv, force

\* Start of a commit.
LEMMA StartBase ==
  ASSUME Base, NEW t \in Txs, Start(t)
  PROVE  Base' /\ Kept
  <1>1. RingShape' /\ DiskShape' /\ CallShape' /\ CtxShape' /\ ForceShape' /\ AllDead' /\ Bounded'
    BY Frame DEF Base, Shape, Start, ring, io
  <1>2. ThreadShape' /\ Threads' /\ Wants'
    BY ProcsAre DEF Base, Shape, ThreadShape, Threads, Held, InLoop, Places, Start, Goto, ring,
       force, Dead, Wants
  <1>3. TxShape' /\ Kept
    BY IclogAssumption, ProcsAre DEF Base, Shape, RingShape, TxShape, Start, Goto, ring, io, txv,
       force, CtxShape, Kept, Committed
  <1>4. TxOK'
    <2>1. DataLen[t] \in Nat \ {0}
      BY IclogAssumption
    <2> QED BY <2>1 DEF Base, Shape, TxShape, TxOK, Start, Goto
  <1> QED BY <1>1, <1>2, <1>3, <1>4 DEF Base, Shape

\* xlog_state_get_iclog_space that fails or waits.
LEMMA GetSpaceBlockedBase ==
  ASSUME Base, NEW t \in Txs, GetSpaceFails(t) \/ GetSpaceWaits(t)
  PROVE  Base' /\ Kept
  <1>1. /\ UNCHANGED <<ring, cbs, lastSync, shut, io, awake, ic, ctx, txv, force, called>>
        /\ pc[t] = "space" /\ \E l \in {"eio", "flushwait"} : pc' = [pc EXCEPT ![t] = l]
    BY DEF GetSpaceFails, GetSpaceWaits, Goto
  <1>2. RingShape' /\ DiskShape' /\ CallShape' /\ CtxShape' /\ TxShape' /\ ForceShape' /\ AllDead'
        /\ Bounded' /\ Kept
    BY <1>1, Frame DEF Base, Shape, ring, io, txv
  <1>3. ThreadShape' /\ Threads' /\ TxOK' /\ Wants'
    BY <1>1, ProcsAre DEF Base, Shape, ThreadShape, Threads, Held, InLoop, Places, TxOK, Wants,
       Dead, ring, txv, force
  <1> QED BY <1>2, <1>3 DEF Base, Shape

\* xlog_state_get_iclog_space that closes a full iclog.
LEMMA GetSpaceNoRoomBase ==
  ASSUME Base, NEW t \in Txs, GetSpaceNoRoom(t)
  PROVE  Base' /\ Kept
  <1>1. DiskShape' /\ CallShape' /\ CtxShape' /\ TxShape' /\ ForceShape' /\ Kept
    BY Frame DEF Base, Shape, GetSpaceNoRoom, txv
  <1>2. RingShape'
    <2>1. RingShape /\ SwitchIclogs
      BY DEF Base, Shape, GetSpaceNoRoom
    <2>2. ref' \in [Iclogs -> Int]
      BY DEF Base, Shape, RingShape, GetSpaceNoRoom
    <2> QED BY <2>1, SwitchIs DEF GetSpaceNoRoom, RingShape
  <1>3. ThreadShape'
    <2>1. t \in Procs /\ "release" \in Places /\ head \in Iclogs
      BY ProcsAre DEF Base, Shape, RingShape, Places, Held
    <2> QED BY <2>1 DEF Base, Shape, ThreadShape, GetSpaceNoRoom, Goto
  <1>4. Threads'
    BY SuccIs DEF Base, Shape, RingShape, ThreadShape, Threads, AllDead, Held, InLoop, Dead,
       GetSpaceNoRoom, Goto, SwitchIclogs
  <1>5. AllDead'
    BY DEF Base, Shape, AllDead, Dead, GetSpaceNoRoom, io, SwitchIclogs
  <1>6. TxOK'
    BY ProcsAre DEF Base, Shape, ThreadShape, TxOK, GetSpaceNoRoom, Goto, txv
  <1>7. Bounded'
    BY DEF Base, Shape, RingShape, TxShape, Bounded, GetSpaceNoRoom, txv, SwitchIclogs
  <1>8. Wants'
    BY ProcsAre DEF Base, Shape, ThreadShape, Wants, GetSpaceNoRoom, Goto, force
  <1> QED BY <1>1, <1>2, <1>3, <1>4, <1>5, <1>6, <1>7, <1>8 DEF Base, Shape

\* xlog_state_get_iclog_space that gets some space.
LEMMA GetSpaceBase ==
  ASSUME Base, NEW t \in Txs, GetSpace(t)
  PROVE  Base' /\ Kept
  <1>1. DiskShape' /\ CallShape' /\ CtxShape' /\ ForceShape' /\ Kept
    BY Frame DEF Base, Shape, GetSpace
  <1>2. RingShape'
    <2>1. /\ head \in Iclogs /\ ref' \in [Iclogs -> Int] /\ lsn' \in [Iclogs -> Nat]
          /\ bw' \in [Iclogs -> Int]
      BY DEF Base, Shape, RingShape, GetSpace
    <2>2. CASE SwitchIclogs /\ UNCHANGED off
      BY <2>1, <2>2, SwitchIs DEF Base, Shape, RingShape
    <2>3. CASE Fits(t, head) /\ off' = [off EXCEPT ![head] = @ + left[t]] /\ UNCHANGED <<st, head, curr>>
      <3>1. off[head] + left[t] \in 0 .. Cap
        BY <2>3, IclogAssumption DEF Base, Shape, RingShape, TxShape, Fits
      <3> QED BY <2>1, <2>3, <3>1 DEF Base, Shape, RingShape
    <2> QED BY <2>2, <2>3 DEF GetSpace
  <1>3. ThreadShape'
    BY ProcsAre, SuccIs DEF Base, Shape, ThreadShape, RingShape, Threads, Held, InLoop, Places,
       GetSpace, Goto, ring, io, txv, force, SwitchIclogs, Fits
  <1>4. TxShape' /\ Bounded'
    BY IclogAssumption DEF Base, Shape, RingShape, TxShape, GetSpace, SwitchIclogs, Fits, Bounded
  <1>5. Threads'
    <2>1. /\ head \in Iclogs /\ UNCHANGED ctx /\ ic' = [ic EXCEPT ![t] = head] /\ ~Dead /\ t \in Procs
          /\ ThreadShape /\ Threads
      BY ProcsAre DEF Base, Shape, RingShape, GetSpace, Dead
    <2>2. PICK l \in {"wantsync", "notify", "release", "finish"} : pc' = [pc EXCEPT ![t] = l]
      BY DEF GetSpace, Goto
    <2>3. pc'[t] = l /\ ic'[t] = head /\ \A p \in Procs \ {t} : pc'[p] = pc[p] /\ ic'[p] = ic[p]
      BY <2>1, <2>2 DEF ThreadShape
    <2>4. \A p \in Procs : pc'[p] \in Held \cup {"released", "sync", "donesync", "forcewait"} =>
                ic'[p] \in Iclogs
      BY <2>1, <2>3 DEF Threads
    <2>5. \A p \in Procs : /\ pc'[p] \in InLoop => ctx'[p].cur \in Iclogs
                           /\ pc'[p] = "cbrun" => ctx'[p].got # <<>>
      BY <2>1, <2>3 DEF Threads, InLoop
    <2>6. \A p \in Procs : ctx'[p].then # "donesync"
      BY <2>1 DEF Threads
    <2> QED BY <2>4, <2>5, <2>6 DEF Threads
  <1>6. AllDead'
    BY ProcsAre DEF Base, Shape, RingShape, ThreadShape, Threads, AllDead, Held, Dead, GetSpace,
       Goto, ring, io, txv, force, SwitchIclogs, Fits
  <1>7. TxOK'
    <2>1. /\ off[head] \in 0 .. Cap /\ off[head] < Cap /\ left[t] \in Nat /\ Cap \in Nat
          /\ phase[t] \in {"data", "commit"} /\ (phase[t] = "commit" => left[t] = 1)
          /\ t \in Procs /\ left[t] > 0
      BY ProcsAre, IclogAssumption DEF Base, Shape, RingShape, TxShape, TxOK, GetSpace
    <2>2. /\ phase' = phase /\ \A u \in Txs \ {t} : left'[u] = left[u] /\ pc'[u] = pc[u]
      BY ProcsAre DEF Base, Shape, TxShape, ThreadShape, GetSpace, Goto
    <2>3. CASE Fits(t, head)
      <3>1. pc'[t] \in {"wantsync", "notify", "release"} /\ (pc'[t] = "notify" => phase[t] = "commit")
            /\ (pc'[t] = "release" => phase[t] # "commit")
        BY <2>1, <2>3 DEF Base, Shape, ThreadShape, GetSpace, Goto
      <3> QED BY <2>1, <2>2, <3>1 DEF Base, TxOK
    <2>4. CASE ~Fits(t, head)
      <3>1. pc'[t] = "finish" /\ phase[t] = "data"
        BY <2>1, <2>4 DEF Base, Shape, ThreadShape, GetSpace, Goto, Fits
      <3> QED BY <2>2, <3>1 DEF Base, TxOK
    <2> QED BY <2>3, <2>4
  <1>8. Wants'
    BY ProcsAre DEF Base, Shape, ThreadShape, Wants, GetSpace, Goto, force
  <1> QED BY <1>1, <1>2, <1>3, <1>4, <1>5, <1>6, <1>7, <1>8 DEF Base, Shape

\* xlog_state_finish_copy after a partial copy.
LEMMA FinishCopyBase ==
  ASSUME Base, NEW t \in Txs, FinishCopy(t)
  PROVE  Base' /\ Kept
  <1>1. DiskShape' /\ CallShape' /\ CtxShape' /\ TxShape' /\ ForceShape' /\ AllDead' /\ Bounded' /\ Kept
    BY Frame DEF Base, Shape, FinishCopy, io, txv
  <1>2. RingShape'
    BY IclogAssumption, ProcsAre DEF Base, Shape, RingShape, Threads, Held, FinishCopy
  <1>3. ThreadShape' /\ Threads' /\ TxOK' /\ Wants'
    BY ProcsAre DEF Base, Shape, ThreadShape, Threads, Held, InLoop, Places, FinishCopy, Goto,
       txv, force, Dead, TxOK, Wants
  <1> QED BY <1>1, <1>2, <1>3 DEF Base, Shape

\* xlog_state_want_sync.
LEMMA WantSyncBase ==
  ASSUME Base, NEW t \in Txs, WantSync(t)
  PROVE  Base' /\ Kept
  <1>1. DiskShape' /\ CallShape' /\ CtxShape' /\ TxShape' /\ ForceShape' /\ Kept
    BY Frame DEF Base, Shape, WantSync, txv
  <1>2. RingShape' /\ Bounded'
    BY SwitchIs DEF Base, Shape, RingShape, WantSync, TxShape, Bounded, txv
  <1>3. ThreadShape'
    BY ProcsAre, SuccIs DEF Base, Shape, ThreadShape, RingShape, Threads, Held, InLoop, Places,
       WantSync, Goto, ring, io, txv, force, SwitchIclogs
  <1>4. Threads'
    BY ProcsAre, SuccIs DEF Base, Shape, RingShape, ThreadShape, Threads, AllDead, Held, InLoop,
       Dead, WantSync, Goto, ring, io, txv, force, SwitchIclogs
  <1>5. AllDead'
    BY ProcsAre DEF Base, Shape, RingShape, Threads, AllDead, Held, Dead, WantSync, io,
       SwitchIclogs
  <1>6. TxOK'
    BY DEF Base, Shape, TxOK, WantSync, Goto, txv
  <1>7. Wants'
    BY DEF Base, Shape, Wants, WantSync, Goto, force
  <1> QED BY <1>1, <1>2, <1>3, <1>4, <1>5, <1>6, <1>7 DEF Base, Shape

\* xfs_log_notify: here a callback is attached, or run, so Kept does not hold.
LEMMA NotifyBase ==
  ASSUME Base, NEW t \in Txs, Notify(t)
  PROVE  Base'
  <1>1. RingShape' /\ DiskShape' /\ CtxShape' /\ ForceShape' /\ Bounded'
    BY Frame DEF Base, Shape, Notify, ring
  <1>2. CallShape'
    <2>1. ic[t] \in Iclogs
      BY ProcsAre DEF Base, Threads, Held, Notify
    <2>2. CASE st[ic[t]] = "IOERROR"
      <3>1. [tx |-> t, ab |-> TRUE] \in [tx : Txs, ab : BOOLEAN]
        OBVIOUS
      <3>2. Append(called, [tx |-> t, ab |-> TRUE]) \in Seq([tx : Txs, ab : BOOLEAN])
        BY DEF Base, Shape, CallShape
      <3> QED BY <2>2, <3>2 DEF Base, Shape, CallShape, Notify
    <2>3. CASE st[ic[t]] # "IOERROR"
      <3>1. Append(cbs[ic[t]], t) \in Seq(Txs)
        BY <2>1 DEF Base, Shape, CallShape
      <3>2. cbs' = [cbs EXCEPT ![ic[t]] = Append(cbs[ic[t]], t)] /\ called' = called
        BY <2>3 DEF Notify
      <3> QED BY <3>1, <3>2 DEF Base, Shape, CallShape
    <2> QED BY <2>2, <2>3
  <1>3. ThreadShape' /\ Threads' /\ AllDead' /\ TxOK' /\ Wants'
    <2>1. /\ ThreadShape /\ pc' = [pc EXCEPT ![t] = "release"]
          /\ UNCHANGED <<st, head, torn, awake, ic, ctx, left, want>>
          /\ pc[t] = "notify" /\ phase' = [phase EXCEPT ![t] = "notified"] /\ t \in Procs
      BY ProcsAre DEF Base, Shape, Notify, Goto, ring, io, force
    <2>2. ThreadShape'
      BY <2>1 DEF ThreadShape, Places, Held
    <2>3. Threads'
      <3>1. pc'[t] = "release" /\ \A p \in Procs \ {t} : pc'[p] = pc[p]
        BY <2>1 DEF ThreadShape
      <3>2. \A p \in Procs : pc'[p] \in Held \cup {"released", "sync", "donesync", "forcewait"} =>
                              ic'[p] \in Iclogs
        BY <2>1, <3>1 DEF Base, Threads, Held
      <3>3. \A p \in Procs : /\ pc'[p] \in InLoop => ctx'[p].cur \in Iclogs
                             /\ pc'[p] = "cbrun" => ctx'[p].got # <<>>
        BY <2>1, <3>1 DEF Base, Threads, InLoop
      <3>4. \A p \in Procs : ctx'[p].then = "donesync" => p \in Cpus /\ Dead' /\ ic'[p] \in Iclogs
        BY <2>1 DEF Base, Threads, Dead
      <3> QED BY <3>2, <3>3, <3>4 DEF Threads
    <2>4. AllDead'
      <3>1. /\ UNCHANGED <<st, head, ctx, torn>>
            /\ called' = called \/ (Dead /\ called' = Append(called, [tx |-> t, ab |-> TRUE]))
        <4>1. ic[t] \in Iclogs
          BY <2>1 DEF Base, Threads, Held
        <4>2. called' = called \/ (st[ic[t]] = "IOERROR" /\ called' = Append(called, [tx |-> t, ab |-> TRUE]))
          BY DEF Notify
        <4>3. st[ic[t]] = "IOERROR" => Dead
          BY <4>1 DEF Base, Shape, RingShape, AllDead, Dead
        <4> QED BY <2>1, <4>2, <4>3
      <3>2. \A k \in DOMAIN called' : called'[k].ab => Dead
        <4>1. called \in Seq([tx : Txs, ab : BOOLEAN]) /\ \A k \in DOMAIN called : called[k].ab => Dead
          BY DEF Base, Shape, CallShape, AllDead
        <4> DEFINE e == [tx |-> t, ab |-> TRUE]
        <4> HIDE DEF e
        <4>2. called' = called \/ (Dead /\ called' = Append(called, e))
          BY <3>1 DEF e
        <4>3. CASE called' = called
          BY <4>1, <4>3
        <4>4. CASE Dead
          BY <4>4
        <4> QED BY <4>2, <4>3, <4>4
      <3>3. Dead' <=> Dead
        BY <3>1 DEF Dead
      <3> QED BY <3>1, <3>2, <3>3 DEF Base, AllDead
    <2>5. TxOK'
      BY <2>1, ProcsAre DEF Base, Shape, TxShape, TxOK, ThreadShape
    <2>6. Wants'
      BY <2>1, ProcsAre DEF Base, Wants, ThreadShape
    <2> QED BY <2>2, <2>3, <2>4, <2>5, <2>6
  <1>4. TxShape'
    BY DEF Base, Shape, TxShape, Notify
  <1> QED BY <1>1, <1>2, <1>3, <1>4 DEF Base, Shape

\* What a transaction does after a release.
LEMMA TxReleasedBase ==
  ASSUME Base, NEW t \in Txs, TxReleased(t)
  PROVE  Base' /\ Kept
  <1>1. RingShape' /\ DiskShape' /\ CallShape' /\ CtxShape' /\ ForceShape' /\ AllDead' /\ Bounded'
    BY Frame DEF Base, Shape, TxReleased, ring, io
  <1>2. ThreadShape'
    BY ProcsAre, SuccIs DEF Base, Shape, ThreadShape, RingShape, Threads, Held, InLoop, Places,
       TxReleased, Goto, ring, io, txv, force
  <1>3. TxShape' /\ Kept
    BY DEF Base, Shape, TxShape, TxReleased, Kept, Committed
  <1>4. Threads'
    BY ProcsAre DEF Base, Shape, ThreadShape, Threads, Held, InLoop, Dead, TxReleased, Goto, ring
  <1>5. TxOK'
    BY ProcsAre DEF Base, Shape, ThreadShape, TxShape, TxOK, TxReleased, Goto
  <1>6. Wants'
    BY ProcsAre DEF Base, Shape, ThreadShape, Wants, TxReleased, Goto, force
  <1> QED BY <1>1, <1>2, <1>3, <1>4, <1>5, <1>6 DEF Base, Shape

\* A log error seen by a transaction shuts the filesystem down.
LEMMA TxErrorBase ==
  ASSUME Base, NEW t \in Txs, TxError(t)
  PROVE  Base' /\ Kept
  <1>0. \/ UNCHANGED ctx
        \/ /\ CtxShape' /\ \A q \in Procs \ {t} : ctx'[q] = ctx[q]
           /\ ctx'[t].got = <<>> /\ ctx'[t].then = "idle"
    <2>1. /\ t \in Procs /\ "idle" \in {"idle", "eio", "donesync", "dead"}
          /\ None \in Iclogs \cup {None}
      BY ProcsAre
    <2> QED BY <2>1, CtxError DEF Base, Shape, TxError
  <1>1. CallShape' /\ ForceShape' /\ Bounded'
    BY Frame DEF Base, Shape, TxError
  <1>2. RingShape'
    BY DEF Base, Shape, RingShape, States, TxError, Goto, AllIoerror
  <1>3. DiskShape'
    BY IclogAssumption, ProcsAre DEF Base, Shape, DiskShape, RingShape, ThreadShape, Threads,
       InLoop, TxError, Goto, ring, io, txv, force, AllIoerror
  <1>4. ThreadShape'
    BY ProcsAre, SuccIs DEF Base, Shape, ThreadShape, RingShape, Threads, Held, InLoop, Places,
       TxError, Goto, ring, io, txv, force, AllIoerror
  <1>5. CtxShape'
    BY <1>0 DEF Base, Shape, CtxShape
  <1>6. TxShape'
    BY DEF Base, Shape, TxShape, TxError
  <1>7. Threads'
    <2>1. \A q \in Procs : pc'[q] \in Held \cup {"released", "sync", "donesync", "forcewait"} =>
                             ic'[q] \in Iclogs
      BY DEF Base, Shape, ThreadShape, Threads, TxError, Goto, Held
    <2>2. \A q \in Procs : pc'[q] \in InLoop => ctx'[q].cur \in Iclogs
      BY <1>0 DEF Base, Shape, ThreadShape, Threads, TxError, Goto, InLoop
    <2>3. \A q \in Procs : pc'[q] = "cbrun" => ctx'[q].got # <<>>
      BY <1>0 DEF Base, Shape, ThreadShape, Threads, TxError, Goto
    <2>4. \A q \in Procs : ctx'[q].then = "donesync" => q \in Cpus /\ Dead' /\ ic'[q] \in Iclogs
      BY <1>0, ProcsAre DEF Base, Shape, Threads, TxError, Dead
    <2> QED BY <2>1, <2>2, <2>3, <2>4 DEF Threads
  <1>8. AllDead'
    BY DEF Base, Shape, RingShape, AllDead, Dead, TxError, AllIoerror
  <1>9. TxOK'
    BY ProcsAre DEF Base, Shape, ThreadShape, TxOK, TxError, Goto
  <1>10. Wants'
    BY ProcsAre DEF Base, Shape, ThreadShape, Wants, TxError, Goto, force
  <1>11. Kept
    BY <1>0, ProcsAre DEF Base, Shape, CtxShape, TxShape, Kept, Committed, TxError, Goto, ring,
       io, txv, force, AllIoerror
  <1> QED BY <1>1, <1>2, <1>3, <1>4, <1>5, <1>6, <1>7, <1>8, <1>9, <1>10, <1>11 DEF Base, Shape

\* A waiter for a free iclog wakes.
LEMMA FlushWakeBase ==
  ASSUME Base, NEW t \in Txs, FlushWake(t)
  PROVE  Base' /\ Kept
  <1>1. /\ RingShape' /\ DiskShape' /\ CallShape' /\ CtxShape' /\ TxShape'
        /\ ForceShape' /\ AllDead' /\ Bounded' /\ Kept
    BY Frame DEF Base, Shape, FlushWake, ring, io, txv
  <1>2. ThreadShape' /\ Threads' /\ TxOK' /\ Wants'
    BY DEF Base, Shape, ThreadShape, Threads, Held, InLoop, Places, FlushWake, Goto, ring, txv,
       force, Dead, TxOK, Wants
  <1> QED BY <1>1, <1>2 DEF Base, Shape

\* xlog_state_release_iclog.
LEMMA ReleaseBase ==
  ASSUME Base, NEW p \in Txs \cup Syncers, Release(p)
  PROVE  Base' /\ Kept
  <1>1. DiskShape' /\ CallShape' /\ CtxShape' /\ TxShape' /\ ForceShape' /\ Bounded' /\ Kept
    BY Frame DEF Base, Shape, Release, txv
  <1>2. RingShape'
    <2>1. st' = st \/ st' = [st EXCEPT ![ic[p]] = "SYNCING"]
      BY DEF Release
    <2>2. ref' = ref \/ ref' = [ref EXCEPT ![ic[p]] = @ - 1]
      BY DEF Release
    <2>3. ref' \in [Iclogs -> Int] /\ st' \in [Iclogs -> States]
      BY <2>1, <2>2 DEF Base, Shape, RingShape, States
    <2> QED BY <2>3 DEF Base, Shape, RingShape, Release
  <1>3. ThreadShape'
    <2>1. \E l \in {"released", "sync", "eio"} : pc' = [pc EXCEPT ![p] = l]
      BY DEF Release, Goto
    <2> QED BY <2>1 DEF Base, Shape, ThreadShape, Places, Release
  <1>4. Threads'
    BY DEF Base, Shape, RingShape, ThreadShape, Threads, Held, InLoop, Dead, Release, Goto
  <1>5. AllDead'
    <2>1. /\ UNCHANGED <<head, ctx, called, torn>> /\ ic[p] \in Iclogs /\ head \in Iclogs /\ AllDead
          /\ st \in [Iclogs -> States]
      BY ProcsAre DEF Base, Shape, RingShape, Threads, Held, Release, io
    <2>2. CASE st' = st
      BY <2>1, <2>2 DEF AllDead, Dead
    <2>3. CASE st' = [st EXCEPT ![ic[p]] = "SYNCING"] /\ st[ic[p]] # "IOERROR"
      <3>1. ~Dead /\ ~Dead' /\ \A j \in Iclogs : st[j] # "IOERROR" /\ st'[j] # "IOERROR"
        BY <2>1, <2>3 DEF AllDead, Dead
      <3> QED BY <2>1, <3>1 DEF AllDead
    <2> QED BY <2>2, <2>3 DEF Release
  <1>6. TxOK'
    BY ProcsAre DEF Base, Shape, ThreadShape, TxOK, Release, Goto, txv
  <1>7. Wants'
    BY ProcsAre DEF Base, Shape, ThreadShape, Wants, Release, Goto, force
  <1> QED BY <1>1, <1>2, <1>3, <1>4, <1>5, <1>6, <1>7 DEF Base, Shape

\* xlog_sync; a refused write starts its own completion.
LEMMA SyncBase ==
  ASSUME Base, NEW p \in Txs \cup Syncers, Sync(p)
  PROVE  Base' /\ Kept
  <1>0. \/ UNCHANGED <<ctx, torn>> /\ pc' = [pc EXCEPT ![p] = "released"]
        \/ /\ Dead /\ pc' = [pc EXCEPT ![p] = "donesync"]
           /\ CtxShape' /\ \A q \in Procs \ {p} : ctx'[q] = ctx[q]
           /\ ctx'[p].got = <<>> /\ ctx'[p].then = "eio"
    <2>1. /\ p \in Procs /\ "eio" \in {"idle", "eio", "donesync", "dead"} /\ ic[p] \in Iclogs
          /\ head \in Iclogs
      BY ProcsAre DEF Base, Shape, RingShape, Threads, Sync
    <2>2. CASE UNCHANGED <<ctx, torn>> /\ pc' = [pc EXCEPT ![p] = "released"]
      BY <2>2
    <2>3. CASE /\ st[ic[p]] = "IOERROR" /\ pc' = [pc EXCEPT ![p] = "donesync"]
               /\ ctx' = [ctx EXCEPT ![p] = [NoCtx EXCEPT !.ab = TRUE, !.ci = ic[p], !.then = "eio"]]
      <3>1. Dead
        BY <2>1, <2>3 DEF Base, AllDead, Dead
      <3> QED BY <2>1, <2>3, <3>1, CtxRefused DEF Base, Shape
    <2> QED BY <2>3 DEF Sync, Goto
  <1>1. CallShape' /\ TxShape' /\ ForceShape' /\ Bounded'
    BY Frame DEF Base, Shape, Sync, txv
  <1>2. RingShape'
    <2>1. PICK b \in BWrites : bw' = [bw EXCEPT ![ic[p]] = b]
      BY DEF Sync
    <2>2. b \in Int
      BY IclogAssumption
    <2> QED BY <2>1, <2>2 DEF Base, Shape, RingShape, Sync
  <1>3. DiskShape'
    <2>1. PICK b \in BWrites : \/ flying' = [flying EXCEPT ![ic[p]] = b] /\ UNCHANGED torn
                               \/ torn' = torn \cup {ic[p]} /\ UNCHANGED flying
      BY DEF Sync
    <2>2. b \in 0 .. 2
      BY IclogAssumption
    <2>3. ic[p] \in Iclogs
      BY ProcsAre DEF Base, Threads, Sync
    <2> QED BY <2>1, <2>2, <2>3 DEF Base, Shape, DiskShape, Sync
  <1>4. ThreadShape' /\ TxOK' /\ Wants'
    BY <1>0, ProcsAre DEF Base, Shape, ThreadShape, Places, Sync, TxOK, txv, force, Wants
  <1>5. CtxShape' /\ Kept
    BY <1>0, ProcsAre DEF Base, Shape, CtxShape, TxShape, Kept, Committed, Sync, Goto, ring, io,
       txv, force
  <1>6. Threads'
    <2>1. \A q \in Procs : pc'[q] \in Held \cup {"released", "sync", "donesync", "forcewait"} =>
                             ic'[q] \in Iclogs
      BY <1>0 DEF Base, Shape, ThreadShape, Threads, Sync
    <2>2. \A q \in Procs : pc'[q] \in InLoop => ctx'[q].cur \in Iclogs
      BY <1>0 DEF Base, Shape, ThreadShape, Threads, InLoop
    <2>3. \A q \in Procs : pc'[q] = "cbrun" => ctx'[q].got # <<>>
      BY <1>0 DEF Base, Shape, ThreadShape, Threads
    <2>4. \A q \in Procs : ctx'[q].then = "donesync" => q \in Cpus /\ Dead' /\ ic'[q] \in Iclogs
      BY <1>0 DEF Base, Shape, Threads, Sync, Dead
    <2> QED BY <2>1, <2>2, <2>3, <2>4 DEF Threads
  <1>7. AllDead'
    <2>1. UNCHANGED <<st, head, called>> /\ (UNCHANGED torn \/ Dead)
      BY <1>0 DEF Sync
    <2> QED BY <1>0, <2>1 DEF Base, AllDead, Dead
  <1> QED BY <1>1, <1>2, <1>3, <1>4, <1>5, <1>6, <1>7 DEF Base, Shape

\* xlog_state_done_syncing.
LEMMA DoneSyncingBase ==
  ASSUME Base, NEW p \in Procs, DoneSyncing(p)
  PROVE  Base' /\ Kept
  <1>0. /\ ic[p] \in Iclogs
        /\ \/ ctx' = [ctx EXCEPT ![p] = NoCtx] /\ ~Dead /\ UNCHANGED <<st, awake>>
              /\ pc' = [pc EXCEPT ![p] = "idle"] /\ ic' = [ic EXCEPT ![p] = None]
           \/ /\ ctx' = [ctx EXCEPT ![p].ci = ic[p], ![p].then = After(p)]
              /\ pc' = [pc EXCEPT ![p] = "cbstart"] /\ UNCHANGED ic
              /\ awake' \subseteq Procs
              /\ \/ st' = st
                 \/ ~Dead /\ st' = [st EXCEPT ![ic[p]] = "DONE_SYNC"]
    <2>1. ic[p] \in Iclogs /\ (Dead <=> st[ic[p]] = "IOERROR")
      BY DEF Base, Shape, RingShape, Threads, AllDead, DoneSyncing, Dead
    <2>2. awake \subseteq Procs /\ WriteWaiters(ic[p]) \subseteq Procs
      BY ProcsAre DEF Base, Shape, ThreadShape, WriteWaiters
    <2> QED BY <2>1, <2>2 DEF DoneSyncing, Goto
  <1>00. /\ CtxShape' /\ \A q \in Procs \ {p} : ctx'[q] = ctx[q]
         /\ ctx'[p].then # "donesync"
         /\ ctx'[p].ab => ctx[p].ab
         /\ ctx'[p].got = ctx[p].got \/ ctx'[p].got = <<>>
    <2>1. ctx[p] \in Ctx /\ After(p) \in {"idle", "eio"}
      BY DEF Base, Shape, CtxShape, After
    <2>2. /\ ctx[p].got \in Seq(Txs) /\ ctx[p].cur \in Iclogs \cup {None} /\ 0 \in Nat
          /\ ctx[p].ab \in BOOLEAN
          /\ After(p) \in {"idle", "eio", "donesync", "dead"} /\ ic[p] \in Iclogs \cup {None}
      BY <1>0, <2>1 DEF Ctx
    <2>3. CASE ctx' = [ctx EXCEPT ![p] = NoCtx]
      BY <2>2, <2>3, CtxIdle DEF Base, Shape
    <2>4. CASE ctx' = [ctx EXCEPT ![p].ci = ic[p], ![p].then = After(p)]
      <3>1. CtxShape' /\ (\A q \in Procs \ {p} : ctx'[q] = ctx[q])
            /\ ctx'[p].then = After(p) /\ ctx'[p].ab = ctx[p].ab /\ ctx'[p].got = ctx[p].got
        BY <2>2, <2>4, CtxThen DEF Base, Shape
      <3> QED BY <2>1, <3>1
    <2> QED BY <1>0, <2>3, <2>4
  <1>1. DiskShape' /\ CallShape' /\ TxShape' /\ ForceShape' /\ Bounded'
    BY Frame DEF Base, Shape, DoneSyncing, txv
  <1>2. RingShape'
    <2>1. bw' \in [Iclogs -> Int]
      <3>1. bw' = bw \/ bw' = [bw EXCEPT ![ic[p]] = @ - 1]
        BY DEF DoneSyncing
      <3> QED BY <3>1 DEF Base, Shape, RingShape
    <2>2. st' \in [Iclogs -> States]
      BY <1>0 DEF Base, Shape, RingShape, States
    <2> QED BY <2>1, <2>2 DEF Base, Shape, RingShape, DoneSyncing
  <1>3. ThreadShape' /\ TxOK' /\ Wants'
    BY <1>0, ProcsAre DEF Base, Shape, ThreadShape, Places, TxOK, DoneSyncing, txv, Wants, force
  <1>4. CtxShape' /\ Kept
    BY <1>00, <1>0, ProcsAre DEF Base, Shape, CtxShape, TxShape, Kept, Committed, DoneSyncing,
       Goto, ring, io, txv, force, After, WriteWaiters
  <1>5. Threads'
    <2>1. \A q \in Procs : pc'[q] \in Held \cup {"released", "sync", "donesync", "forcewait"} =>
                             ic'[q] \in Iclogs
      BY <1>0 DEF Base, Shape, ThreadShape, Threads, Held
    <2>2. \A q \in Procs : pc'[q] \in InLoop => ctx'[q].cur \in Iclogs
      BY <1>0, <1>00 DEF Base, Shape, ThreadShape, Threads, InLoop
    <2>3. \A q \in Procs : pc'[q] = "cbrun" => ctx'[q].got # <<>>
      BY <1>0, <1>00 DEF Base, Shape, ThreadShape, Threads
    <2>4. \A q \in Procs : ctx'[q].then = "donesync" => q \in Cpus /\ Dead' /\ ic'[q] \in Iclogs
      <3>1. Dead => Dead'
        BY <1>0 DEF DoneSyncing, Dead
      <3> QED BY <1>0, <1>00, <3>1 DEF Base, Shape, Threads
    <2> QED BY <2>1, <2>2, <2>3, <2>4 DEF Threads
  <1>6. AllDead'
    <2>1. \A j, k \in Iclogs : st'[j] = "IOERROR" => st'[k] = "IOERROR"
      BY <1>0 DEF Base, Shape, RingShape, AllDead, Dead
    <2>2. Dead => Dead'
      BY <1>0 DEF DoneSyncing, Dead
    <2>3. UNCHANGED <<torn, called>>
      BY DEF DoneSyncing, io
    <2> QED BY <1>00, <2>1, <2>2, <2>3 DEF Base, AllDead
  <1> QED BY <1>1, <1>2, <1>3, <1>4, <1>5, <1>6 DEF Base, Shape

\* xlog_state_do_callback up to its first iclog.
LEMMA CbStartBase ==
  ASSUME Base, NEW p \in Procs, CbStart(p)
  PROVE  Base' /\ Kept
  <1>0. /\ st' \in [Iclogs -> States]
        /\ ThreadShape' /\ CtxShape' /\ Threads' /\ AllDead' /\ TxOK' /\ Wants'
        /\ \A q \in Procs : ctx'[q].got = ctx[q].got \/ ctx'[q].got = <<>>
    <2>1. /\ st \in [Iclogs -> States] /\ lsn \in [Iclogs -> Nat] /\ head \in Iclogs
          /\ N \in Nat /\ FALSE \in BOOLEAN /\ {} \subseteq Procs
      BY IclogAssumption DEF Base, Shape, RingShape
    <2>2. ctx[p].ci \in Iclogs \cup {None}
      BY DEF Base, Shape, CtxShape, Ctx
    <2>3. PICK r : r = Scan(ctx[p].ci, st, lsn, head, N, FALSE, FALSE)
      OBVIOUS
    <2>4. Scanned(st, lsn, r)
      BY <2>1, <2>2, <2>3, ScanEffect
    <2>5. Resume(p, r, FALSE, {})
      BY <2>3 DEF CbStart, Resume
    <2>6. pc[p] \in {"cbstart", "cbgrab"} /\ UNCHANGED <<head, torn, called, left, phase, want>>
      BY DEF CbStart, io, txv, force
    <2>7. PICK s, l, e, up : s = st /\ l = lsn /\ e = FALSE /\ up = {}
      OBVIOUS
    <2>8. Resume(p, r, e, up)
      BY <2>5, <2>7 DEF Resume
    <2>9. /\ s \in [Iclogs -> States] /\ l \in [Iclogs -> Nat] /\ Scanned(s, l, r)
          /\ e \in BOOLEAN /\ up \subseteq Procs
          /\ \A j \in Iclogs : s[j] = "IOERROR" <=> st[j] = "IOERROR"
      BY <2>1, <2>4, <2>7
    <2> HIDE <2>7
    <2> QED BY <2>6, <2>8, <2>9, ScanBase
  <1>1. DiskShape' /\ CallShape' /\ TxShape' /\ ForceShape' /\ Bounded'
    BY Frame DEF Base, Shape, CbStart, txv
  <1>2. RingShape' /\ CtxShape' /\ Kept
    BY <1>0, ProcsAre DEF Base, Shape, RingShape, CbStart, CtxShape, TxShape, Kept, Committed,
       Goto, ring, io, txv, force, Resume
  <1>3. ThreadShape' /\ Threads' /\ AllDead' /\ TxOK' /\ Wants'
    BY <1>0
  <1> QED BY <1>1, <1>2, <1>3 DEF Base, Shape

\* l_last_sync_lsn is moved.
LEMMA CbLastSyncBase ==
  ASSUME Base, NEW p \in Procs, CbLastSync(p)
  PROVE  Base' /\ Kept
  <1>1. RingShape' /\ CallShape' /\ CtxShape' /\ TxShape' /\ ForceShape' /\ AllDead' /\ Bounded' /\ Kept
    BY Frame DEF Base, Shape, CbLastSync, ring, io, txv
  <1>2. DiskShape'
    BY DEF Base, Shape, DiskShape, RingShape, Threads, InLoop, CbLastSync, io
  <1>3. ThreadShape' /\ Threads' /\ TxOK' /\ Wants'
    BY DEF Base, Shape, ThreadShape, Threads, Held, InLoop, Places, CbLastSync, Goto, ring, txv,
       force, Dead, TxOK, Wants
  <1> QED BY <1>1, <1>2, <1>3 DEF Base, Shape

\* The callbacks of an iclog are taken.
LEMMA CbGrabBase ==
  ASSUME Base, NEW p \in Procs, CbGrab(p)
  PROVE  Base'
  <1>0. /\ CtxShape' /\ \A q \in Procs \ {p} : ctx'[q] = ctx[q]
        /\ ctx'[p].got = cbs[ctx[p].cur] /\ ctx'[p].ab = ctx[p].ab /\ ctx'[p].cur = ctx[p].cur
        /\ ctx'[p].then = ctx[p].then /\ ctx[p].cur \in Iclogs
    <2>1. ctx[p] \in Ctx /\ ctx[p].cur \in Iclogs
      BY DEF Base, Shape, CtxShape, Threads, InLoop, CbGrab
    <2>2. /\ cbs[ctx[p].cur] \in Seq(Txs) /\ 0 \in Nat /\ FALSE \in BOOLEAN
          /\ "idle" \in {"idle", "eio", "donesync", "dead"} /\ None \in Iclogs \cup {None}
      BY <2>1 DEF Base, Shape, CallShape
    <2> QED BY <2>1, <2>2, CtxGot DEF Base, Shape, CbGrab
  <1>1. RingShape' /\ DiskShape' /\ TxShape' /\ ForceShape' /\ Bounded'
    BY Frame DEF Base, Shape, CbGrab, ring, txv
  <1>2. CallShape' /\ CtxShape'
    BY <1>0 DEF Base, Shape, CallShape, CbGrab
  <1>3. ThreadShape' /\ AllDead' /\ TxOK' /\ Wants'
    BY ProcsAre, SuccIs, <1>0 DEF Base, Shape, ThreadShape, RingShape, Threads, Held, InLoop,
       Places, CbGrab, Goto, ring, io, txv, force, AllDead, Dead, TxShape, TxOK, ForceShape, Wants
  <1>4. Threads'
    <2>1. \A q \in Procs : pc'[q] \in Held \cup {"released", "sync", "donesync", "forcewait"} =>
                             ic'[q] \in Iclogs
      BY DEF Base, Shape, Threads, Held, CbGrab, Goto
    <2>2. \A q \in Procs : pc'[q] \in InLoop => ctx'[q].cur \in Iclogs
      BY <1>0 DEF Base, Shape, Threads, CbGrab, Goto
    <2>3. \A q \in Procs : pc'[q] = "cbrun" => ctx'[q].got # <<>>
      BY <1>0 DEF Base, Shape, Threads, CbGrab, Goto
    <2>4. \A q \in Procs : ctx'[q].then = "donesync" => q \in Cpus /\ Dead' /\ ic'[q] \in Iclogs
      BY DEF Base, Shape, Threads, CbGrab, Dead, ring
    <2> QED BY <2>1, <2>2, <2>3, <2>4 DEF Threads
  <1> QED BY <1>1, <1>2, <1>3, <1>4 DEF Base, Shape

\* One callback is run.
LEMMA CbRunBase ==
  ASSUME Base, NEW p \in Procs, CbRun(p)
  PROVE  Base'
  <1>0. /\ CtxShape' /\ \A q \in Procs \ {p} : ctx'[q] = ctx[q]
        /\ ctx'[p].got = Tail(ctx[p].got) /\ ctx'[p].ab = ctx[p].ab /\ ctx'[p].cur = ctx[p].cur
        /\ ctx'[p].then = ctx[p].then /\ ctx[p].cur \in Iclogs
        /\ ctx[p].got \in Seq(Txs) /\ Head(ctx[p].got) \in Txs /\ ctx[p].ab \in BOOLEAN
        /\ Len(ctx[p].got) # 1 => Tail(ctx[p].got) # <<>>
    <2>1. /\ ctx[p] \in Ctx /\ ctx[p].cur \in Iclogs /\ ctx[p].got # <<>>
      BY DEF Base, Shape, CtxShape, Threads, InLoop, CbRun
    <2>2. ctx[p].got \in Seq(Txs) /\ ctx[p].ab \in BOOLEAN
      BY <2>1 DEF Ctx
    <2>3. /\ Head(ctx[p].got) \in Txs /\ Tail(ctx[p].got) \in Seq(Txs)
          /\ Len(Tail(ctx[p].got)) = Len(ctx[p].got) - 1 /\ Len(ctx[p].got) \in Nat \ {0}
      BY <2>1, <2>2
    <2>4. /\ 0 \in Nat /\ FALSE \in BOOLEAN
          /\ "idle" \in {"idle", "eio", "donesync", "dead"} /\ None \in Iclogs \cup {None}
      OBVIOUS
    <2>5. Len(ctx[p].got) # 1 => Tail(ctx[p].got) # <<>>
      <3>1. Len(<<>>) = 0
        OBVIOUS
      <3>2. Tail(ctx[p].got) = <<>> => Len(Tail(ctx[p].got)) = 0
        BY <3>1, Zenon
      <3> QED BY <2>3, <3>2
    <2> QED BY <2>1, <2>2, <2>3, <2>4, <2>5, CtxGot DEF Base, Shape, CbRun
  <1>1. RingShape' /\ DiskShape' /\ TxShape' /\ ForceShape' /\ Bounded'
    BY Frame DEF Base, Shape, CbRun, ring, txv
  <1>2. CallShape'
    <2> DEFINE e == [tx |-> Head(ctx[p].got), ab |-> ctx[p].ab]
    <2>1. e \in [tx : Txs, ab : BOOLEAN]
      BY <1>0
    <2>2. called' = Append(called, e) /\ cbs' = cbs
      BY DEF CbRun
    <2> HIDE DEF e
    <2>3. Append(called, e) \in Seq([tx : Txs, ab : BOOLEAN])
      BY <2>1 DEF Base, Shape, CallShape
    <2> QED BY <2>2, <2>3 DEF Base, Shape, CallShape
  <1>3. ThreadShape' /\ TxOK' /\ Wants'
    BY DEF Base, Shape, ThreadShape, InLoop, Places, CbRun, Goto, txv, force, TxOK, Wants
  <1>4. CtxShape'
    BY <1>0
  <1>5. Threads'
    <2>1. \A q \in Procs : pc'[q] \in Held \cup {"released", "sync", "donesync", "forcewait"} =>
                             ic'[q] \in Iclogs
      BY DEF Base, Shape, Threads, Held, CbRun, Goto
    <2>2. \A q \in Procs : pc'[q] \in InLoop => ctx'[q].cur \in Iclogs
      BY <1>0 DEF Base, Shape, Threads, CbRun, Goto
    <2>3. \A q \in Procs : pc'[q] = "cbrun" => ctx'[q].got # <<>>
      BY <1>0 DEF Base, Shape, ThreadShape, Threads, CbRun, Goto
    <2>4. \A q \in Procs : ctx'[q].then = "donesync" => q \in Cpus /\ Dead' /\ ic'[q] \in Iclogs
      BY DEF Base, Shape, Threads, CbRun, Dead, ring
    <2> QED BY <2>1, <2>2, <2>3, <2>4 DEF Threads
  <1>6. AllDead'
    <2> DEFINE e == [tx |-> Head(ctx[p].got), ab |-> ctx[p].ab]
    <2>1. UNCHANGED <<st, head, torn>> /\ called' = Append(called, e) /\ (e.ab => Dead)
      BY DEF CbRun, ring, io, Base, AllDead
    <2> HIDE DEF e
    <2>2. \A k \in DOMAIN called' : called'[k].ab => Dead
      <3>1. called \in Seq([tx : Txs, ab : BOOLEAN])
        BY DEF Base, Shape, CallShape
      <3> HIDE <1>0
      <3>2. Len(called') = Len(called) + 1 /\ DOMAIN called' = 1 .. Len(called')
            /\ called'[Len(called')] = e /\ \A k \in DOMAIN called : called'[k] = called[k]
            /\ DOMAIN called = 1 .. Len(called)
        BY <2>1
      <3> QED BY <2>1 DEF Base, AllDead
    <2> QED BY <1>0, <2>1, <2>2 DEF Base, AllDead, Dead
  <1> QED BY <1>1, <1>2, <1>3, <1>4, <1>5, <1>6 DEF Base, Shape

\* xlog_state_do_callback from the last callback of one iclog to the next iclog.
LEMMA CbFinishBase ==
  ASSUME Base, NEW p \in Procs, CbFinish(p)
  PROVE  Base' /\ Kept
  <1> DEFINE i == ctx[p].cur
             s == IF st[i] = "IOERROR" THEN st ELSE [st EXCEPT ![i] = "DIRTY"]
             fresh == Cleaned(s)
             s1 == [j \in Iclogs |-> IF j \in fresh THEN "ACTIVE" ELSE s[j]]
  <1>i. i \in Iclogs /\ ctx[p] \in Ctx
    BY DEF Base, Shape, CtxShape, Threads, InLoop, CbFinish
  <1>r. PICK r, up, e : /\ r = Scan(ctx[p].ci, s1, lsn', Succ(i), ctx[p].left, TRUE, e)
                        /\ up = ForceWaiters(i) /\ e = ctx[p].err
    OBVIOUS
  <1>c. /\ off' = [j \in Iclogs |-> IF j \in fresh THEN 0 ELSE off[j]]
        /\ lsn' = [j \in Iclogs |-> IF j \in fresh THEN 0 ELSE lsn[j]]
        /\ Resume(p, r, e, up)
        /\ UNCHANGED <<ref, bw, head, curr, cbs, lastSync, shut, io, txv, force, called>>
        /\ pc[p] = "cbgrab"
    BY <1>r DEF CbFinish, Resume
  <1>s. s \in [Iclogs -> States]
    BY <1>i DEF Base, Shape, RingShape, States
  <1>f. \A j \in fresh : s[j] = "DIRTY"
    BY DEF Cleaned
  <1> HIDE DEF fresh, i
  <1>l. lsn' \in [Iclogs -> Nat] /\ off' \in [Iclogs -> 0 .. Cap]
    BY <1>c, IclogAssumption DEF Base, Shape, RingShape
  <1>0. /\ st' \in [Iclogs -> States]
        /\ ThreadShape' /\ CtxShape' /\ Threads' /\ AllDead' /\ TxOK' /\ Wants'
        /\ \A q \in Procs : ctx'[q].got = ctx[q].got \/ ctx'[q].got = <<>>
    <2>1. s1 \in [Iclogs -> States]
      BY <1>s DEF States
    <2>2. \A j \in Iclogs : s1[j] = "IOERROR" <=> st[j] = "IOERROR"
      BY <1>f DEF Base, Shape
    <2>3. /\ Succ(i) \in Iclogs /\ ctx[p].left \in Nat /\ e \in BOOLEAN /\ head \in Iclogs
          /\ ctx[p].ci \in Iclogs \cup {None}
      BY <1>i, <1>r, SuccIs DEF Ctx, Base, Shape, RingShape
    <2>4. up \subseteq Procs
      BY <1>r, ProcsAre DEF ForceWaiters
    <2>5. UNCHANGED <<head, torn, called, left, phase, want>> /\ pc[p] \in {"cbstart", "cbgrab"}
      BY <1>c DEF io, txv, force
    <2> HIDE DEF s1
    <2>6. Scanned(s1, lsn', r)
      BY <1>l, <1>r, <2>1, <2>3, ScanEffect
    <2> QED BY <1>c, <1>l, <2>1, <2>2, <2>3, <2>4, <2>5, <2>6, ScanBase
  <1>1. DiskShape' /\ CallShape' /\ TxShape' /\ ForceShape'
    BY Frame DEF Base, Shape, CbFinish
  <1>2. RingShape'
    BY <1>0, <1>c, <1>l DEF Base, Shape, RingShape
  <1>3. ThreadShape' /\ Threads' /\ AllDead' /\ TxOK' /\ Wants'
    BY <1>0
  <1>4. CtxShape'
    BY <1>0
  <1>5. Bounded'
    BY <1>c DEF Base, Shape, RingShape, Bounded, txv
  <1>6. Kept
    BY <1>0, ProcsAre DEF Base, Shape, CtxShape, TxShape, Kept, Committed, CbFinish, Goto, ring,
       io, txv, force, Resume
  <1> QED BY <1>1, <1>2, <1>3, <1>4, <1>5, <1>6 DEF Base, Shape

\* A buffer write has succeeded.
LEMMA IodoneOkBase ==
  ASSUME Base, NEW c \in Cpus, NEW i \in Iclogs, IodoneOk(c, i)
  PROVE  Base' /\ Kept
  <1>0. /\ CtxShape' /\ \A q \in Procs \ {c} : ctx'[q] = ctx[q]
        /\ ctx'[c].ab = (st[i] = "IOERROR") /\ ctx'[c].got = ctx[c].got
        /\ ctx'[c].cur = ctx[c].cur /\ ctx'[c].then = ctx[c].then
    <2>1. c \in Procs /\ (st[i] = "IOERROR") \in BOOLEAN
      BY ProcsAre
    <2>2. PICK b \in BOOLEAN : b = (st[i] = "IOERROR")
      OBVIOUS
    <2>3. ctx' = [ctx EXCEPT ![c].ab = b]
      BY <2>2 DEF IodoneOk
    <2>4. /\ CtxShape' /\ \A q \in Procs \ {c} : ctx'[q] = ctx[q]
          /\ ctx'[c].ab = b /\ ctx'[c].got = ctx[c].got
          /\ ctx'[c].cur = ctx[c].cur /\ ctx'[c].then = ctx[c].then
      BY <2>1, <2>3, CtxAb DEF Base, Shape
    <2> QED BY <2>2, <2>4
  <1>1. RingShape' /\ CallShape' /\ TxShape' /\ ForceShape' /\ Bounded'
    BY Frame DEF Base, Shape, IodoneOk, ring, txv
  <1>2. DiskShape' /\ CtxShape' /\ Kept
    BY <1>0 DEF Base, Shape, DiskShape, RingShape, IodoneOk, txv, Kept, Committed
  <1>3. ThreadShape' /\ TxOK' /\ Wants'
    BY ProcsAre DEF Base, Shape, ThreadShape, Places, IodoneOk, Goto, txv, force, TxOK, Wants
  <1>4. Threads'
    <2>1. \A q \in Procs : pc'[q] \in Held \cup {"released", "sync", "donesync", "forcewait"} =>
                             ic'[q] \in Iclogs
      BY DEF Base, Shape, ThreadShape, Threads, IodoneOk, Goto
    <2>2. \A q \in Procs : pc'[q] \in InLoop => ctx'[q].cur \in Iclogs
      BY DEF Base, Shape, Threads, IodoneOk, Goto, InLoop
    <2>3. \A q \in Procs : pc'[q] = "cbrun" => ctx'[q].got # <<>>
      BY DEF Base, Shape, Threads, IodoneOk, Goto
    <2>4. \A q \in Procs : ctx'[q].then = "donesync" => q \in Cpus /\ Dead' /\ ic'[q] \in Iclogs
      BY DEF Base, Shape, Threads, IodoneOk, Dead, ring
    <2> QED BY <2>1, <2>2, <2>3, <2>4 DEF Threads
  <1>5. AllDead'
    <2>1. st[i] = "IOERROR" => Dead
      BY DEF Base, Shape, RingShape, AllDead, Dead
    <2>2. UNCHANGED <<st, head, torn, called>>
      BY DEF IodoneOk, ring
    <2> QED BY <1>0, <2>1, <2>2, ProcsAre DEF Base, AllDead, Dead
  <1> QED BY <1>1, <1>2, <1>3, <1>4, <1>5 DEF Base, Shape

\* A buffer write has failed: all iclogs are dead.
LEMMA IodoneErrorBase ==
  ASSUME Base, NEW c \in Cpus, NEW i \in Iclogs, IodoneError(c, i)
  PROVE  Base' /\ Kept
  <1>d. st' \in [Iclogs -> States] /\ (\A j \in Iclogs : st'[j] = "IOERROR") /\ head' = head
    BY AllIoerrorIs DEF Base, Shape, IodoneError
  <1>e. Dead'
    BY <1>d DEF Base, Shape, RingShape, Dead
  <1>p. c \in Procs
    BY ProcsAre
  <1>0. /\ CtxShape' /\ \A q \in Procs \ {c} : ctx'[q] = ctx[q]
        /\ \/ /\ ctx'[c].got = ctx[c].got /\ ctx'[c].then = ctx[c].then
              /\ ctx'[c].cur = ctx[c].cur
           \/ ctx'[c].got = <<>> /\ ctx'[c].then = "donesync"
        /\ pc' = [pc EXCEPT ![c] = "donesync"] \/ pc' = [pc EXCEPT ![c] = "cbstart"]
    <2>1. CASE st[head] = "IOERROR"
      <3>1. ctx' = [ctx EXCEPT ![c].ab = TRUE] /\ pc' = [pc EXCEPT ![c] = "donesync"]
        BY <2>1 DEF IodoneError, Goto
      <3>2. TRUE \in BOOLEAN
        OBVIOUS
      <3> QED BY <1>p, <3>1, <3>2, CtxAb DEF Base, Shape
    <2>2. CASE st[head] # "IOERROR"
      <3>1. /\ ctx' = [ctx EXCEPT ![c] = [NoCtx EXCEPT !.ab = TRUE, !.then = "donesync"]]
            /\ pc' = [pc EXCEPT ![c] = "cbstart"]
        BY <2>2 DEF IodoneError, Goto
      <3>2. "donesync" \in {"idle", "eio", "donesync", "dead"}
        OBVIOUS
      <3> QED BY <1>p, <3>1, <3>2, CtxShutdown DEF Base, Shape
    <2> QED BY <2>1, <2>2
  <1>1. CallShape' /\ TxShape' /\ ForceShape' /\ Bounded'
    BY Frame DEF Base, Shape, IodoneError, txv
  <1>2. RingShape'
    BY <1>d DEF Base, Shape, RingShape, IodoneError
  <1>3. DiskShape'
    BY DEF Base, Shape, DiskShape, IodoneError
  <1>4. ThreadShape' /\ AllDead' /\ TxOK' /\ Wants'
    BY <1>0, <1>d, <1>e, ProcsAre DEF Base, Shape, ThreadShape, Places, IodoneError, AllDead,
       TxOK, txv, Wants, force
  <1>5. CtxShape'
    BY <1>0
  <1>6. Threads'
    <2>1. \A q \in Procs : pc'[q] \in Held \cup {"released", "sync", "donesync", "forcewait"} =>
                             ic'[q] \in Iclogs
      BY <1>0 DEF Base, Shape, ThreadShape, Threads, IodoneError
    <2>2. \A q \in Procs : pc'[q] \in InLoop => ctx'[q].cur \in Iclogs
      BY <1>0 DEF Base, Shape, ThreadShape, Threads, InLoop
    <2>3. \A q \in Procs : pc'[q] = "cbrun" => ctx'[q].got # <<>>
      BY <1>0 DEF Base, Shape, ThreadShape, Threads
    <2>4. \A q \in Procs : ctx'[q].then = "donesync" => q \in Cpus /\ Dead' /\ ic'[q] \in Iclogs
      BY <1>0, <1>e DEF Base, Shape, ThreadShape, Threads, IodoneError
    <2> QED BY <2>1, <2>2, <2>3, <2>4 DEF Threads
  <1>7. Kept
    BY <1>0, ProcsAre DEF Base, Shape, CtxShape, TxShape, Kept, Committed, IodoneError, Goto,
       ring, io, txv, force, AllIoerror
  <1> QED BY <1>1, <1>2, <1>3, <1>4, <1>5, <1>6, <1>7 DEF Base, Shape

\* A force returns.
LEMMA ForceReturnsBase ==
  ASSUME Base, NEW f \in Forcers, ForceReturns(f)
  PROVE  Base' /\ Kept
  <1>1. RingShape' /\ DiskShape' /\ CallShape' /\ CtxShape' /\ TxShape' /\ AllDead' /\ Bounded' /\ Kept
    BY Frame DEF Base, Shape, ForceReturns, ring, io, txv
  <1>2. ThreadShape' /\ Threads' /\ TxOK' /\ Wants'
    BY ProcsAre DEF Base, Shape, ThreadShape, Threads, Held, InLoop, Places, ForceReturns, Goto,
       ring, txv, Dead, TxOK, Wants
  <1>3. ForceShape'
    BY ProcsAre DEF Base, Shape, ForceShape, ForceReturns
  <1> QED BY <1>1, <1>2, <1>3 DEF Base, Shape

\* Both force routines, under the lock: the forcer returns, goes to sleep on an
\* iclog, or closes the current iclog and is about to release it.
LEMMA ForcerBase ==
  ASSUME Base, NEW f \in Syncers,
         UNCHANGED <<lsn, off, bw, cbs, lastSync, shut, io, awake, ctx, txv, want, called>>,
         \/ UNCHANGED <<st, ref, head, curr>>
         \/ ~Dead /\ SwitchIclogs /\ (UNCHANGED ref \/ ref' = [ref EXCEPT ![head] = @ + 1]),
         \/ Goto(f, "eio") /\ UNCHANGED ic
         \/ Goto(f, "ok") /\ UNCHANGED ic
         \/ \E i \in Iclogs : SleepOn(f, i)
         \/ Goto(f, "writewait") /\ want[f] # 0 /\ \E i \in Iclogs : ic' = [ic EXCEPT ![f] = i]
         \/ CloseAndRelease(f)
  PROVE  /\ RingShape' /\ DiskShape' /\ CallShape' /\ ThreadShape' /\ CtxShape' /\ TxShape'
         /\ Threads' /\ AllDead' /\ TxOK' /\ Bounded' /\ Wants' /\ Kept
  <1>1. f \in Procs \ (Txs \cup Cpus) /\ head \in Iclogs
    BY ProcsAre DEF Base, Shape, RingShape
  <1>2. ASSUME NEW i \in Iclogs, SleepOn(f, i)
        PROVE  \/ Goto(f, "eio") /\ ic' = [ic EXCEPT ![f] = None]
               \/ Goto(f, "ok") /\ ic' = [ic EXCEPT ![f] = None]
               \/ Goto(f, "forcewait") /\ ic' = [ic EXCEPT ![f] = i]
    <2>1. CASE ~sync[f]
      BY <1>2, <2>1 DEF SleepOn, Goto
    <2>2. CASE sync[f] /\ st[i] = "IOERROR"
      BY <1>2, <2>2 DEF SleepOn
    <2>3. CASE sync[f] /\ st[i] # "IOERROR"
      BY <1>2, <2>3 DEF SleepOn
    <2> QED BY <2>1, <2>2, <2>3
  <1>3. /\ ic' \in [Procs -> Iclogs \cup {None}]
        /\ pc'[f] \in {"eio", "ok", "forcewait", "writewait", "release"}
        /\ (pc'[f] \in {"forcewait", "release"} => ic'[f] \in Iclogs)
        /\ (pc'[f] = "writewait" => want[f] # 0)
        /\ \A q \in Procs \ {f} : pc'[q] = pc[q] /\ ic'[q] = ic[q]
        /\ \E l \in {"eio", "ok", "forcewait", "writewait", "release"} : pc' = [pc EXCEPT ![f] = l]
    BY <1>1, <1>2 DEF Base, Shape, ThreadShape, CloseAndRelease, Goto
  <1>4. pc' \in [Procs -> Places]
    BY <1>1, <1>3 DEF Base, Shape, ThreadShape, Places, Held
  <1>5. RingShape' /\ (Dead => Dead')
    <2>1. ref' \in [Iclogs -> Int]
      BY DEF Base, Shape, RingShape
    <2> QED BY SwitchIs DEF Base, Shape, RingShape, Dead
  <1>6. DiskShape' /\ CallShape' /\ CtxShape' /\ TxShape' /\ Kept
    BY Frame DEF Base, Shape, txv
  <1>7. ThreadShape' /\ TxOK' /\ Wants'
    BY <1>1, <1>3, <1>4 DEF Base, Shape, ThreadShape, TxOK, Wants, txv
  <1>8. Threads'
    <2>1. \A q \in Procs : pc'[q] \in Held \cup {"released", "sync", "donesync", "forcewait"} =>
                             ic'[q] \in Iclogs
      BY <1>3 DEF Base, Threads, Held
    <2>2. \A q \in Procs : pc'[q] \in InLoop => ctx'[q].cur \in Iclogs
      BY <1>3 DEF Base, Threads, InLoop
    <2>3. \A q \in Procs : pc'[q] = "cbrun" => ctx'[q].got # <<>>
      BY <1>3 DEF Base, Threads
    <2>4. \A q \in Procs : ctx'[q].then = "donesync" => q \in Cpus /\ Dead' /\ ic'[q] \in Iclogs
      BY <1>1, <1>3, <1>5 DEF Base, Threads
    <2> QED BY <2>1, <2>2, <2>3, <2>4 DEF Threads
  <1>9. AllDead'
    <2>1. \A i, j \in Iclogs : st'[i] = "IOERROR" => st'[j] = "IOERROR"
      BY SwitchIs DEF Base, Shape, AllDead, Dead
    <2> QED BY <1>5, <2>1 DEF Base, AllDead, io
  <1>10. Bounded'
    BY DEF Base, Shape, RingShape, TxShape, Bounded, SwitchIclogs, txv
  <1> QED BY <1>5, <1>6, <1>7, <1>8, <1>9, <1>10

\* xlog_state_sync_all.
LEMMA SyncAllBase ==
  ASSUME Base, NEW f \in Syncers, SyncAll(f)
  PROVE  Base' /\ Kept
  <1>1. ForceShape'
    BY DEF Base, Shape, ForceShape, RingShape, SyncAll
  <1>2. /\ UNCHANGED <<lsn, off, bw, cbs, lastSync, shut, io, awake, ctx, txv, want, called>>
        /\ \/ UNCHANGED <<st, ref, head, curr>>
           \/ ~Dead /\ SwitchIclogs /\ (UNCHANGED ref \/ ref' = [ref EXCEPT ![head] = @ + 1])
    BY DEF SyncAll, CloseAndRelease, Dead
  <1>3. \/ Goto(f, "eio") /\ UNCHANGED ic
        \/ Goto(f, "ok") /\ UNCHANGED ic
        \/ \E i \in Iclogs : SleepOn(f, i)
        \/ CloseAndRelease(f)
    <2>1. head \in Iclogs /\ Pred(head) \in Iclogs
      BY SuccIs DEF Base, Shape, RingShape
    <2> QED BY <2>1 DEF SyncAll
  <1> QED BY <1>1, <1>2, <1>3, ForcerBase DEF Base, Shape

\* xlog_state_sync.
LEMMA SyncOneBase ==
  ASSUME Base, NEW f \in Syncers, SyncOne(f)
  PROVE  Base' /\ Kept
  <1>1. ForceShape' /\ want[f] # 0
    BY DEF Base, Shape, ForceShape, Wants, SyncOne, force
  <1>2. /\ UNCHANGED <<lsn, off, bw, cbs, lastSync, shut, io, awake, ctx, txv, want, called>>
        /\ \/ UNCHANGED <<st, ref, head, curr>>
           \/ ~Dead /\ SwitchIclogs /\ (UNCHANGED ref \/ ref' = [ref EXCEPT ![head] = @ + 1])
    BY DEF Base, Shape, RingShape, AllDead, SyncOne, CloseAndRelease, Dead, force
  <1>3. \/ Goto(f, "eio") /\ UNCHANGED ic
        \/ Goto(f, "ok") /\ UNCHANGED ic
        \/ \E i \in Iclogs : SleepOn(f, i)
        \/ Goto(f, "writewait") /\ \E i \in Iclogs : ic' = [ic EXCEPT ![f] = i]
        \/ CloseAndRelease(f)
    <2>1. \A i \in Iclogs : Pred(i) \in Iclogs
      BY SuccIs
    <2> HIDE DEF Pred
    <2>2. ASSUME NEW i \in Iclogs, ic' = [ic EXCEPT ![f] = Pred(i)]
          PROVE  \E j \in Iclogs : ic' = [ic EXCEPT ![f] = j]
      BY <2>1, <2>2
    <2>3. \/ Goto(f, "eio") /\ UNCHANGED ic
          \/ Goto(f, "ok") /\ UNCHANGED ic
          \/ \E i \in Iclogs : ic' = [ic EXCEPT ![f] = Pred(i)] /\ Goto(f, "writewait")
          \/ CloseAndRelease(f)
          \/ \E i \in Iclogs : SleepOn(f, i)
      BY DEF SyncOne
    <2> QED BY <2>2, <2>3
  <1> QED BY <1>1, <1>2, <1>3, ForcerBase DEF Base, Shape

\* A force after its release.
LEMMA ForceReleasedBase ==
  ASSUME Base, NEW f \in Syncers, ForceReleased(f)
  PROVE  Base' /\ Kept
  <1>0. /\ f \in Procs /\ ic[f] \in Iclogs
        /\ \/ pc' = [pc EXCEPT ![f] = "ok"] /\ ic' = [ic EXCEPT ![f] = None]
           \/ pc' = [pc EXCEPT ![f] = "eio"] /\ ic' = [ic EXCEPT ![f] = None]
           \/ pc' = [pc EXCEPT ![f] = "forcewait"] /\ ic' = [ic EXCEPT ![f] = ic[f]]
    <2>1. f \in Procs /\ ic[f] \in Iclogs
      BY ProcsAre DEF Base, Threads, ForceReleased
    <2>2. CASE SleepOn(f, ic[f])
      <3>1. CASE ~sync[f]
        BY <2>1, <2>2, <3>1 DEF SleepOn, Goto
      <3>2. CASE sync[f] /\ st[ic[f]] = "IOERROR"
        BY <2>1, <2>2, <3>2 DEF SleepOn, Goto
      <3>3. CASE sync[f] /\ st[ic[f]] # "IOERROR"
        BY <2>1, <2>2, <3>3 DEF SleepOn, Goto
      <3> QED BY <3>1, <3>2, <3>3
    <2>3. CASE Goto(f, "ok") /\ ic' = [ic EXCEPT ![f] = None]
      BY <2>1, <2>3 DEF Goto
    <2> QED BY <2>2, <2>3 DEF ForceReleased
  <1>1. /\ RingShape' /\ DiskShape' /\ CallShape' /\ CtxShape' /\ TxShape'
        /\ ForceShape' /\ AllDead' /\ Bounded' /\ Kept
    BY Frame DEF Base, Shape, ForceReleased, ring, io, txv
  <1>2. ThreadShape' /\ TxOK' /\ Wants'
    BY <1>0, ProcsAre DEF Base, Shape, ThreadShape, Places, ForceReleased, TxOK, txv, Wants, force
  <1>3. Threads'
    <2>1. \A q \in Procs : pc'[q] \in Held \cup {"released", "sync", "donesync", "forcewait"} =>
                             ic'[q] \in Iclogs
      BY <1>0 DEF Base, Shape, ThreadShape, Threads, Held
    <2>2. \A q \in Procs : pc'[q] \in InLoop => ctx'[q].cur \in Iclogs
      BY <1>0 DEF Base, Shape, ThreadShape, Threads, InLoop, ForceReleased
    <2>3. \A q \in Procs : pc'[q] = "cbrun" => ctx'[q].got # <<>>
      BY <1>0 DEF Base, Shape, ThreadShape, Threads, ForceReleased
    <2>4. \A q \in Procs : ctx'[q].then = "donesync" => q \in Cpus /\ Dead' /\ ic'[q] \in Iclogs
      BY <1>0, ProcsAre DEF Base, Shape, ThreadShape, Threads, ForceReleased, Dead, ring
    <2> QED BY <2>1, <2>2, <2>3, <2>4 DEF Threads
  <1> QED BY <1>1, <1>2, <1>3 DEF Base, Shape

\* A sleeper on ic_write_wait wakes.
LEMMA WriteWakeBase ==
  ASSUME Base, NEW f \in Syncers, WriteWake(f)
  PROVE  Base' /\ Kept
  <1>1. RingShape' /\ DiskShape' /\ CallShape' /\ CtxShape' /\ TxShape' /\ AllDead' /\ Bounded' /\ Kept
    BY Frame DEF Base, Shape, WriteWake, ring, io, txv
  <1>2. ThreadShape' /\ Threads' /\ TxOK' /\ Wants'
    BY DEF Base, Shape, ThreadShape, Threads, Held, InLoop, Places, WriteWake, Goto, ring, txv,
       Dead, TxOK, Wants
  <1>3. ForceShape'
    BY DEF Base, Shape, ForceShape, WriteWake
  <1> QED BY <1>1, <1>2, <1>3 DEF Base, Shape

\* A sleeper on ic_force_wait wakes.
LEMMA ForceWakeBase ==
  ASSUME Base, NEW f \in Syncers, ForceWake(f)
  PROVE  Base' /\ Kept
  <1>1. /\ RingShape' /\ DiskShape' /\ CallShape' /\ CtxShape' /\ TxShape'
        /\ ForceShape' /\ AllDead' /\ Bounded' /\ Kept
    BY Frame DEF Base, Shape, ForceWake, ring, io, txv
  <1>2. ThreadShape' /\ Threads' /\ TxOK' /\ Wants'
    BY ProcsAre, SuccIs DEF Base, Shape, ThreadShape, RingShape, Threads, Held, InLoop, Places,
       ForceWake, Goto, ring, io, txv, force, AllDead, Dead, TxShape, TxOK, ForceShape, Wants
  <1> QED BY <1>1, <1>2 DEF Base, Shape

\* xfs_log_force_umount seals the iclogs.
LEMMA UmountBase ==
  ASSUME Base, ForceUmountLogError \/ ForceUmountSeal
  PROVE  Base' /\ Kept
  <1>1. /\ AllIoerror /\ shut' \in {TRUE, shut}
        /\ UNCHANGED <<lsn, off, ref, bw, head, curr, cbs, lastSync, io, awake, ic, txv, force, called>>
        /\ pc' = [pc EXCEPT ![Killer] = "cbstart"]
        /\ ctx' = [ctx EXCEPT ![Killer] = [NoCtx EXCEPT !.ab = TRUE, !.then = "dead"]]
    BY DEF ForceUmountLogError, ForceUmountSeal, Goto
  <1>2. st' \in [Iclogs -> States] /\ (\A j \in Iclogs : st'[j] = "IOERROR") /\ Dead'
    BY <1>1, AllIoerrorIs DEF Base, Shape, RingShape, Dead
  <1>3. /\ Killer \in Procs \ Txs /\ CtxShape' /\ \A q \in Procs \ {Killer} : ctx'[q] = ctx[q]
        /\ ctx'[Killer].got = <<>> /\ ctx'[Killer].then = "dead"
    BY <1>1, ProcsAre, CtxShutdown DEF Base, Shape
  <1>4. CallShape' /\ TxShape' /\ ForceShape' /\ Bounded'
    BY <1>1, Frame DEF Base, Shape, txv
  <1>5. RingShape' /\ DiskShape' /\ Kept
    <2>1. shut' \in BOOLEAN
      BY <1>1 DEF Base, Shape, DiskShape
    <2> QED BY <1>1, <1>2, <1>3, <2>1 DEF Base, Shape, RingShape, DiskShape, Kept, Committed, io,
           txv
  <1>6. ThreadShape' /\ TxOK' /\ Wants'
    BY <1>1, <1>3 DEF Base, Shape, ThreadShape, Places, TxOK, Wants, txv, force
  <1>7. AllDead'
    BY <1>2 DEF AllDead
  <1>8. Threads'
    BY <1>1, <1>2 DEF Base, Shape, ThreadShape, Threads, Held, InLoop
  <1> QED BY <1>3, <1>4, <1>5, <1>6, <1>7, <1>8 DEF Base, Shape

\* xfs_log_force_umount, not for a log error, forces the log first.
LEMMA ForceUmountBase ==
  ASSUME Base, ForceUmount
  PROVE  Base' /\ Kept
  <1>1. RingShape' /\ CallShape' /\ CtxShape' /\ TxShape' /\ AllDead' /\ Bounded' /\ Kept
    BY Frame DEF Base, Shape, ForceUmount, ring, io, txv
  <1>2. DiskShape' /\ ForceShape'
    BY ProcsAre DEF Base, Shape, DiskShape, ForceUmount, io, ForceShape
  <1>3. ThreadShape' /\ Threads' /\ TxOK' /\ Wants'
    BY ProcsAre DEF Base, Shape, ThreadShape, Threads, Held, InLoop, Places, ForceUmount, Goto,
       ring, txv, Dead, TxOK, Wants
  <1> QED BY <1>1, <1>2, <1>3 DEF Base, Shape

\* There is a last commit lsn.
LEMMA DataIs ==
  ASSUME Base
  PROVE  Data \subseteq Nat /\ Max(Data) \in Data /\ \A d \in Data : d <= Max(Data)
  <1>1. Data \subseteq Nat /\ Data # {} /\ curr \in Nat /\ \A d \in Data : d <= curr
    BY DEF Base, Shape, TxShape, RingShape, Bounded, Data, Committed
  <1>2. Max(Data) \in Data /\ \A d \in Data : Max(Data) >= d
    BY <1>1, MaxExists
  <1> QED BY <1>1, <1>2

\* A force begins.
LEMMA LogForceBase ==
  ASSUME Base, NEW f \in Forcers, NEW l \in Data, NEW s \in BOOLEAN, LogForce(f, l, s) PROVE Base' /\ Kept
  <1>0. /\ f \in Procs /\ f \in Syncers /\ l \in Nat /\ Max(Data) \in Nat
        /\ {"eio", "syncall", "syncone"} \subseteq Places
    BY DataIs, ProcsAre DEF Places
  <1>1. /\ UNCHANGED <<ring, cbs, lastSync, shut, io, awake, ic, ctx, txv, slept, seen, called>>
        /\ \E h \in {"eio", "syncall", "syncone"} : pc' = [pc EXCEPT ![f] = h]
    <2>1. CASE shut
      <3>1. (CASE shut -> "eio" [] l = 0 -> "syncall" [] OTHER -> "syncone") \in {"eio", "syncall", "syncone"}
        OBVIOUS
      <3> QED BY <3>1 DEF LogForce, Goto
    <2>2. CASE ~shut /\ l = 0
      BY <2>2 DEF LogForce, Goto
    <2>3. CASE ~shut /\ l # 0
      BY <2>3 DEF LogForce, Goto
    <2> QED BY <2>1, <2>2, <2>3
  <1>2. RingShape' /\ DiskShape' /\ CallShape' /\ CtxShape' /\ TxShape'
    BY <1>1 DEF Base, Shape, RingShape, DiskShape, CallShape, CtxShape, TxShape, ring, io, txv
  <1>3. ThreadShape'
    BY <1>0, <1>1 DEF Base, Shape, ThreadShape
  <1>4. ForceShape'
    BY <1>0 DEF Base, Shape, ForceShape, LogForce
  <1>5. Threads'
    BY <1>1 DEF Base, Shape, Threads, Held, InLoop, Dead, ring
  <1>6. AllDead' /\ Bounded'
    BY <1>1 DEF Base, AllDead, Bounded, Dead, ring, io, txv
  <1>7. TxOK'
    BY <1>1 DEF Base, Shape, TxOK, txv
  <1>8. Kept
    BY <1>1 DEF Kept, Committed, txv
  <1>9. Wants'
    <2>1. CASE l = 0 \/ shut
      <3>1. pc' = [pc EXCEPT ![f] = "eio"] \/ pc' = [pc EXCEPT ![f] = "syncall"]
        <4>1. CASE shut
          <5>1. (CASE shut -> "eio" [] l = 0 -> "syncall" [] OTHER -> "syncone") \in {"eio", "syncall"}
            BY <2>1
          <5> QED BY <5>1 DEF LogForce, Goto
        <4>2. CASE ~shut
          BY <2>1, <4>2 DEF LogForce, Goto
        <4> QED BY <4>1, <4>2
      <3>2. want' = [want EXCEPT ![f] = l]
        BY DEF LogForce
      <3> QED BY <3>1, <3>2, ProcsAre DEF Base, Shape, ThreadShape, Wants
    <2>2. CASE l # 0
      <3>1. want' = [want EXCEPT ![f] = l]
        BY DEF LogForce
      <3> QED BY <1>1, <2>2, <3>1 DEF Base, Shape, ForceShape, Wants
    <2> QED BY <2>1, <2>2
  <1> QED BY <1>2, <1>3, <1>4, <1>5, <1>6, <1>7, <1>8, <1>9 DEF Base, Shape

\* Nothing happens.
LEMMA StutterBase == ASSUME Base, UNCHANGED vars PROVE Base' /\ Kept
  <1>1. Shape'
    BY Frame DEF Base, Shape, vars
  <1>2. Threads' /\ AllDead' /\ TxOK' /\ Bounded' /\ Wants'
    BY DEF Base, Threads, AllDead, TxOK, Bounded, Wants, Dead, vars, ring, io, txv, force
  <1>3. Kept
    BY DEF Kept, Committed, vars, txv
  <1> QED BY <1>1, <1>2, <1>3 DEF Base

\* Every step keeps Base; only three kinds of step attach, take or run a callback.
LEMMA NextBase ==
  ASSUME Base, Next
  PROVE  /\ Base'
         /\ Kept \/ (\E t \in Txs : Notify(t)) \/ (\E p \in Procs : CbGrab(p) \/ CbRun(p))
  <1>1. CASE \E t \in Txs : Start(t) \/ TxStep(t)
    BY <1>1, StartBase, GetSpaceBlockedBase, GetSpaceNoRoomBase, GetSpaceBase, FinishCopyBase,
       WantSyncBase, NotifyBase, TxReleasedBase, TxErrorBase, FlushWakeBase DEF TxStep
  <1>2. CASE \E p \in Txs \cup Syncers : Release(p) \/ Sync(p)
    BY <1>2, ReleaseBase, SyncBase
  <1>3. CASE \E p \in Procs : CallbackStep(p)
    BY <1>3, DoneSyncingBase, CbStartBase, CbLastSyncBase, CbGrabBase, CbRunBase, CbFinishBase DEF
       CallbackStep
  <1>4. CASE \E c \in Cpus, i \in Iclogs : IodoneOk(c, i) \/ IodoneError(c, i)
    BY <1>4, IodoneOkBase, IodoneErrorBase
  <1>5. CASE \E f \in Forcers : ForceReturns(f) \/ \E l \in Data, s \in BOOLEAN : LogForce(f, l, s)
    BY <1>5, ForceReturnsBase, LogForceBase
  <1>6. CASE \E f \in Syncers : ForceStep(f)
    BY <1>6, SyncAllBase, SyncOneBase, ForceReleasedBase, WriteWakeBase, ForceWakeBase DEF
       ForceStep
  <1>7. CASE ForceUmountLogError \/ ForceUmount \/ ForceUmountSeal
    BY <1>7, UmountBase, ForceUmountBase
  <1> QED BY <1>1, <1>2, <1>3, <1>4, <1>5, <1>6, <1>7 DEF Next

\* Base holds of the log just allocated (xlog_alloc_log).
LEMMA InitBase == ASSUME Init PROVE Base
  <1>1. 0 \in Iclogs /\ N \in Nat
    BY IclogAssumption DEF Iclogs
  <1>2. RingShape
    BY <1>1, IclogAssumption DEF Init, RingShape, States
  <1>3. DiskShape
    <2>1. /\ flying = [i \in Iclogs |-> 0] /\ torn = {} /\ disk = {}
          /\ lastSync = 0 /\ shut = FALSE
      BY DEF Init
    <2>2. shut \in BOOLEAN
      BY <2>1, Zenon
    <2> QED BY <2>1, <2>2 DEF DiskShape
  <1>4. CallShape
    BY DEF Init, CallShape
  <1>5. ThreadShape
    BY DEF Init, ThreadShape, Places
  <1>6. CtxShape
    <2>1. NoCtx \in Ctx
      BY DEF NoCtx, Ctx
    <2> QED BY <2>1 DEF Init, CtxShape
  <1>7. TxShape
    BY DEF Init, TxShape
  <1>8. ForceShape
    BY DEF Init, ForceShape
  <1>9. Threads
    <2>1. NoCtx.then = "idle"
      BY DEF NoCtx
    <2> QED BY <2>1 DEF Init, Threads, Held, InLoop
  <1>10. AllDead
    <2>1. NoCtx.ab = FALSE
      BY DEF NoCtx
    <2> QED BY <2>1 DEF Init, AllDead
  <1>11. TxOK
    BY ProcsAre DEF Init, TxOK
  <1>12. Bounded
    BY DEF Init, Bounded
  <1>13. Wants
    BY ProcsAre DEF Init, Wants
  <1> QED BY <1>2, <1>3, <1>4, <1>5, <1>6, <1>7, <1>8, <1>9, <1>10, <1>11, <1>12, <1>13 DEF Base,
         Shape

\* Every variable has its shape, each thread holds the iclog its place in the code
\* requires, and IOERROR is a state of all iclogs or of none (xlog_state_ioerror),
\* in every state of every run, with failures and shutdowns.
THEOREM BaseHolds == Spec => []Base
  <1>1. Init => Base
    BY InitBase
  <1>2. Base /\ [Next]_vars => Base'
    BY NextBase, StutterBase
  <1> QED BY <1>1, <1>2, PTL DEF Spec

----------------------------------------------------------------------------
\* who has a reference to an iclog, is about to write it, or has seen one of its
\* buffer writes succeed or fail
Holders(i) == {p \in Procs : pc[p] \in Held /\ ic[p] = i}
Writers(i) == {p \in Procs : pc[p] = "sync" /\ ic[p] = i}
Doners(i) == {p \in Procs : pc[p] = "donesync" /\ ic[p] = i}
Roles == Held \cup {"sync", "donesync"}

RefsOK ==
  /\ \A i \in Iclogs : ref[i] >= Cardinality(Holders(i)) /\ (~Dead => ref[i] = Cardinality(Holders(i)))
  /\ \A i \in Iclogs : bw[i] \in 0 .. 2

RingOK ==
  /\ \A i \in Iclogs : st[i] \notin {"ACTIVE", "WANT_SYNC"} => Holders(i) = {}
  /\ \A i \in Iclogs :
       st[i] = "ACTIVE" /\ (lsn[i] # 0 \/ off[i] # 0 \/ Holders(i) # {}) =>
         i = head /\ lsn[i] = curr /\ off[i] > 0
  /\ \A i \in Iclogs : st[i] # "ACTIVE" => lsn[i] \in 1 .. curr - 1
  /\ \A i, j \in Iclogs : lsn[i] = lsn[j] /\ lsn[i] # 0 => i = j

IoOK ==
  /\ disk \subseteq 1 .. curr - 1
  /\ \A i \in Iclogs : st[i] # "SYNCING" =>
       Writers(i) = {} /\ Doners(i) = {} /\ flying[i] = 0
  /\ \A i \in Iclogs : st[i] = "SYNCING" =>
       \/ /\ \E p \in Procs : Writers(i) = {p}
          /\ Doners(i) = {} /\ flying[i] = 0 /\ lsn[i] \notin disk
       \/ /\ Writers(i) = {} /\ bw[i] \in {1, 2}
          /\ bw[i] = flying[i] + Cardinality(Doners(i))
          /\ flying[i] = 0 <=> lsn[i] \in disk
  /\ \A i \in Iclogs : st[i] = "WANT_SYNC" => lsn[i] \notin disk
  /\ \A i \in Iclogs : st[i] \in {"DONE_SYNC", "DO_CALLBACK", "CALLBACK", "DIRTY"} => lsn[i] \in disk
  /\ \A n \in 1 .. curr - 1 :
       n \in disk \/ \E i \in Iclogs : lsn[i] = n /\ st[i] \in {"WANT_SYNC", "SYNCING"}

LoopOK ==
  /\ Durable(lastSync)
  /\ \A p \in Procs : pc[p] \in InLoop => st[ctx[p].cur] \in {"CALLBACK", "IOERROR"}
  /\ \A p \in Procs : pc[p] = "lastsync" => Durable(lsn[ctx[p].cur])
  /\ \A p, q \in Procs : pc[p] \in InLoop /\ pc[q] \in InLoop /\ ctx[p].cur = ctx[q].cur =>
        Dead \/ p = q

Alive == RingOK /\ IoOK
Core == RefsOK /\ LoopOK /\ (Dead \/ Alive)

----------------------------------------------------------------------------

\* There are finitely many threads.
LEMMA ProcsFinite == IsFiniteSet(Procs)
  <1>1. IsFiniteSet({Killer})
    BY FS_Singleton
  <1>2. IsFiniteSet(Forcers \cup {Killer})
    BY <1>1, FS_Union, IclogAssumption
  <1>3. IsFiniteSet(Txs \cup (Forcers \cup {Killer}))
    BY <1>2, FS_Union, IclogAssumption
  <1> QED BY <1>3, FS_Union, IclogAssumption DEF Procs, Syncers

\* Counting the members of a set of threads.
LEMMA Counts ==
  ASSUME NEW S, S \subseteq Procs
  PROVE  /\ Cardinality(S) \in Nat /\ (Cardinality(S) = 0 <=> S = {})
         /\ \A p \in Procs \ S : Cardinality(S \cup {p}) = Cardinality(S) + 1
         /\ \A p \in S : Cardinality(S \ {p}) = Cardinality(S) - 1
         /\ \A p \in S : Cardinality(S) = 1 => S = {p}
  <1>1. IsFiniteSet(S)
    BY ProcsFinite, FS_Subset
  <1>2. Cardinality(S) \in Nat /\ (Cardinality(S) = 0 <=> S = {})
    BY <1>1, FS_CardinalityType, FS_EmptySet
  <1>3. ASSUME NEW p \in Procs \ S PROVE Cardinality(S \cup {p}) = Cardinality(S) + 1
    BY <1>1, FS_AddElement
  <1>4. ASSUME NEW p \in S PROVE Cardinality(S \ {p}) = Cardinality(S) - 1
    BY <1>1, FS_RemoveElement
  <1>5. ASSUME NEW p \in S, Cardinality(S) = 1 PROVE S = {p}
    <2>1. Cardinality(S \ {p}) = 0
      BY <1>4, <1>5
    <2>2. IsFiniteSet(S \ {p})
      BY <1>1, FS_RemoveElement
    <2>3. S \ {p} = {}
      BY <2>1, <2>2, FS_EmptySet
    <2> QED BY <2>3
  <1> QED BY <1>2, <1>3, <1>4, <1>5

\* Holders, writers and doners are threads.
LEMMA RolesIn == \A i : Holders(i) \subseteq Procs /\ Writers(i) \subseteq Procs /\ Doners(i) \subseteq Procs
  BY DEF Holders, Writers, Doners

\* a step that neither the ring nor the disk nor the callback loops notice
Quiet ==
  /\ UNCHANGED <<st, lsn, off, ref, bw, head, curr, flying, disk, lastSync>>
  /\ \A i \in Iclogs : UNCHANGED <<Holders(i), Writers(i), Doners(i)>>
  /\ \A p \in Procs : pc'[p] \in InLoop =>
       pc[p] \in InLoop /\ ctx'[p].cur = ctx[p].cur /\ (pc'[p] = "lastsync" => pc[p] = "lastsync")

\* What neither the ring nor the disk nor the loops notice keeps the invariant.
LEMMA QuietCore == ASSUME Core, Quiet PROVE Core'
  <1>1. RefsOK'
    BY DEF Core, RefsOK, Quiet, Dead
  <1>2. LoopOK'
    BY DEF Core, LoopOK, Quiet, Dead, Durable, InLoop
  <1>3. Dead \/ Alive'
    BY DEF Core, Alive, RingOK, IoOK, Quiet
  <1> QED BY <1>1, <1>2, <1>3 DEF Core, Dead, Quiet

\* A thread that changes no shared state and no role is quiet.
LEMMA QuietMove ==
  ASSUME NEW p \in Procs, \A q \in Procs \ {p} : pc'[q] = pc[q] /\ ic'[q] = ic[q],
         \A q \in Procs : ctx'[q].cur = ctx[q].cur,
         UNCHANGED <<st, lsn, off, ref, bw, head, curr, flying, disk, lastSync>>,
         \/ pc[p] \notin Roles /\ pc'[p] \notin Roles
         \/ pc[p] \in Held /\ pc'[p] \in Held /\ ic'[p] = ic[p],
         pc'[p] \in InLoop => pc[p] \in InLoop /\ pc'[p] # "lastsync"
  PROVE  Quiet
  <1>1. \A i \in Iclogs : UNCHANGED <<Holders(i), Writers(i), Doners(i)>>
    <2> SUFFICES ASSUME NEW i \in Iclogs PROVE UNCHANGED <<Holders(i), Writers(i), Doners(i)>>
      OBVIOUS
    <2>1. CASE pc[p] \notin Roles /\ pc'[p] \notin Roles
      BY <2>1 DEF Roles, Holders, Writers, Doners
    <2>2. CASE pc[p] \in Held /\ pc'[p] \in Held /\ ic'[p] = ic[p]
      BY <2>2 DEF Held, Holders, Writers, Doners
    <2> QED BY <2>1, <2>2
  <1> QED BY <1>1 DEF Quiet

\* The quiet steps of the code.
LEMMA QuietSteps ==
  ASSUME Base,
         \/ \E t \in Txs : \/ Start(t) \/ GetSpaceFails(t) \/ GetSpaceWaits(t) \/ Notify(t)
                           \/ TxReleased(t) \/ FlushWake(t)
         \/ \E p \in Procs : CbGrab(p) \/ CbRun(p)
         \/ \E f \in Forcers : ForceReturns(f) \/ \E l \in Data, s \in BOOLEAN : LogForce(f, l, s)
         \/ \E f \in Syncers : ForceReleased(f) \/ WriteWake(f) \/ ForceWake(f)
         \/ ForceUmount
         \/ UNCHANGED vars
  PROVE  Quiet
  <1> USE DEF ring, io, force, Held, InLoop, Roles
  <1>0. ThreadShape
    BY DEF Base, Shape
  <1>1. ASSUME NEW t \in Txs,
               \/ Start(t) \/ GetSpaceFails(t) \/ GetSpaceWaits(t) \/ Notify(t) \/ TxReleased(t)
               \/ FlushWake(t)
        PROVE  Quiet
    <2>0. t \in Procs
      BY ProcsAre
    <2>1. UNCHANGED <<st, lsn, off, ref, bw, head, curr, flying, disk, lastSync, ctx>>
      BY <1>1 DEF Start, GetSpaceFails, GetSpaceWaits, Notify, TxReleased, FlushWake
    <2>2. /\ \A q \in Procs \ {t} : pc'[q] = pc[q] /\ ic'[q] = ic[q]
          /\ pc'[t] \notin InLoop
          /\ \/ pc[t] \notin Roles /\ pc'[t] \notin Roles
             \/ pc[t] \in Held /\ pc'[t] \in Held /\ ic'[t] = ic[t]
      BY <1>0, <1>1 DEF ThreadShape, Start, GetSpaceFails, GetSpaceWaits, Notify, TxReleased,
         FlushWake, Goto
    <2> QED BY <2>0, <2>1, <2>2, QuietMove
  <1>2. ASSUME NEW p \in Procs, CbGrab(p) \/ CbRun(p) PROVE Quiet
    <2>1. UNCHANGED <<st, lsn, off, ref, bw, head, curr, flying, disk, lastSync, ic>>
      BY <1>2 DEF CbGrab, CbRun
    <2>2. /\ \A q \in Procs \ {p} : pc'[q] = pc[q]
          /\ pc[p] \in {"cbgrab", "cbrun"} /\ pc'[p] \in {"cbgrab", "cbrun"}
      BY <1>0, <1>2 DEF ThreadShape, CbGrab, CbRun, Goto
    <2>3. PICK g : ctx' = [ctx EXCEPT ![p].got = g]
      BY <1>2 DEF CbGrab, CbRun
    <2>4. \A q \in Procs : ctx'[q].cur = ctx[q].cur
      BY <2>3 DEF Base, Shape
    <2> QED BY <2>1, <2>2, <2>4, QuietMove
  <1>3. ASSUME NEW f \in Syncers,
               \/ ForceReturns(f) \/ ForceReleased(f) \/ WriteWake(f) \/ ForceWake(f)
               \/ \E l \in Data, s \in BOOLEAN : LogForce(f, l, s)
        PROVE  Quiet
    <2>0. f \in Procs
      BY ProcsAre
    <2>1. UNCHANGED <<st, lsn, off, ref, bw, head, curr, flying, disk, lastSync, ctx>>
      BY <1>3 DEF ForceReturns, ForceReleased, WriteWake, ForceWake, LogForce
    <2>2. /\ \A q \in Procs \ {f} : pc'[q] = pc[q] /\ ic'[q] = ic[q]
          /\ pc'[f] \notin InLoop /\ pc[f] \notin Roles /\ pc'[f] \notin Roles
      <3>1. CASE ForceReturns(f) \/ WriteWake(f) \/ ForceWake(f)
        BY <1>0, <3>1 DEF ThreadShape, ForceReturns, WriteWake, ForceWake, Goto
      <3>2. CASE ForceReleased(f)
        BY <1>0, <3>2 DEF ThreadShape, ForceReleased, SleepOn, Goto
      <3>3. CASE \E l \in Data, s \in BOOLEAN : LogForce(f, l, s)
        BY <3>3 DEF LogForce, Goto
      <3> QED BY <1>3, <3>1, <3>2, <3>3
    <2> QED BY <2>0, <2>1, <2>2, QuietMove
  <1>4. ASSUME ForceUmount PROVE Quiet
    <2>0. Killer \in Procs
      BY ProcsAre
    <2>1. UNCHANGED <<st, lsn, off, ref, bw, head, curr, flying, disk, lastSync, ctx, ic>>
      BY <1>4 DEF ForceUmount
    <2>2. /\ \A q \in Procs \ {Killer} : pc'[q] = pc[q]
          /\ pc[Killer] = "idle" /\ pc'[Killer] = "syncall"
      BY <1>0, <1>4, <2>0 DEF ThreadShape, ForceUmount, Goto
    <2> QED BY <2>0, <2>1, <2>2, QuietMove
  <1>5. ASSUME UNCHANGED vars PROVE Quiet
    BY <1>5 DEF vars, Quiet, Holders, Writers, Doners
  <1> QED BY <1>1, <1>2, <1>3, <1>4, <1>5, ProcsAre

\* On a dead ring nothing about the iclogs counts any more but that no thread
\* takes l_last_sync_lsn from an iclog it should not.
LEMMA DeadLoop ==
  ASSUME Base', Dead', LoopOK, \A i \in Iclogs : lsn'[i] = lsn[i], disk \subseteq disk',
         \/ lastSync' = lastSync
         \/ \E p \in Procs : pc[p] = "lastsync" /\ lastSync' = lsn[ctx[p].cur],
         \A p \in Procs : pc'[p] = "lastsync" => pc[p] = "lastsync" /\ ctx'[p].cur = ctx[p].cur
  PROVE  LoopOK'
  <1>1. \A l : Durable(l) => Durable(l)'
    BY DEF Durable
  <1>2. \A p \in Procs : pc'[p] \in InLoop => ctx'[p].cur \in Iclogs
    BY DEF Base, Threads
  <1>3. \A i \in Iclogs : st'[i] = "IOERROR"
    BY DEF Base, AllDead, Dead, Shape, RingShape
  <1>4. Durable(lastSync)'
    BY <1>1 DEF LoopOK
  <1>5. \A p \in Procs : pc'[p] = "lastsync" =>
              Durable(lsn[ctx[p].cur])' /\ lsn'[ctx'[p].cur] = lsn[ctx[p].cur]
    BY <1>1, <1>2 DEF LoopOK, InLoop
  <1> QED BY <1>2, <1>3, <1>4, <1>5 DEF LoopOK

\* What a step of thread p does to the holders of the iclogs.
LEMMA HoldersMove ==
  ASSUME NEW p \in Procs, \A q \in Procs \ {p} : pc'[q] = pc[q] /\ ic'[q] = ic[q], NEW i
  PROVE  /\ pc'[p] \in Held /\ ic'[p] = i => Holders(i)' = Holders(i) \cup {p}
         /\ ~(pc'[p] \in Held /\ ic'[p] = i) => Holders(i)' = Holders(i) \ {p}
         /\ p \in Holders(i) <=> (pc[p] \in Held /\ ic[p] = i)
  BY DEF Holders

\* The reference count follows the holders: who enters counts itself in, who
\* leaves counts itself out, or forgets to on a dead ring.
LEMMA RefsMove ==
  ASSUME Base, Base', RefsOK, NEW p \in Procs,
         \A q \in Procs \ {p} : pc'[q] = pc[q] /\ ic'[q] = ic[q],
         Dead => Dead', \A i \in Iclogs : bw'[i] \in 0 .. 2,
         \/ /\ pc[p] \notin Held /\ pc'[p] \in Held
            /\ ref' = [ref EXCEPT ![ic'[p]] = @ + 1]
         \/ /\ pc[p] \in Held /\ pc'[p] \notin Held
            /\ ref' = [ref EXCEPT ![ic[p]] = @ - 1]
         \/ /\ pc[p] \in Held /\ pc'[p] \notin Held
            /\ ref' = ref /\ Dead'
         \/ /\ pc[p] \in Held <=> pc'[p] \in Held
            /\ pc[p] \in Held => ic'[p] = ic[p]
            /\ ref' = ref
  PROVE  RefsOK'
  <1>0. /\ ref \in [Iclogs -> Int]
        /\ \A q \in Procs : pc[q] \in Held => ic[q] \in Iclogs
        /\ \A q \in Procs : pc'[q] \in Held => ic'[q] \in Iclogs
    BY DEF Base, Shape, RingShape, Threads
  <1>1. SUFFICES ASSUME NEW i \in Iclogs
                 PROVE  /\ ref'[i] >= Cardinality(Holders(i)')
                        /\ ~Dead' => ref'[i] = Cardinality(Holders(i)')
    BY DEF RefsOK
  <1>2. /\ ref[i] >= Cardinality(Holders(i)) /\ (~Dead => ref[i] = Cardinality(Holders(i)))
        /\ ref[i] \in Int
    BY <1>0 DEF RefsOK
  <1> DEFINE H == Holders(i)
  <1>3. /\ pc'[p] \in Held /\ ic'[p] = i => Holders(i)' = H \cup {p}
        /\ ~(pc'[p] \in Held /\ ic'[p] = i) => Holders(i)' = H \ {p}
        /\ p \in H <=> (pc[p] \in Held /\ ic[p] = i)
    BY HoldersMove
  <1>4. H \subseteq Procs
    BY DEF Holders
  <1>5. /\ Cardinality(H) \in Nat
        /\ p \notin H => Cardinality(H \cup {p}) = Cardinality(H) + 1
        /\ p \in H => Cardinality(H \ {p}) = Cardinality(H) - 1
        /\ p \in H => H \cup {p} = H
        /\ p \notin H => H \ {p} = H
    <2> HIDE DEF H
    <2> QED BY <1>4, Counts
  <1> DEFINE c == Cardinality(H)
             d == Cardinality(Holders(i)')
             was == pc[p] \in Held /\ ic[p] = i
             is == pc'[p] \in Held /\ ic'[p] = i
  <1>6. /\ was /\ is => d = c
        /\ was /\ ~is => d = c - 1
        /\ ~was /\ is => d = c + 1
        /\ ~was /\ ~is => d = c
    <2> HIDE DEF H
    <2> QED BY <1>3, <1>5
  <1>7. /\ c \in Nat /\ ref[i] >= c /\ (~Dead => ref[i] = c) /\ ref[i] \in Int
    BY <1>2, <1>5
  <1>8. SUFFICES ref'[i] >= d /\ (~Dead' => ref'[i] = d)
    OBVIOUS
  <1> HIDE DEF H, c, d
  <1>9. CASE pc[p] \notin Held /\ pc'[p] \in Held /\ ref' = [ref EXCEPT ![ic'[p]] = @ + 1]
    <2>1. ref'[i] = IF is THEN ref[i] + 1 ELSE ref[i]
      BY <1>0, <1>9
    <2> QED BY <1>6, <1>7, <1>9, <2>1
  <1>10. CASE pc[p] \in Held /\ pc'[p] \notin Held /\ ref' = [ref EXCEPT ![ic[p]] = @ - 1]
    <2>1. ref'[i] = IF was THEN ref[i] - 1 ELSE ref[i]
      BY <1>0, <1>10
    <2> QED BY <1>6, <1>7, <1>10, <2>1
  <1>11. CASE pc[p] \in Held /\ pc'[p] \notin Held /\ ref' = ref /\ Dead'
    BY <1>6, <1>7, <1>11
  <1>12. CASE /\ pc[p] \in Held <=> pc'[p] \in Held
              /\ pc[p] \in Held => ic'[p] = ic[p]
              /\ ref' = ref
    BY <1>6, <1>7, <1>12
  <1> QED BY <1>9, <1>10, <1>11, <1>12

\* A step that no thread enters a callback loop with.
LEMMA KeptLoop ==
  ASSUME Base, LoopOK, ~Dead, lastSync' = lastSync, disk \subseteq disk',
         \A i \in Iclogs : st[i] = "CALLBACK" => st'[i] = "CALLBACK" /\ lsn'[i] = lsn[i],
         \A p \in Procs : pc'[p] \in InLoop =>
           pc[p] \in InLoop /\ ctx'[p].cur = ctx[p].cur /\ (pc'[p] = "lastsync" => pc[p] = "lastsync")
  PROVE  LoopOK'
  <1>1. \A l : Durable(l) => Durable(l)'
    BY DEF Durable
  <1>2. \A p \in Procs : pc[p] \in InLoop => st[ctx[p].cur] = "CALLBACK" /\ ctx[p].cur \in Iclogs
    BY DEF LoopOK, Base, Threads, AllDead, Dead, Shape, RingShape
  <1>3. \A p \in Procs : pc'[p] \in InLoop => st'[ctx'[p].cur] = "CALLBACK"
    BY <1>2
  <1>4. \A p \in Procs : pc'[p] = "lastsync" =>
              Durable(lsn[ctx[p].cur])' /\ lsn'[ctx'[p].cur] = lsn[ctx[p].cur]
    BY <1>1, <1>2 DEF LoopOK, InLoop
  <1>5. \A p, q \in Procs : pc'[p] \in InLoop /\ pc'[q] \in InLoop /\ ctx'[p].cur = ctx'[q].cur => p = q
    BY DEF LoopOK
  <1>6. Durable(lastSync)'
    BY <1>1 DEF LoopOK
  <1> QED BY <1>3, <1>4, <1>6 DEF LoopOK

----------------------------------------------------------------------------
\* The current iclog is closed, with its lsn, and the next one is current.
LEMMA SwitchCore ==
  ASSUME Base, Base', Core, ~Dead, SwitchIclogs, st[head] = "ACTIVE", RefsOK',
         lsn'[head] = curr, \A i \in Iclogs \ {head} : lsn'[i] = lsn[i] /\ off'[i] = off[i],
         UNCHANGED <<bw, flying, disk, lastSync>>,
         \A i \in Iclogs : UNCHANGED <<Writers(i), Doners(i)>>,
         \A i \in Iclogs : i # head => UNCHANGED Holders(i),
         \A p \in Procs : pc'[p] \in InLoop =>
           pc[p] \in InLoop /\ ctx'[p].cur = ctx[p].cur /\ (pc'[p] = "lastsync" => pc[p] = "lastsync")
  PROVE  Core'
  <1>0. RingShape /\ DiskShape
    BY DEF Base, Shape
  <1>1. /\ head' \in Iclogs /\ curr' = curr + 1 /\ curr \in Nat \ {0} /\ head \in Iclogs
        /\ st'[head] = "WANT_SYNC" /\ \A i \in Iclogs \ {head} : st'[i] = st[i]
        /\ head' # head
    BY <1>0, SwitchIs DEF RingShape
  <1>3. \A i \in Iclogs \ {head} : st[i] = "ACTIVE" => lsn[i] = 0 /\ off[i] = 0 /\ Holders(i) = {}
    BY DEF Core, Alive, RingOK
  <1>6. LoopOK'
    <2>1. \A i \in Iclogs : st[i] = "CALLBACK" => st'[i] = "CALLBACK" /\ lsn'[i] = lsn[i]
      BY <1>1
    <2> QED BY <2>1, KeptLoop DEF Core
  <1>7. RingOK'
    <2>1. \A i \in Iclogs : st'[i] \notin {"ACTIVE", "WANT_SYNC"} => Holders(i)' = {}
      BY <1>1 DEF Core, Alive, RingOK
    <2>2. \A i \in Iclogs :
            st'[i] = "ACTIVE" /\ (lsn'[i] # 0 \/ off'[i] # 0 \/ Holders(i)' # {}) =>
              i = head' /\ lsn'[i] = curr' /\ off'[i] > 0
      BY <1>1, <1>3
    <2>3. \A i \in Iclogs : st'[i] # "ACTIVE" => lsn'[i] \in 1 .. curr' - 1
      BY <1>1 DEF Core, Alive, RingOK
    <2>4. \A i, j \in Iclogs : lsn'[i] = lsn'[j] /\ lsn'[i] # 0 => i = j
      <3>1. \A i \in Iclogs \ {head} : lsn[i] # curr
        BY <1>1 DEF Core, Alive, RingOK
      <3>2. \A i, j \in Iclogs : lsn[i] = lsn[j] /\ lsn[i] # 0 => i = j
        BY DEF Core, Alive, RingOK
      <3> QED BY <3>1, <3>2
    <2> QED BY <2>1, <2>2, <2>3, <2>4 DEF RingOK
  <1>8. IoOK'
    <2>0. IoOK
      BY DEF Core, Alive
    <2>1. disk' \subseteq 1 .. curr' - 1
      BY <1>1, <2>0 DEF IoOK
    <2>2. \A i \in Iclogs : st'[i] # "SYNCING" =>
            Writers(i)' = {} /\ Doners(i)' = {} /\ flying'[i] = 0
      BY <1>1, <2>0 DEF IoOK
    <2>3. \A i \in Iclogs : st'[i] = "SYNCING" => st[i] = "SYNCING" /\ lsn'[i] = lsn[i]
      BY <1>1
    <2>4. lsn'[head] \notin disk'
      BY <1>1, <2>0 DEF IoOK
    <2>5. \A n \in 1 .. curr' - 1 :
            n \in disk' \/ \E i \in Iclogs : lsn'[i] = n /\ st'[i] \in {"WANT_SYNC", "SYNCING"}
      <3> SUFFICES ASSUME NEW n \in 1 .. curr' - 1
                   PROVE  n \in disk' \/ \E i \in Iclogs : lsn'[i] = n /\ st'[i] \in {"WANT_SYNC", "SYNCING"}
        OBVIOUS
      <3>1. CASE n = curr
        BY <1>1, <3>1
      <3>2. CASE n \in 1 .. curr - 1
        <4>1. n \in disk \/ \E i \in Iclogs : lsn[i] = n /\ st[i] \in {"WANT_SYNC", "SYNCING"}
          BY <2>0, <3>2 DEF IoOK
        <4> QED BY <1>1, <4>1
      <3> QED BY <1>1, <3>2
    <2>6. \A i \in Iclogs : st'[i] = "WANT_SYNC" => lsn'[i] \notin disk'
      BY <1>1, <2>0 DEF IoOK
    <2>7. \A i \in Iclogs : st'[i] \in {"DONE_SYNC", "DO_CALLBACK", "CALLBACK", "DIRTY"} => lsn'[i] \in disk'
      BY <1>1, <2>0 DEF IoOK
    <2> QED BY <2>0, <2>1, <2>2, <2>3, <2>5, <2>6, <2>7 DEF IoOK
  <1> QED BY <1>6, <1>7, <1>8 DEF Core, Alive

\* An iclog that holds anything has its lsn.
LEMMA CloseCore ==
  ASSUME Base, Base', Core, ~Dead, SwitchIclogs, st[head] = "ACTIVE", RefsOK',
         off[head] > 0 \/ Holders(head) # {},
         UNCHANGED <<lsn, off, bw, flying, disk, lastSync>>,
         \A i \in Iclogs : UNCHANGED <<Writers(i), Doners(i)>>,
         \A i \in Iclogs : i # head => UNCHANGED Holders(i),
         \A p \in Procs : pc'[p] \in InLoop =>
           pc[p] \in InLoop /\ ctx'[p].cur = ctx[p].cur /\ (pc'[p] = "lastsync" => pc[p] = "lastsync")
  PROVE  Core'
  <1>1. head \in Iclogs /\ off[head] \in 0 .. Cap
    BY DEF Base, Shape, RingShape
  <1>2. lsn[head] = curr
    BY <1>1 DEF Core, Alive, RingOK
  <1> QED BY <1>2, SwitchCore

\* A full iclog is closed by a transaction that holds it alone, or no longer.
LEMMA NoRoomCore ==
  ASSUME Base, Base', Core, NEW t \in Txs, GetSpaceNoRoom(t)
  PROVE  Core'
  <1>0. ThreadShape /\ RingShape /\ t \in Procs
    BY ProcsAre DEF Base, Shape
  <1>1. ~Dead /\ pc[t] = "space" /\ st[head] = "ACTIVE" /\ off[head] > 0
    BY IclogAssumption DEF GetSpaceNoRoom, Dead
  <1>2. SwitchIclogs /\ UNCHANGED <<lsn, off, bw, flying, disk, lastSync, ctx>>
    BY DEF GetSpaceNoRoom, io
  <1>3. /\ \A q \in Procs \ {t} : pc'[q] = pc[q] /\ ic'[q] = ic[q]
        /\ \/ pc' = pc /\ ic' = ic /\ ref' = ref
           \/ pc'[t] = "release" /\ ic'[t] = head /\ ref[head] <= 0 /\ ref' = [ref EXCEPT ![head] = 1]
    BY <1>0 DEF ThreadShape, RingShape, GetSpaceNoRoom, Goto
  <1>4. \A i \in Iclogs : ref[i] = Cardinality(Holders(i)) /\ Cardinality(Holders(i)) \in Nat
    BY <1>1, Counts, RolesIn DEF Core, RefsOK
  <1>5. \A i \in Iclogs : UNCHANGED <<Writers(i), Doners(i)>>
    BY <1>1, <1>3 DEF Writers, Doners
  <1>8. (Dead => Dead') /\ \A i \in Iclogs : bw'[i] \in 0 .. 2
    BY <1>1, <1>2 DEF Core, RefsOK
  <1>6. CASE pc' = pc /\ ic' = ic /\ ref' = ref
    <2>1. \A i \in Iclogs : UNCHANGED Holders(i)
      BY <1>6 DEF Holders
    <2>2. RefsOK'
      BY <1>0, <1>6, <1>8, RefsMove DEF Core
    <2> QED BY <1>1, <1>2, <1>5, <1>6, <2>1, <2>2, CloseCore
  <1>7. CASE pc'[t] = "release" /\ ic'[t] = head /\ ref[head] <= 0 /\ ref' = [ref EXCEPT ![head] = 1]
    <2>1. head \in Iclogs /\ ref[head] = 0 /\ Holders(head) = {}
      <3>1. head \in Iclogs
        BY <1>0 DEF RingShape
      <3>2. ref[head] = Cardinality(Holders(head)) /\ Cardinality(Holders(head)) \in Nat
        BY <1>4, <3>1
      <3>3. Cardinality(Holders(head)) = 0
        BY <1>7, <3>2
      <3> QED BY <3>1, <3>2, <3>3, Counts, RolesIn
    <2>2. RefsOK'
      <3>1. ref' = [ref EXCEPT ![ic'[t]] = @ + 1]
        BY <1>7, <2>1
      <3> QED BY <1>0, <1>1, <1>3, <1>7, <1>8, <3>1, RefsMove DEF Core, Held
    <2>3. \A i \in Iclogs : i # head => UNCHANGED Holders(i)
      BY <1>3, <1>1 DEF Holders, Held
    <2>5. \A p \in Procs : pc'[p] \in InLoop => pc[p] \in InLoop /\ (pc'[p] = "lastsync" =>
                pc[p] = "lastsync")
      BY <1>3 DEF InLoop
    <2> QED BY <1>1, <1>2, <1>5, <2>2, <2>3, <2>5, CloseCore
  <1> QED BY <1>3, <1>6, <1>7

\* A filled iclog is closed by the transaction that holds it.
LEMMA WantSyncCore ==
  ASSUME Base, Base', Core, NEW t \in Txs, WantSync(t)
  PROVE  Core'
  <1>0. ThreadShape /\ RingShape /\ t \in Procs
    BY ProcsAre DEF Base, Shape
  <1>1. /\ pc[t] = "wantsync" /\ ic' = ic /\ pc'[t] \in {"notify", "release"}
        /\ \A q \in Procs \ {t} : pc'[q] = pc[q]
        /\ UNCHANGED <<lsn, off, bw, ref, flying, disk, lastSync, ctx>>
    BY <1>0 DEF ThreadShape, WantSync, Goto, io
  <1>2. \A i \in Iclogs : UNCHANGED <<Holders(i), Writers(i), Doners(i)>>
    BY <1>1 DEF Holders, Writers, Doners, Held
  <1>3. \A p \in Procs : pc'[p] \in InLoop => pc[p] \in InLoop /\ (pc'[p] = "lastsync" => pc[p] = "lastsync")
    BY <1>1 DEF InLoop
  <1>4. CASE st[ic[t]] # "ACTIVE"
    <2>1. Quiet
      BY <1>1, <1>2, <1>3, <1>4 DEF WantSync, Quiet
    <2> QED BY <2>1, QuietCore
  <1>5. CASE st[ic[t]] = "ACTIVE"
    <2>0. ic[t] \in Iclogs /\ head \in Iclogs
      BY <1>0, <1>1 DEF Base, Threads, Held, RingShape
    <2>1. ~Dead
      BY <1>5, <2>0 DEF Base, AllDead, Dead
    <2>2. t \in Holders(ic[t])
      BY <1>0, <1>1 DEF Holders, Held
    <2>3. ic[t] = head
      BY <1>5, <2>0, <2>1, <2>2 DEF Core, Alive, RingOK
    <2>4. RefsOK'
      <3>1. (Dead => Dead') /\ \A i \in Iclogs : bw'[i] \in 0 .. 2
        BY <1>1, <2>1 DEF Core, RefsOK
      <3> QED BY <1>0, <1>1, <3>1, RefsMove DEF Core, Held
    <2>5. SwitchIclogs
      BY <1>5 DEF WantSync
    <2> QED BY <1>1, <1>2, <1>3, <1>5, <2>1, <2>2, <2>3, <2>4, <2>5, CloseCore
  <1> QED BY <1>4, <1>5

----------------------------------------------------------------------------

\* A forcer takes a reference to the iclog it closes.
LEMMA CloseReleaseCore ==
  ASSUME Base, Base', Core, ~Dead, st[head] = "ACTIVE", off[head] > 0 \/ Holders(head) # {},
         NEW f \in Syncers, pc[f] \in {"syncall", "syncone"}, CloseAndRelease(f),
         UNCHANGED <<lsn, off, bw, flying, disk, lastSync, ctx>>
  PROVE  Core'
  <1>0. ThreadShape /\ RingShape /\ f \in Procs
    BY ProcsAre DEF Base, Shape
  <1>1. /\ \A q \in Procs \ {f} : pc'[q] = pc[q] /\ ic'[q] = ic[q]
        /\ pc'[f] = "release" /\ ic'[f] = head /\ ref' = [ref EXCEPT ![ic'[f]] = @ + 1]
    BY <1>0 DEF ThreadShape, CloseAndRelease, Goto
  <1>2. \A i \in Iclogs : UNCHANGED <<Writers(i), Doners(i)>>
    BY <1>1 DEF Writers, Doners
  <1>3. \A i \in Iclogs : i # head => UNCHANGED Holders(i)
    BY <1>1 DEF Holders, Held
  <1>4. RefsOK'
    <2>1. (Dead => Dead') /\ \A i \in Iclogs : bw'[i] \in 0 .. 2
      BY DEF Core, RefsOK
    <2> QED BY <1>0, <1>1, <2>1, RefsMove DEF Core, Held
  <1>5. \A p \in Procs : pc'[p] \in InLoop => pc[p] \in InLoop /\ (pc'[p] = "lastsync" => pc[p] = "lastsync")
    BY <1>1 DEF InLoop
  <1> QED BY <1>2, <1>3, <1>4, <1>5, CloseCore DEF CloseAndRelease

\* xlog_state_sync_all closes an iclog only if it is ACTIVE and holds something.
LEMMA SyncAllCore ==
  ASSUME Base, Base', Core, NEW f \in Syncers, SyncAll(f)
  PROVE  Core'
  <1>0. ThreadShape /\ RingShape /\ f \in Procs
    BY ProcsAre DEF Base, Shape
  <1>1. pc[f] = "syncall" /\ UNCHANGED <<lsn, off, bw, flying, disk, lastSync, ctx>>
    BY DEF SyncAll, io
  <1>2. ASSUME pc'[f] \in {"ok", "eio", "forcewait"}, \A q \in Procs \ {f} : pc'[q] = pc[q] /\ ic'[q] = ic[q]
        PROVE  /\ \A i \in Iclogs : UNCHANGED <<Holders(i), Writers(i), Doners(i)>>
               /\ \A p \in Procs : pc'[p] \in InLoop => pc[p] \in InLoop /\ (pc'[p] = "lastsync" =>
                           pc[p] = "lastsync")
    BY <1>1, <1>2 DEF Holders, Writers, Doners, Held, InLoop
  <1>3. CASE UNCHANGED <<st, ref, head, curr>>
    <2>1. CASE UNCHANGED ic /\ \E l \in {"ok", "eio"} : Goto(f, l)
      <3>1. pc'[f] \in {"ok", "eio", "forcewait"} /\ \A q \in Procs \ {f} : pc'[q] = pc[q] /\ ic'[q] = ic[q]
        BY <1>0, <2>1 DEF ThreadShape, Goto
      <3>2. Quiet
        BY <1>1, <1>2, <1>3, <3>1 DEF Quiet
      <3> QED BY <3>2, QuietCore
    <2>2. CASE \E i : SleepOn(f, i)
      <3>1. pc'[f] \in {"ok", "eio", "forcewait"} /\ \A q \in Procs \ {f} : pc'[q] = pc[q] /\ ic'[q] = ic[q]
        <4> PICK i : SleepOn(f, i)
          BY <2>2
        <4> QED BY <1>0 DEF ThreadShape, SleepOn, Goto
      <3>2. Quiet
        BY <1>1, <1>2, <1>3, <3>1 DEF Quiet
      <3> QED BY <3>2, QuietCore
    <2>3. CASE CloseAndRelease(f)
      <3>1. curr \in Nat /\ curr' = curr + 1
        BY <1>0, <2>3 DEF CloseAndRelease, SwitchIclogs, RingShape
      <3> QED BY <1>3, <3>1
    <2>4. CASE SwitchIclogs
      <3>1. curr \in Nat /\ curr' = curr + 1
        BY <1>0, <2>4 DEF SwitchIclogs, RingShape
      <3> QED BY <1>3, <3>1
    <2> QED BY <2>1, <2>2, <2>3 DEF SyncAll
  <1>4. CASE st[head] = "ACTIVE" /\ ~Empty(head) /\ ref[head] = 0 /\ CloseAndRelease(f)
    <2>1. ~Dead /\ off[head] > 0
      BY <1>0, <1>4 DEF Dead, Empty, RingShape
    <2> QED BY <1>1, <1>4, <2>1, CloseReleaseCore
  <1>5. CASE st[head] = "ACTIVE" /\ ref[head] > 0 /\ SwitchIclogs /\ UNCHANGED ref /\ \E i : SleepOn(f, i)
    <2>1. ~Dead /\ Holders(head) # {}
      <3>1. ~Dead /\ head \in Iclogs
        BY <1>0, <1>5 DEF Dead, RingShape
      <3>2. Cardinality(Holders(head)) > 0
        BY <1>5, <3>1 DEF Core, RefsOK
      <3> QED BY <3>1, <3>2, Counts
    <2>2. pc'[f] \in {"ok", "eio", "forcewait"} /\ \A q \in Procs \ {f} : pc'[q] = pc[q] /\ ic'[q] = ic[q]
      <3> PICK i : SleepOn(f, i)
        BY <1>5
      <3> QED BY <1>0 DEF ThreadShape, SleepOn, Goto
    <2>3. RefsOK'
      <3>1. (Dead => Dead') /\ \A i \in Iclogs : bw'[i] \in 0 .. 2
        BY <1>1, <2>1 DEF Core, RefsOK
      <3> QED BY <1>0, <1>1, <1>5, <2>2, <3>1, RefsMove DEF Core, Held
    <2> QED BY <1>1, <1>2, <1>5, <2>1, <2>2, <2>3, CloseCore
  <1> QED BY <1>3, <1>4, <1>5 DEF SyncAll

\* xlog_state_sync closes only the iclog with the lsn it wants: the current one.
LEMMA SyncOneCore ==
  ASSUME Base, Base', Core, NEW f \in Syncers, SyncOne(f)
  PROVE  Core'
  <1>0. ThreadShape /\ RingShape /\ f \in Procs
    BY ProcsAre DEF Base, Shape
  <1>1. pc[f] = "syncone" /\ UNCHANGED <<lsn, off, bw, flying, disk, lastSync, ctx>>
    BY DEF SyncOne, io
  <1>2. CASE UNCHANGED <<st, ref, head, curr>> /\ pc'[f] \in {"ok", "eio", "forcewait", "writewait"}
             /\ \A q \in Procs \ {f} : pc'[q] = pc[q] /\ ic'[q] = ic[q]
    <2>1. /\ \A i \in Iclogs : UNCHANGED <<Holders(i), Writers(i), Doners(i)>>
          /\ \A p \in Procs : pc'[p] \in InLoop => pc[p] \in InLoop /\ (pc'[p] = "lastsync" =>
                      pc[p] = "lastsync")
      BY <1>1, <1>2 DEF Holders, Writers, Doners, Held, InLoop
    <2>2. Quiet
      BY <1>1, <1>2, <2>1 DEF Quiet
    <2> QED BY <2>2, QuietCore
  <1>3. CASE \E i \in Iclogs : lsn[i] = want[f] /\ st[i] = "ACTIVE" /\ CloseAndRelease(f)
    <2> PICK i \in Iclogs : lsn[i] = want[f] /\ st[i] = "ACTIVE" /\ CloseAndRelease(f)
      BY <1>3
    <2>1. lsn[i] # 0
      BY <1>1 DEF Base, Wants
    <2>2. ~Dead
      BY <1>0 DEF Base, AllDead, Dead, RingShape
    <2>3. i = head /\ off[i] > 0
      BY <2>1, <2>2 DEF Core, Alive, RingOK
    <2> QED BY <1>1, <2>2, <2>3, CloseReleaseCore
  <1>4. CASE UNCHANGED <<st, ref, head, curr, ic>> /\ \E l \in {"ok", "eio"} : Goto(f, l)
    BY <1>0, <1>2, <1>4 DEF ThreadShape, Goto
  <1>5. CASE UNCHANGED <<st, ref, head, curr>> /\ \E i : SleepOn(f, i)
    <2> PICK i : SleepOn(f, i)
      BY <1>5
    <2> QED BY <1>0, <1>2, <1>5 DEF ThreadShape, SleepOn, Goto
  <1>6. CASE UNCHANGED <<st, ref, head, curr>> /\ Goto(f, "writewait") /\ \E i : ic' = [ic EXCEPT ![f] = i]
    BY <1>0, <1>2, <1>6 DEF ThreadShape, Goto
  <1> QED BY <1>3, <1>4, <1>5, <1>6 DEF SyncOne

\* On a dead ring only the reference counts and the loops are left to check.
LEMMA DeadCore ==
  ASSUME Base', Dead', LoopOK, RefsOK', \A i \in Iclogs : lsn'[i] = lsn[i], disk \subseteq disk',
         lastSync' = lastSync,
         \A p \in Procs : pc'[p] = "lastsync" => pc[p] = "lastsync" /\ ctx'[p].cur = ctx[p].cur
  PROVE  Core'
  <1>1. LoopOK'
    BY DeadLoop
  <1> QED BY <1>1 DEF Core

\* A transaction takes space and a reference in the current iclog.
LEMMA FitsCore ==
  ASSUME Base, Base', Core, NEW t \in Txs, pc[t] = "space", ~Dead, st[head] = "ACTIVE",
         UNCHANGED <<st, bw, head, curr, flying, disk, lastSync, ctx>>,
         ref' = [ref EXCEPT ![head] = @ + 1], ic' = [ic EXCEPT ![t] = head],
         lsn' = [lsn EXCEPT ![head] = IF off[head] = 0 THEN curr ELSE @],
         off' = [off EXCEPT ![head] = @ + left[t]],
         NEW l \in {"wantsync", "notify", "release"}, Goto(t, l)
  PROVE  Core'
  <1>0. ThreadShape /\ RingShape /\ t \in Procs /\ left[t] \in Nat /\ left[t] > 0
    BY ProcsAre DEF Base, Shape, TxShape, TxOK
  <1>1. /\ \A q \in Procs \ {t} : pc'[q] = pc[q] /\ ic'[q] = ic[q]
        /\ pc'[t] = l /\ ic'[t] = head
    BY <1>0 DEF ThreadShape, Goto
  <1>2. \A i \in Iclogs : UNCHANGED <<Writers(i), Doners(i)>>
    BY <1>1 DEF Writers, Doners
  <1>3. \A i \in Iclogs : i # head => UNCHANGED Holders(i)
    BY <1>1 DEF Holders, Held
  <1>4. RefsOK'
    <2>1. (Dead => Dead') /\ \A i \in Iclogs : bw'[i] \in 0 .. 2
      BY DEF Core, RefsOK
    <2> QED BY <1>0, <1>1, <2>1, RefsMove DEF Core, Held
  <1>5. /\ lsn'[head] = curr /\ off'[head] > 0 /\ head \in Iclogs
        /\ \A i \in Iclogs \ {head} : lsn'[i] = lsn[i] /\ off'[i] = off[i]
    <2>1. off[head] \in Nat /\ head \in Iclogs
      BY <1>0 DEF RingShape
    <2>2. off[head] # 0 => lsn[head] = curr
      BY <2>1 DEF Core, Alive, RingOK
    <2> QED BY <1>0, <2>1, <2>2 DEF RingShape
  <1>6. LoopOK'
    <2>1. \A i \in Iclogs : st[i] = "CALLBACK" => st'[i] = "CALLBACK" /\ lsn'[i] = lsn[i]
      BY <1>5
    <2>2. \A p \in Procs : pc'[p] \in InLoop => pc[p] \in InLoop /\ (pc'[p] = "lastsync" =>
                pc[p] = "lastsync")
      BY <1>1 DEF InLoop
    <2> QED BY <2>1, <2>2, KeptLoop DEF Core
  <1>7. RingOK'
    <2>0. RingOK
      BY DEF Core, Alive
    <2>1. \A i \in Iclogs : st'[i] \notin {"ACTIVE", "WANT_SYNC"} => Holders(i)' = {}
      BY <1>3, <2>0 DEF RingOK
    <2>2. \A i \in Iclogs :
            st'[i] = "ACTIVE" /\ (lsn'[i] # 0 \/ off'[i] # 0 \/ Holders(i)' # {}) =>
              i = head' /\ lsn'[i] = curr' /\ off'[i] > 0
      BY <1>3, <1>5, <2>0 DEF RingOK
    <2>3. \A i \in Iclogs : st'[i] # "ACTIVE" => lsn'[i] \in 1 .. curr' - 1
      BY <1>5, <2>0 DEF RingOK
    <2>4. \A i, j \in Iclogs : lsn'[i] = lsn'[j] /\ lsn'[i] # 0 => i = j
      <3>1. \A i \in Iclogs \ {head} : lsn[i] # curr
        BY <1>0, <2>0 DEF RingOK, RingShape
      <3>2. \A i, j \in Iclogs : lsn[i] = lsn[j] /\ lsn[i] # 0 => i = j
        BY <2>0 DEF RingOK
      <3> QED BY <1>5, <3>1, <3>2
    <2> QED BY <2>1, <2>2, <2>3, <2>4 DEF RingOK
  <1>8. IoOK'
    <2>1. IoOK
      BY DEF Core, Alive
    <2>2. \A i \in Iclogs : st[i] # "ACTIVE" => lsn'[i] = lsn[i]
      BY <1>5
    <2>3. \A i \in Iclogs : Cardinality(Doners(i))' = Cardinality(Doners(i))
      BY <1>2
    <2>4. \A n \in 1 .. curr' - 1 :
            n \in disk' \/ \E i \in Iclogs : lsn'[i] = n /\ st'[i] \in {"WANT_SYNC", "SYNCING"}
      BY <2>1, <2>2 DEF IoOK
    <2> QED BY <1>2, <2>1, <2>2, <2>3, <2>4 DEF IoOK
  <1> QED BY <1>4, <1>6, <1>7, <1>8 DEF Core, Alive

\* xlog_state_get_iclog_space that gets some space.
LEMMA GetSpaceCore ==
  ASSUME Base, Base', Core, NEW t \in Txs, GetSpace(t)
  PROVE  Core'
  <1>0. ThreadShape /\ RingShape /\ t \in Procs
    BY ProcsAre DEF Base, Shape
  <1>1. /\ ~Dead /\ pc[t] = "space" /\ st[head] = "ACTIVE"
        /\ UNCHANGED <<bw, flying, disk, lastSync, ctx>>
        /\ ref' = [ref EXCEPT ![head] = @ + 1] /\ ic' = [ic EXCEPT ![t] = head]
        /\ lsn' = [lsn EXCEPT ![head] = IF off[head] = 0 THEN curr ELSE @]
    BY DEF GetSpace, Dead, io
  <1>2. CASE /\ off' = [off EXCEPT ![head] = @ + left[t]]
             /\ UNCHANGED <<st, head, curr>>
             /\ \E l \in {"wantsync", "notify", "release"} : Goto(t, l)
    BY <1>1, <1>2, FitsCore
  <1>3. CASE SwitchIclogs /\ UNCHANGED off /\ Goto(t, "finish")
    <2>1. /\ \A q \in Procs \ {t} : pc'[q] = pc[q] /\ ic'[q] = ic[q]
          /\ pc'[t] = "finish" /\ ic'[t] = head
      BY <1>0, <1>1, <1>3 DEF ThreadShape, Goto
    <2>2. \A i \in Iclogs : UNCHANGED <<Writers(i), Doners(i)>>
      BY <1>1, <2>1 DEF Writers, Doners
    <2>3. \A i \in Iclogs : i # head => UNCHANGED Holders(i)
      BY <1>1, <2>1 DEF Holders, Held
    <2>4. RefsOK'
      <3>1. (Dead => Dead') /\ \A i \in Iclogs : bw'[i] \in 0 .. 2
        BY <1>1 DEF Core, RefsOK
      <3> QED BY <1>0, <1>1, <2>1, <3>1, RefsMove DEF Core, Held
    <2>5. /\ lsn'[head] = curr /\ \A i \in Iclogs \ {head} : lsn'[i] = lsn[i] /\ off'[i] = off[i]
      <3>1. off[head] \in 0 .. Cap /\ head \in Iclogs
        BY <1>0 DEF RingShape
      <3>2. off[head] # 0 => lsn[head] = curr
        BY <1>1, <3>1 DEF Core, Alive, RingOK
      <3> QED BY <1>0, <1>1, <1>3, <3>1, <3>2 DEF RingShape
    <2>6. \A p \in Procs : pc'[p] \in InLoop => pc[p] \in InLoop /\ (pc'[p] = "lastsync" =>
                pc[p] = "lastsync")
      BY <2>1 DEF InLoop
    <2> QED BY <1>1, <1>3, <2>2, <2>3, <2>4, <2>5, <2>6, SwitchCore
  <1>4. \/ off' = [off EXCEPT ![head] = @ + left[t]] /\ UNCHANGED <<st, head, curr>>
           /\ (Goto(t, "wantsync") \/ Goto(t, "notify") \/ Goto(t, "release"))
        \/ SwitchIclogs /\ UNCHANGED off /\ Goto(t, "finish")
    BY DEF GetSpace
  <1> QED BY <1>2, <1>3, <1>4

\* The writer of a partial copy closes the iclog's offset.
LEMMA FinishCopyCore ==
  ASSUME Base, Base', Core, NEW t \in Txs, FinishCopy(t)
  PROVE  Core'
  <1>0. ThreadShape /\ RingShape /\ t \in Procs
    BY ProcsAre DEF Base, Shape
  <1>1. /\ pc[t] = "finish" /\ UNCHANGED <<st, lsn, ref, bw, head, curr, flying, disk, lastSync, ctx, ic>>
        /\ \A q \in Procs \ {t} : pc'[q] = pc[q]
        /\ pc'[t] = "release" /\ off' = [off EXCEPT ![ic[t]] = Cap]
    BY <1>0 DEF ThreadShape, FinishCopy, Goto, io
  <1>2. \A i \in Iclogs : UNCHANGED <<Holders(i), Writers(i), Doners(i)>>
    BY <1>1 DEF Holders, Writers, Doners, Held
  <1>3. \A p \in Procs : pc'[p] \in InLoop => pc[p] \in InLoop /\ (pc'[p] = "lastsync" => pc[p] = "lastsync")
    BY <1>1 DEF InLoop
  <1>4. RefsOK'
    BY <1>1, <1>2 DEF Core, RefsOK, Dead
  <1>5. LoopOK'
    BY <1>1, <1>3 DEF Core, LoopOK, Dead, Durable, InLoop
  <1>6. CASE ~Dead
    <2>0. ic[t] \in Iclogs /\ t \in Holders(ic[t])
      BY <1>0, <1>1 DEF Base, Threads, Holders, Held
    <2>1. /\ \A i \in Iclogs : off'[i] = off[i] \/ (off'[i] > 0 /\ Holders(i) # {})
      BY <1>0, <1>1, <2>0, IclogAssumption DEF RingShape
    <2>2. RingOK'
      BY <1>1, <1>2, <1>6, <2>1 DEF Core, Alive, RingOK
    <2>3. IoOK'
      BY <1>1, <1>2, <1>6 DEF Core, Alive, IoOK
    <2> QED BY <1>4, <1>5, <2>2, <2>3 DEF Core, Alive
  <1>7. CASE Dead
    BY <1>1, <1>4, <1>5, <1>7 DEF Core, Dead
  <1> QED BY <1>6, <1>7

\* The last one out of a WANT_SYNC iclog, and nobody else, becomes its writer.
LEMMA ReleaseCore ==
  ASSUME Base, Base', Core, NEW p \in Txs \cup Syncers, Release(p)
  PROVE  Core'
  <1>0. ThreadShape /\ RingShape /\ p \in Procs
    BY ProcsAre DEF Base, Shape
  <1>1. /\ pc[p] = "release" /\ UNCHANGED <<lsn, off, bw, head, curr, flying, disk, lastSync, ctx, ic>>
        /\ \A q \in Procs \ {p} : pc'[q] = pc[q]
        /\ pc'[p] \in {"released", "sync", "eio"}
    BY <1>0 DEF ThreadShape, Release, Goto, io
  <1> PICK i \in Iclogs : i = ic[p]
    BY <1>0, <1>1 DEF Base, Threads, Held
  <1>2. \A q \in Procs : pc'[q] \in InLoop => pc[q] \in InLoop /\ (pc'[q] = "lastsync" => pc[q] = "lastsync")
    BY <1>1 DEF InLoop
  <1>3. p \in Holders(i) /\ Holders(i)' = Holders(i) \ {p} /\ \A j \in Iclogs \ {i} : UNCHANGED Holders(j)
    BY <1>0, <1>1 DEF Holders, Held
  <1>4. \A j \in Iclogs : UNCHANGED Doners(j)
    BY <1>1 DEF Doners
  <1>5. \A j \in Iclogs : bw'[j] \in 0 .. 2
    BY <1>1 DEF Core, RefsOK
  <1>6. CASE Dead
    <2>1. st[i] = "IOERROR" /\ Dead'
      BY <1>0, <1>1, <1>6 DEF Base, AllDead, Dead, RingShape, Release
    <2>2. ref' = ref \/ ref' = [ref EXCEPT ![ic[p]] = @ - 1]
      BY DEF Release
    <2>3. RefsOK'
      BY <1>0, <1>1, <1>5, <2>1, <2>2, RefsMove DEF Core, Held
    <2> QED BY <1>1, <1>2, <2>1, <2>3, DeadCore DEF Core
  <1>7. CASE ~Dead
    <2>0. st[i] # "IOERROR" /\ RingOK /\ IoOK
      BY <1>0, <1>7 DEF Base, AllDead, Dead, RingShape, Core, Alive
    <2>1. st[i] \in {"ACTIVE", "WANT_SYNC"}
      BY <1>3, <2>0 DEF RingOK
    <2>2. /\ ref' = [ref EXCEPT ![ic[p]] = @ - 1]
          /\ \/ st' = st /\ pc'[p] = "released"
             \/ st[i] = "WANT_SYNC" /\ ref[i] = 1 /\ st' = [st EXCEPT ![i] = "SYNCING"] /\ pc'[p] = "sync"
      BY <1>0, <2>0 DEF ThreadShape, Release, Goto, LastRef
    <2>3. ~Dead'
      BY <1>0, <1>1, <1>7, <2>2 DEF Dead, RingShape
    <2>4. RefsOK'
      BY <1>0, <1>1, <1>5, <1>7, <2>2, RefsMove DEF Core, Held
    <2>5. LoopOK'
      <3>1. \A j \in Iclogs : st[j] = "CALLBACK" => st'[j] = "CALLBACK" /\ lsn'[j] = lsn[j]
        BY <1>0, <1>1, <2>1, <2>2 DEF RingShape
      <3> QED BY <1>1, <1>2, <1>7, <3>1, KeptLoop DEF Core
    <2>6. CASE st' = st /\ pc'[p] = "released"
      <3>1. \A j \in Iclogs : UNCHANGED Writers(j)
        BY <1>1, <2>6 DEF Writers
      <3>2. \A j \in Iclogs : Holders(j)' \subseteq Holders(j)
        BY <1>3
      <3>3. RingOK'
        BY <1>1, <2>0, <2>6, <3>2 DEF RingOK
      <3>4. IoOK'
        BY <1>1, <1>4, <2>0, <2>6, <3>1 DEF IoOK
      <3> QED BY <2>4, <2>5, <3>3, <3>4 DEF Core, Alive
    <2>7. CASE st[i] = "WANT_SYNC" /\ ref[i] = 1 /\ st' = [st EXCEPT ![i] = "SYNCING"] /\ pc'[p] = "sync"
      <3>0. st'[i] = "SYNCING" /\ \A j \in Iclogs \ {i} : st'[j] = st[j]
        BY <1>0, <2>7 DEF RingShape
      <3>1. Writers(i)' = {p} /\ \A j \in Iclogs \ {i} : UNCHANGED Writers(j)
        <4>1. Writers(i) = {}
          BY <2>0, <2>7 DEF IoOK
        <4> QED BY <1>0, <1>1, <2>7, <4>1 DEF Writers
      <3>2. Holders(i)' = {}
        <4>1. Cardinality(Holders(i)) = 1
          BY <1>7, <2>7 DEF Core, RefsOK
        <4>2. Holders(i) = {p}
          BY <1>3, <4>1, Counts, RolesIn
        <4> QED BY <1>3, <4>2
      <3>3. RingOK'
        <4>1. \A j \in Iclogs : st'[j] \notin {"ACTIVE", "WANT_SYNC"} => Holders(j)' = {}
          BY <1>3, <2>0, <3>0, <3>2 DEF RingOK
        <4>2. \A j \in Iclogs :
                st'[j] = "ACTIVE" /\ (lsn'[j] # 0 \/ off'[j] # 0 \/ Holders(j)' # {}) =>
                  j = head' /\ lsn'[j] = curr' /\ off'[j] > 0
          BY <1>1, <1>3, <2>0, <3>0 DEF RingOK
        <4>3. \A j \in Iclogs : st'[j] # "ACTIVE" => lsn'[j] \in 1 .. curr' - 1
          BY <1>1, <2>0, <2>7, <3>0 DEF RingOK
        <4>4. \A j, k \in Iclogs : lsn'[j] = lsn'[k] /\ lsn'[j] # 0 => j = k
          BY <1>1, <2>0 DEF RingOK
        <4> QED BY <4>1, <4>2, <4>3, <4>4 DEF RingOK
      <3>4. IoOK'
        <4>1. \A j \in Iclogs : st'[j] # "SYNCING" =>
                Writers(j)' = {} /\ Doners(j)' = {} /\ flying'[j] = 0
          BY <1>1, <1>4, <2>0, <3>0, <3>1 DEF IoOK
        <4>2. \A j \in Iclogs : st'[j] = "SYNCING" =>
                 \/ /\ \E q \in Procs : Writers(j)' = {q}
                    /\ Doners(j)' = {} /\ flying'[j] = 0 /\ lsn'[j] \notin disk'
                 \/ /\ Writers(j)' = {} /\ bw'[j] \in {1, 2}
                    /\ bw'[j] = flying'[j] + Cardinality(Doners(j)')
                    /\ flying'[j] = 0 <=> lsn'[j] \in disk'
          <5> SUFFICES ASSUME NEW j \in Iclogs, st'[j] = "SYNCING"
                       PROVE \/ /\ \E q \in Procs : Writers(j)' = {q}
                                /\ Doners(j)' = {} /\ flying'[j] = 0 /\ lsn'[j] \notin disk'
                             \/ /\ Writers(j)' = {} /\ bw'[j] \in {1, 2}
                                /\ bw'[j] = flying'[j] + Cardinality(Doners(j)')
                                /\ flying'[j] = 0 <=> lsn'[j] \in disk'
            OBVIOUS
          <5>1. CASE j = i
            BY <1>0, <1>1, <1>4, <2>0, <2>7, <3>1, <5>1 DEF IoOK
          <5>2. CASE j # i
            <6>1. st[j] = "SYNCING" /\ Writers(j)' = Writers(j) /\ Doners(j)' = Doners(j)
              BY <1>4, <3>0, <3>1, <5>2
            <6> QED BY <1>1, <2>0, <6>1 DEF IoOK
          <5> QED BY <5>1, <5>2
        <4>3. \A j \in Iclogs : st'[j] = "WANT_SYNC" => lsn'[j] \notin disk'
          BY <1>1, <2>0, <3>0 DEF IoOK
        <4>4. \A j \in Iclogs : st'[j] \in {"DONE_SYNC", "DO_CALLBACK", "CALLBACK", "DIRTY"} =>
                    lsn'[j] \in disk'
          BY <1>1, <2>0, <3>0 DEF IoOK
        <4>5. \A n \in 1 .. curr' - 1 :
                n \in disk' \/ \E j \in Iclogs : lsn'[j] = n /\ st'[j] \in {"WANT_SYNC", "SYNCING"}
          <5>1. \A j \in Iclogs : st[j] \in {"WANT_SYNC", "SYNCING"} => st'[j] \in {"WANT_SYNC", "SYNCING"}
            BY <3>0
          <5> QED BY <1>1, <2>0, <5>1 DEF IoOK
        <4> QED BY <1>1, <2>0, <4>1, <4>2, <4>3, <4>4, <4>5 DEF IoOK
      <3> QED BY <2>4, <2>5, <3>3, <3>4 DEF Core, Alive
    <2> QED BY <2>2, <2>6, <2>7
  <1> QED BY <1>6, <1>7

\* The part of IoOK that is about one iclog being written, named for the proofs
InFlight(i) ==
  \/ /\ \E q \in Procs : Writers(i) = {q}
     /\ Doners(i) = {} /\ flying[i] = 0 /\ lsn[i] \notin disk
  \/ /\ Writers(i) = {} /\ bw[i] \in {1, 2}
     /\ bw[i] = flying[i] + Cardinality(Doners(i))
     /\ flying[i] = 0 <=> lsn[i] \in disk

\* The writer issues the buffer writes, or completes a refused one itself.
LEMMA SyncCore ==
  ASSUME Base, Base', Core, NEW p \in Txs \cup Syncers, Sync(p)
  PROVE  Core'
  <1>0. ThreadShape /\ RingShape /\ DiskShape /\ CtxShape /\ p \in Procs
    BY ProcsAre DEF Base, Shape
  <1>1. /\ pc[p] = "sync" /\ UNCHANGED <<st, lsn, off, ref, head, curr, disk, lastSync, ic>>
        /\ \A q \in Procs \ {p} : pc'[q] = pc[q] /\ ctx'[q] = ctx[q]
        /\ pc'[p] \in {"released", "donesync"}
    BY <1>0 DEF ThreadShape, CtxShape, Sync, Goto
  <1> PICK i \in Iclogs : i = ic[p]
    BY <1>0, <1>1 DEF Base, Threads
  <1>2. PICK b \in {1, 2} :
          /\ bw' = [bw EXCEPT ![i] = b]
          /\ st[i] # "IOERROR" => flying' = [flying EXCEPT ![i] = b] /\ pc'[p] = "released"
    BY <1>0, IclogAssumption DEF ThreadShape, Sync, Goto
  <1>3. \A q \in Procs : pc'[q] \in InLoop => pc[q] \in InLoop /\ ctx'[q].cur = ctx[q].cur
                             /\ (pc'[q] = "lastsync" => pc[q] = "lastsync")
    BY <1>1 DEF InLoop
  <1>4. Dead' <=> Dead
    BY <1>1 DEF Dead
  <1>5. RefsOK'
    <2>1. \A j \in Iclogs : bw'[j] \in 0 .. 2
      BY <1>0, <1>2 DEF Core, RefsOK, RingShape
    <2> QED BY <1>0, <1>1, <1>4, <2>1, RefsMove DEF Core, Held
  <1>6. CASE Dead
    BY <1>1, <1>3, <1>4, <1>5, <1>6, DeadCore DEF Core, InLoop
  <1>7. CASE ~Dead
    <2>0. st[i] # "IOERROR" /\ RingOK /\ IoOK
      BY <1>0, <1>7 DEF Base, AllDead, Dead, RingShape, Core, Alive
    <2>1. /\ flying'[i] = b /\ bw'[i] = b /\ pc'[p] = "released"
          /\ \A j \in Iclogs \ {i} : flying'[j] = flying[j] /\ bw'[j] = bw[j]
      BY <1>0, <1>2, <2>0 DEF RingShape, DiskShape
    <2>2. LoopOK'
      BY <1>1, <1>3, <1>7, KeptLoop DEF Core
    <2>3. \A j \in Iclogs : UNCHANGED <<Holders(j), Doners(j)>>
      BY <1>1, <2>1 DEF Holders, Doners, Held
    <2>4. RingOK'
      BY <1>1, <2>0, <2>3 DEF RingOK
    <2>5. p \in Writers(i)
      BY <1>0, <1>1 DEF Writers
    <2>6. st[i] = "SYNCING" /\ Writers(i) = {p} /\ Doners(i) = {} /\ lsn[i] \notin disk
      BY <2>0, <2>5 DEF IoOK
    <2>7. Writers(i)' = {} /\ \A j \in Iclogs \ {i} : UNCHANGED Writers(j)
      <3>1. Writers(i)' = Writers(i) \ {p}
        BY <1>1, <2>1 DEF Writers
      <3> QED BY <1>1, <2>1, <2>6, <3>1 DEF Writers
    <2>8. \A j \in Iclogs : st'[j] = "SYNCING" => InFlight(j)'
      <3> SUFFICES ASSUME NEW j \in Iclogs, st'[j] = "SYNCING" PROVE InFlight(j)'
        OBVIOUS
      <3>1. CASE j = i
        <4>1. Cardinality(Doners(i)') = 0
          BY <2>3, <2>6, FS_EmptySet
        <4> QED BY <1>1, <2>1, <2>6, <2>7, <3>1, <4>1 DEF InFlight
      <3>2. CASE j # i
        <4>1. InFlight(j)
          BY <1>1, <2>0 DEF IoOK, InFlight
        <4>2. Cardinality(Doners(j)') = Cardinality(Doners(j))
          BY <2>3
        <4> QED BY <1>1, <2>1, <2>3, <2>7, <3>2, <4>1, <4>2 DEF InFlight
      <3> QED BY <3>1, <3>2
    <2>9. \A j \in Iclogs : st'[j] # "SYNCING" =>
            Writers(j)' = {} /\ Doners(j)' = {} /\ flying'[j] = 0
      BY <1>1, <2>0, <2>1, <2>3, <2>6, <2>7 DEF IoOK
    <2>10. IoOK'
      BY <1>1, <2>0, <2>8, <2>9 DEF IoOK, InFlight
    <2> QED BY <1>5, <2>2, <2>4, <2>10 DEF Core, Alive
  <1> QED BY <1>6, <1>7

\* The last buffer write to succeed puts the record on disk.
LEMMA IodoneOkCore ==
  ASSUME Base, Base', Core, NEW c \in Cpus, NEW i \in Iclogs, IodoneOk(c, i)
  PROVE  Core'
  <1>0. ThreadShape /\ RingShape /\ DiskShape /\ CtxShape /\ c \in Procs
    BY ProcsAre DEF Base, Shape
  <1>1. /\ pc[c] = "idle" /\ UNCHANGED <<st, lsn, off, ref, bw, head, curr, lastSync>>
        /\ \A q \in Procs \ {c} : pc'[q] = pc[q] /\ ctx'[q] = ctx[q] /\ ic'[q] = ic[q]
        /\ pc'[c] = "donesync" /\ ic'[c] = i
        /\ disk' = IF flying[i] = 1 /\ i \notin torn THEN disk \cup {lsn[i]} ELSE disk
        /\ flying[i] \in {1, 2} /\ flying'[i] = flying[i] - 1
        /\ \A j \in Iclogs \ {i} : flying'[j] = flying[j]
    BY <1>0 DEF ThreadShape, CtxShape, DiskShape, IodoneOk, Goto, ring
  <1>2. \A q \in Procs : pc'[q] \in InLoop => pc[q] \in InLoop /\ ctx'[q].cur = ctx[q].cur
                             /\ (pc'[q] = "lastsync" => pc[q] = "lastsync")
    BY <1>1 DEF InLoop
  <1>3. (Dead' <=> Dead) /\ disk \subseteq disk'
    BY <1>1 DEF Dead
  <1>4. \A j \in Iclogs : UNCHANGED <<Holders(j), Writers(j)>>
    BY <1>1 DEF Holders, Writers, Held
  <1>5. RefsOK'
    <2>1. \A j \in Iclogs : Cardinality(Holders(j))' = Cardinality(Holders(j))
      BY <1>4
    <2> QED BY <1>1, <1>3, <2>1 DEF Core, RefsOK
  <1>6. CASE Dead
    BY <1>1, <1>2, <1>3, <1>5, <1>6, DeadCore DEF Core, InLoop
  <1>7. CASE ~Dead
    <2>0. RingOK /\ IoOK
      BY <1>7 DEF Core, Alive
    <2>1. i \notin torn
      BY <1>7 DEF Base, AllDead
    <2>2. LoopOK'
      BY <1>1, <1>2, <1>3, <1>7, KeptLoop DEF Core
    <2>3. RingOK'
      BY <1>1, <1>4, <2>0 DEF RingOK
    <2>4. /\ st[i] = "SYNCING" /\ Writers(i) = {} /\ bw[i] \in {1, 2}
          /\ bw[i] = flying[i] + Cardinality(Doners(i)) /\ lsn[i] \notin disk
      BY <1>1, <2>0 DEF IoOK
    <2>5. Doners(i)' = Doners(i) \cup {c} /\ \A j \in Iclogs \ {i} : UNCHANGED Doners(j)
      BY <1>0, <1>1 DEF Doners
    <2>6. Cardinality(Doners(i)') = Cardinality(Doners(i)) + 1 /\ Cardinality(Doners(i)) \in Nat
      <3>1. c \notin Doners(i)
        BY <1>1 DEF Doners
      <3> QED BY <1>0, <2>5, <3>1, Counts, RolesIn
    <2>7. /\ lsn[i] \in 1 .. curr - 1
          /\ \A j \in Iclogs \ {i} : lsn[j] # lsn[i]
      BY <2>0, <2>4 DEF RingOK
    <2>8. \A j \in Iclogs \ {i} : lsn[j] \in disk' <=> lsn[j] \in disk
      BY <1>1, <2>7
    <2>9. \A j \in Iclogs : st'[j] = "SYNCING" => InFlight(j)'
      <3> SUFFICES ASSUME NEW j \in Iclogs, st'[j] = "SYNCING" PROVE InFlight(j)'
        OBVIOUS
      <3>1. CASE j = i
        <4>1. flying'[i] = 0 <=> lsn'[i] \in disk'
          BY <1>1, <2>1, <2>4
        <4>2. bw'[i] = flying'[i] + Cardinality(Doners(i)')
          BY <1>1, <2>4, <2>6
        <4>3. Writers(i)' = {} /\ bw'[i] \in {1, 2}
          BY <1>1, <1>4, <2>4
        <4> QED BY <3>1, <4>1, <4>2, <4>3 DEF InFlight
      <3>2. CASE j # i
        <4>1. InFlight(j)
          BY <1>1, <2>0 DEF IoOK, InFlight
        <4>2. Cardinality(Doners(j)') = Cardinality(Doners(j))
          BY <2>5, <3>2
        <4> QED BY <1>1, <1>4, <2>5, <2>8, <3>2, <4>1, <4>2 DEF InFlight
      <3> QED BY <3>1, <3>2
    <2>10. \A j \in Iclogs : st'[j] # "SYNCING" =>
            Writers(j)' = {} /\ Doners(j)' = {} /\ flying'[j] = 0
      BY <1>1, <1>4, <2>0, <2>4, <2>5 DEF IoOK
    <2>11. disk' \subseteq 1 .. curr' - 1
      BY <1>1, <2>0, <2>7 DEF IoOK
    <2>12. \A j \in Iclogs : st'[j] = "WANT_SYNC" => lsn'[j] \notin disk'
      BY <1>1, <2>0, <2>4, <2>8 DEF IoOK
    <2>13. \A j \in Iclogs : st'[j] \in {"DONE_SYNC", "DO_CALLBACK", "CALLBACK", "DIRTY"} => lsn'[j] \in disk'
      BY <1>1, <1>3, <2>0 DEF IoOK
    <2>14. \A n \in 1 .. curr' - 1 :
            n \in disk' \/ \E j \in Iclogs : lsn'[j] = n /\ st'[j] \in {"WANT_SYNC", "SYNCING"}
      BY <1>1, <1>3, <2>0 DEF IoOK
    <2>15. IoOK'
      BY <2>9, <2>10, <2>11, <2>12, <2>13, <2>14 DEF IoOK, InFlight
    <2> QED BY <1>5, <2>2, <2>3, <2>15 DEF Core, Alive
  <1> QED BY <1>6, <1>7

\* The last of the buffer writes to be accounted for makes the iclog DONE_SYNC.
LEMMA DoneSyncingCore ==
  ASSUME Base, Base', Core, NEW p \in Procs, DoneSyncing(p)
  PROVE  Core'
  <1>0. ThreadShape /\ RingShape /\ DiskShape /\ CtxShape
    BY DEF Base, Shape
  <1>1. /\ pc[p] = "donesync" /\ UNCHANGED <<lsn, off, ref, head, curr, lastSync, flying, disk>>
        /\ \A q \in Procs \ {p} : pc'[q] = pc[q] /\ ctx'[q] = ctx[q] /\ ic'[q] = ic[q]
        /\ pc'[p] \in {"idle", "cbstart"}
    BY <1>0 DEF ThreadShape, CtxShape, DoneSyncing, Goto, io
  <1> PICK i \in Iclogs : i = ic[p]
    BY <1>0, <1>1 DEF Base, Threads
  <1>2. \A q \in Procs : pc'[q] \in InLoop => pc[q] \in InLoop /\ ctx'[q].cur = ctx[q].cur
                             /\ (pc'[q] = "lastsync" => pc[q] = "lastsync")
    BY <1>1 DEF InLoop
  <1>4. \A j \in Iclogs : UNCHANGED <<Holders(j), Writers(j)>>
    BY <1>1 DEF Holders, Writers, Held
  <1>c. \A j \in Iclogs : Cardinality(Holders(j))' = Cardinality(Holders(j))
    BY <1>4
  <1>6. CASE Dead
    <2>1. st[i] = "IOERROR" /\ UNCHANGED <<st, bw>>
      BY <1>0, <1>6 DEF Base, AllDead, Dead, RingShape, DoneSyncing
    <2>2. Dead'
      BY <1>1, <1>6, <2>1 DEF Dead
    <2>3. RefsOK'
      BY <1>1, <1>c, <2>1, <2>2 DEF Core, RefsOK
    <2> QED BY <1>1, <1>2, <2>2, <2>3, DeadCore DEF Core, InLoop
  <1>7. CASE ~Dead
    <2>0. RingOK /\ IoOK /\ st[i] # "IOERROR"
      BY <1>0, <1>7 DEF Base, AllDead, Dead, RingShape, Core, Alive
    <2>1. p \in Doners(i)
      BY <1>1 DEF Doners
    <2>2. /\ st[i] = "SYNCING" /\ Writers(i) = {} /\ bw[i] \in {1, 2}
          /\ bw[i] = flying[i] + Cardinality(Doners(i))
          /\ flying[i] = 0 <=> lsn[i] \in disk
      BY <2>0, <2>1 DEF IoOK
    <2>3. Doners(i)' = Doners(i) \ {p} /\ \A j \in Iclogs \ {i} : UNCHANGED Doners(j)
      BY <1>1 DEF Doners
    <2>4. /\ Cardinality(Doners(i)') = Cardinality(Doners(i)) - 1
          /\ Cardinality(Doners(i)) \in Nat \ {0} /\ flying[i] \in Nat
          /\ Cardinality(Doners(i)) = 1 => Doners(i)' = {}
      <3>1. Doners(i) \subseteq Procs
        BY RolesIn
      <3>2. /\ Cardinality(Doners(i)) \in Nat /\ Cardinality(Doners(i)) # 0
            /\ Cardinality(Doners(i) \ {p}) = Cardinality(Doners(i)) - 1
            /\ Cardinality(Doners(i)) = 1 => Doners(i) = {p}
        BY <2>1, <3>1, Counts
      <3>3. flying[i] \in Nat
        BY <1>0 DEF DiskShape
      <3> QED BY <2>3, <3>2, <3>3
    <2>5. /\ bw'[i] = bw[i] - 1 /\ \A j \in Iclogs \ {i} : st'[j] = st[j] /\ bw'[j] = bw[j]
          /\ st'[i] = IF bw[i] = 2 THEN "SYNCING" ELSE "DONE_SYNC"
      BY <1>0, <2>0, <2>2 DEF RingShape, DoneSyncing
    <2>6. ~Dead'
      BY <1>0, <1>1, <1>7, <2>5 DEF Dead, RingShape
    <2>7. RefsOK'
      <3>1. \A j \in Iclogs : bw'[j] \in 0 .. 2
        BY <2>2, <2>5 DEF Core, RefsOK
      <3> QED BY <1>1, <1>7, <1>c, <3>1 DEF Core, RefsOK
    <2>8. LoopOK'
      <3>1. \A j \in Iclogs : st[j] = "CALLBACK" => st'[j] = "CALLBACK" /\ lsn'[j] = lsn[j]
        BY <1>1, <2>2, <2>5
      <3> QED BY <1>1, <1>2, <1>7, <3>1, KeptLoop DEF Core
    <2>9. RingOK'
      <3>1. \A j \in Iclogs : st'[j] = "ACTIVE" <=> st[j] = "ACTIVE"
        BY <2>2, <2>5
      <3>2. \A j \in Iclogs : st'[j] \notin {"ACTIVE", "WANT_SYNC"} => st[j] \notin {"ACTIVE", "WANT_SYNC"}
        BY <2>2, <2>5
      <3> QED BY <1>1, <1>4, <2>0, <3>1, <3>2 DEF RingOK
    <2>10. bw[i] = 1 => flying[i] = 0 /\ Doners(i)' = {}
      BY <2>2, <2>4
    <2>11. \A j \in Iclogs : st'[j] = "SYNCING" => InFlight(j)'
      <3> SUFFICES ASSUME NEW j \in Iclogs, st'[j] = "SYNCING" PROVE InFlight(j)'
        OBVIOUS
      <3>1. CASE j = i
        <4>1. bw[i] = 2
          BY <2>5, <3>1
        <4>2. bw'[i] = flying'[i] + Cardinality(Doners(i)')
          BY <1>1, <2>2, <2>4, <2>5
        <4>3. Writers(i)' = {} /\ bw'[i] \in {1, 2} /\ (flying'[i] = 0 <=> lsn'[i] \in disk')
          BY <1>1, <1>4, <2>2, <2>5, <4>1
        <4> QED BY <3>1, <4>2, <4>3 DEF InFlight
      <3>2. CASE j # i
        <4>1. InFlight(j)
          BY <2>0, <2>5, <3>2 DEF IoOK, InFlight
        <4>2. Cardinality(Doners(j)') = Cardinality(Doners(j))
          BY <2>3, <3>2
        <4> QED BY <1>1, <1>4, <2>3, <2>5, <3>2, <4>1, <4>2 DEF InFlight
      <3> QED BY <3>1, <3>2
    <2>12. \A j \in Iclogs : st'[j] # "SYNCING" =>
            Writers(j)' = {} /\ Doners(j)' = {} /\ flying'[j] = 0
      <3> SUFFICES ASSUME NEW j \in Iclogs, st'[j] # "SYNCING"
                   PROVE  Writers(j)' = {} /\ Doners(j)' = {} /\ flying'[j] = 0
        OBVIOUS
      <3>1. CASE j = i
        BY <1>1, <1>4, <2>2, <2>5, <2>10, <3>1
      <3>2. CASE j # i
        BY <1>1, <1>4, <2>0, <2>3, <2>5, <3>2 DEF IoOK
      <3> QED BY <3>1, <3>2
    <2>13. \A j \in Iclogs : st'[j] = "WANT_SYNC" => lsn'[j] \notin disk'
      BY <1>1, <2>0, <2>5 DEF IoOK
    <2>14. \A j \in Iclogs : st'[j] \in {"DONE_SYNC", "DO_CALLBACK", "CALLBACK", "DIRTY"} => lsn'[j] \in disk'
      <3> SUFFICES ASSUME NEW j \in Iclogs, st'[j] \in {"DONE_SYNC", "DO_CALLBACK", "CALLBACK", "DIRTY"}
                   PROVE  lsn'[j] \in disk'
        OBVIOUS
      <3>1. CASE j = i
        BY <1>1, <2>2, <2>5, <2>10, <3>1
      <3>2. CASE j # i
        BY <1>1, <2>0, <2>5, <3>2 DEF IoOK
      <3> QED BY <3>1, <3>2
    <2>15. \A n \in 1 .. curr' - 1 :
            n \in disk' \/ \E j \in Iclogs : lsn'[j] = n /\ st'[j] \in {"WANT_SYNC", "SYNCING"}
      <3> SUFFICES ASSUME NEW n \in 1 .. curr - 1, n \notin disk
                   PROVE  \E j \in Iclogs : lsn'[j] = n /\ st'[j] \in {"WANT_SYNC", "SYNCING"}
        BY <1>1
      <3>1. PICK j \in Iclogs : lsn[j] = n /\ st[j] \in {"WANT_SYNC", "SYNCING"}
        BY <2>0 DEF IoOK
      <3>2. st'[j] \in {"WANT_SYNC", "SYNCING"}
        BY <2>2, <2>5, <2>10, <3>1
      <3> QED BY <1>1, <3>1, <3>2
    <2>16. disk' \subseteq 1 .. curr' - 1
      BY <1>1, <2>0 DEF IoOK
    <2>17. IoOK'
      BY <2>11, <2>12, <2>13, <2>14, <2>15, <2>16 DEF IoOK, InFlight
    <2> QED BY <2>7, <2>8, <2>9, <2>17 DEF Core, Alive
  <1> QED BY <1>6, <1>7

\* A step of a thread that finds all iclogs dead, or kills them.
LEMMA DyingCore ==
  ASSUME Base, Base', Core, NEW p \in Procs, Dead',
         \A q \in Procs \ {p} : pc'[q] = pc[q] /\ ctx'[q] = ctx[q] /\ ic'[q] = ic[q],
         pc[p] \notin Held, pc'[p] \notin Held, pc'[p] # "lastsync",
         \A i \in Iclogs : lsn'[i] = lsn[i], UNCHANGED <<ref, bw, lastSync>>, disk \subseteq disk'
  PROVE  Core'
  <1>1. RefsOK'
    <2>1. \A i \in Iclogs : bw'[i] \in 0 .. 2
      BY DEF Core, RefsOK
    <2> QED BY <2>1, RefsMove DEF Core
  <1> QED BY <1>1, DeadCore DEF Core

\* A transaction that sees an error kills the iclogs.
LEMMA TxErrorCore ==
  ASSUME Base, Base', Core, NEW t \in Txs, TxError(t)
  PROVE  Core'
  <1>0. ThreadShape /\ RingShape /\ CtxShape /\ t \in Procs
    BY ProcsAre DEF Base, Shape
  <1>1. /\ \A q \in Procs \ {t} : pc'[q] = pc[q] /\ ctx'[q] = ctx[q] /\ ic'[q] = ic[q]
        /\ pc[t] = "eio" /\ pc'[t] \in {"idle", "cbstart"}
        /\ UNCHANGED <<lsn, ref, bw, lastSync, disk, head>>
    BY <1>0 DEF ThreadShape, CtxShape, TxError, Goto, io
  <1>2. Dead'
    <2>1. CASE Dead
      BY <1>1, <2>1 DEF TxError, Dead
    <2>2. CASE ~Dead
      <3>1. AllIoerror
        BY <2>2 DEF TxError, Dead
      <3> QED BY <1>0, <1>1, <3>1, AllIoerrorIs DEF Base, Dead, RingShape
    <2> QED BY <2>1, <2>2
  <1> QED BY <1>0, <1>1, <1>2, DyingCore DEF Held

\* A failing buffer write kills the iclogs.
LEMMA IodoneErrorCore ==
  ASSUME Base, Base', Core, NEW c \in Cpus, NEW i \in Iclogs, IodoneError(c, i)
  PROVE  Core'
  <1>0. ThreadShape /\ RingShape /\ CtxShape /\ c \in Procs
    BY ProcsAre DEF Base, Shape
  <1>1. /\ \A q \in Procs \ {c} : pc'[q] = pc[q] /\ ctx'[q] = ctx[q] /\ ic'[q] = ic[q]
        /\ pc[c] = "idle" /\ pc'[c] \in {"donesync", "cbstart"} /\ AllIoerror
        /\ UNCHANGED <<lsn, ref, bw, lastSync, disk, head>>
    BY <1>0 DEF ThreadShape, CtxShape, IodoneError, Goto
  <1>2. Dead'
    BY <1>0, <1>1, AllIoerrorIs DEF Base, Dead, RingShape
  <1> QED BY <1>0, <1>1, <1>2, DyingCore DEF Held

\* The killer seals the iclogs.
LEMMA UmountCore ==
  ASSUME Base, Base', Core, ForceUmountLogError \/ ForceUmountSeal
  PROVE  Core'
  <1>0. ThreadShape /\ RingShape /\ CtxShape /\ Killer \in Procs
    BY ProcsAre DEF Base, Shape
  <1>1. /\ \A q \in Procs \ {Killer} : pc'[q] = pc[q] /\ ctx'[q] = ctx[q] /\ ic'[q] = ic[q]
        /\ pc[Killer] \in {"idle", "ok", "eio"} /\ pc'[Killer] = "cbstart" /\ AllIoerror
        /\ UNCHANGED <<lsn, ref, bw, lastSync, disk, head>>
    BY <1>0 DEF ThreadShape, CtxShape, ForceUmountLogError, ForceUmountSeal, Goto, io
  <1>2. Dead'
    BY <1>0, <1>1, AllIoerrorIs DEF Base, Dead, RingShape
  <1> QED BY <1>0, <1>1, <1>2, DyingCore DEF Held

\* l_last_sync_lsn is set to a durable lsn.
LEMMA CbLastSyncCore ==
  ASSUME Base, Base', Core, NEW p \in Procs, CbLastSync(p)
  PROVE  Core'
  <1>0. ThreadShape
    BY DEF Base, Shape
  <1>1. /\ \A q \in Procs \ {p} : pc'[q] = pc[q]
        /\ pc[p] = "lastsync" /\ pc'[p] = "cbgrab" /\ lastSync' = lsn[ctx[p].cur]
        /\ UNCHANGED <<st, lsn, off, ref, bw, head, curr, flying, disk, ctx, ic>>
    BY <1>0 DEF ThreadShape, CbLastSync, Goto, io, ring
  <1>2. \A i \in Iclogs : UNCHANGED <<Holders(i), Writers(i), Doners(i)>>
    BY <1>1 DEF Holders, Writers, Doners, Held
  <1>3. RefsOK' /\ (Alive => Alive') /\ (Dead' <=> Dead)
    BY <1>1, <1>2 DEF Core, RefsOK, Alive, RingOK, IoOK, Dead
  <1>4. LoopOK'
    <2>1. Durable(lastSync)'
      BY <1>1 DEF Core, LoopOK, Durable
    <2>2. \A q \in Procs : pc'[q] \in InLoop <=> pc[q] \in InLoop
      BY <1>1 DEF InLoop
    <2>3. \A q \in Procs : pc'[q] = "lastsync" => pc[q] = "lastsync"
      BY <1>1
    <2> QED BY <1>1, <1>3, <2>1, <2>2, <2>3 DEF Core, LoopOK, Durable
  <1> QED BY <1>3, <1>4 DEF Core

----------------------------------------------------------------------------
\* RingOK and IoOK of the iclog states, lsns and offsets a scan starts from
RingIn(s, l, o) ==
  /\ \A i \in Iclogs : s[i] \notin {"ACTIVE", "WANT_SYNC"} => Holders(i) = {}
  /\ \A i \in Iclogs :
       s[i] = "ACTIVE" /\ (l[i] # 0 \/ o[i] # 0 \/ Holders(i) # {}) =>
         i = head /\ l[i] = curr /\ o[i] > 0
  /\ \A i \in Iclogs : s[i] # "ACTIVE" => l[i] \in 1 .. curr - 1
  /\ \A i, j \in Iclogs : l[i] = l[j] /\ l[i] # 0 => i = j
IoIn(s, l) ==
  /\ disk \subseteq 1 .. curr - 1
  /\ \A i \in Iclogs : s[i] # "SYNCING" =>
       Writers(i) = {} /\ Doners(i) = {} /\ flying[i] = 0
  /\ \A i \in Iclogs : s[i] = "SYNCING" => l[i] = lsn[i] /\ InFlight(i)
  /\ \A i \in Iclogs : s[i] = "WANT_SYNC" => l[i] \notin disk
  /\ \A i \in Iclogs : s[i] \in {"DONE_SYNC", "DO_CALLBACK", "CALLBACK", "DIRTY"} => l[i] \in disk
  /\ \A n \in 1 .. curr - 1 :
       n \in disk \/ \E i \in Iclogs : l[i] = n /\ s[i] \in {"WANT_SYNC", "SYNCING"}
Written == {"DONE_SYNC", "DO_CALLBACK", "CALLBACK"}

\* The conditions of the living ring, of iclogs alone.
LEMMA AliveIs == Alive <=> RingIn(st, lsn, off) /\ IoIn(st, lsn)
  BY DEF Alive, RingOK, IoOK, RingIn, IoIn, InFlight

\* A record all whose predecessors are on disk: the iclogs it is the oldest of.
LEMMA OldestDurable ==
  ASSUME NEW s, NEW l \in [Iclogs -> Nat], NEW o, IoIn(s, l), RingIn(s, l, o), NEW a \in Iclogs,
         curr \in Nat, s[a] \in Written, \A i \in Iclogs : s[i] \notin Loose => l[a] <= l[i]
  PROVE  Durable(l[a])
  <1> SUFFICES ASSUME NEW n \in 1 .. l[a], n \notin disk PROVE FALSE
    BY DEF Durable
  <1>1. l[a] \in disk /\ l[a] \in 1 .. curr - 1
    BY DEF IoIn, RingIn, Written
  <1>2. n \in 1 .. curr - 1
    BY <1>1
  <1>3. PICK i \in Iclogs : l[i] = n /\ s[i] \in {"WANT_SYNC", "SYNCING"}
    BY <1>2 DEF IoIn
  <1>4. l[a] <= n
    BY <1>3 DEF Loose
  <1> QED BY <1>1, <1>4

\* The scan marks written iclogs only, and stops at one whose record is durable.
LEMMA ScanRing ==
  ASSUME NEW s \in [Iclogs -> States], NEW l \in [Iclogs -> Nat], NEW o, curr \in Nat,
         RingIn(s, l, o), IoIn(s, l), \A i \in Iclogs : s[i] # "IOERROR",
         NEW r, Scanned(s, l, r)
  PROVE  /\ RingIn(r.st, l, o) /\ IoIn(r.st, l)
         /\ \A i \in Iclogs : r.st[i] # "IOERROR"
         /\ \A i \in Iclogs : s[i] = "CALLBACK" => r.st[i] = "CALLBACK"
         /\ \/ r.at = None
            \/ r.at \in Iclogs /\ s[r.at] # "CALLBACK" /\ r.st[r.at] = "CALLBACK" /\ Durable(l[r.at])
  <1>1. PICK S : Marked(s, S) /\ (Stops(S, l, r) \/ (r.at = None /\ r.st = S))
    BY DEF Scanned
  <1>2. \A i \in Iclogs : S[i] = s[i] \/ (s[i] = "DONE_SYNC" /\ S[i] = "DO_CALLBACK")
    BY <1>1 DEF Marked
  <1>3. CASE r.at = None /\ r.st = S
    <2>1. \A i \in Iclogs : r.st[i] = s[i] \/ (s[i] = "DONE_SYNC" /\ r.st[i] = "DO_CALLBACK")
      BY <1>2, <1>3
    <2>2. RingIn(r.st, l, o)
      BY <2>1 DEF RingIn
    <2>3. IoIn(r.st, l)
      BY <2>1 DEF IoIn
    <2> QED BY <1>3, <2>1, <2>2, <2>3
  <1>4. CASE Stops(S, l, r)
    <2>1. /\ r.at \in Iclogs /\ S[r.at] \in {"DONE_SYNC", "DO_CALLBACK"}
          /\ r.st = [S EXCEPT ![r.at] = "CALLBACK"]
          /\ \A i \in Iclogs : S[i] \notin Loose => l[r.at] <= l[i]
      BY <1>2, <1>4 DEF Stops
    <2>2. S \in [Iclogs -> States]
      BY <1>1 DEF Marked
    <2>3. /\ r.st[r.at] = "CALLBACK" /\ s[r.at] \in {"DONE_SYNC", "DO_CALLBACK"}
          /\ \A i \in Iclogs \ {r.at} : r.st[i] = s[i] \/ (s[i] = "DONE_SYNC" /\ r.st[i] = "DO_CALLBACK")
      BY <1>2, <2>1, <2>2
    <2>4. \A i \in Iclogs : r.st[i] = s[i] \/ (s[i] \in Written /\ r.st[i] \in Written)
      BY <2>3 DEF Written
    <2>5. RingIn(r.st, l, o)
      BY <2>4 DEF RingIn, Written
    <2>6. IoIn(r.st, l)
      BY <2>4 DEF IoIn, Written
    <2>7. Durable(l[r.at])
      <3>1. \A i \in Iclogs : s[i] \notin Loose => l[r.at] <= l[i]
        BY <1>2, <2>1 DEF Loose
      <3>2. s[r.at] \in Written
        BY <2>3 DEF Written
      <3> QED BY <2>1, <3>1, <3>2, OldestDurable
    <2> QED BY <2>1, <2>3, <2>5, <2>6, <2>7
  <1> QED BY <1>1, <1>3, <1>4

\* A scan hands an iclog to one thread only, as the oldest one not yet on disk.
LEMMA ResumeAlive ==
  ASSUME Base, Base', RefsOK, Durable(lastSync), ~Dead,
         NEW p \in Procs, pc[p] \in {"cbstart", "cbgrab"},
         NEW s \in [Iclogs -> States], RingIn(s, lsn', off'), IoIn(s, lsn'),
         \A i \in Iclogs : s[i] # "IOERROR",
         \A q \in Procs \ {p} : pc[q] \in InLoop =>
           /\ s[ctx[q].cur] = "CALLBACK"
           /\ pc[q] = "lastsync" => Durable(lsn'[ctx[q].cur])
           /\ \A t \in Procs \ {p} : pc[t] \in InLoop /\ ctx[t].cur = ctx[q].cur => q = t,
         NEW r, Scanned(s, lsn', r), NEW err \in BOOLEAN, NEW up, Resume(p, r, err, up),
         UNCHANGED <<ref, bw, head, curr, flying, disk, lastSync>>,
         \A i \in Iclogs : s[i] = "SYNCING" => lsn'[i] = lsn[i]
  PROVE  Core'
  <1>0. /\ ThreadShape /\ RingShape /\ CtxShape /\ RingShape' /\ CtxShape'
        /\ curr \in Nat /\ lsn' \in [Iclogs -> Nat]
    BY DEF Base, Shape, RingShape
  <1>1. /\ RingIn(r.st, lsn', off') /\ IoIn(r.st, lsn')
        /\ \A i \in Iclogs : r.st[i] # "IOERROR"
        /\ \A i \in Iclogs : s[i] = "CALLBACK" => r.st[i] = "CALLBACK"
        /\ \/ r.at = None
           \/ r.at \in Iclogs /\ s[r.at] # "CALLBACK" /\ r.st[r.at] = "CALLBACK" /\ Durable(lsn'[r.at])
    <2> PICK l \in [Iclogs -> Nat] : l = lsn'
      BY <1>0
    <2> PICK o : o = off'
      OBVIOUS
    <2>1. RingIn(s, l, o) /\ IoIn(s, l) /\ Scanned(s, l, r)
      OBVIOUS
    <2>2. /\ RingIn(r.st, l, o) /\ IoIn(r.st, l)
          /\ \A i \in Iclogs : r.st[i] # "IOERROR"
          /\ \A i \in Iclogs : s[i] = "CALLBACK" => r.st[i] = "CALLBACK"
          /\ \/ r.at = None
             \/ r.at \in Iclogs /\ s[r.at] # "CALLBACK" /\ r.st[r.at] = "CALLBACK" /\ Durable(l[r.at])
      BY <1>0, <2>1, ScanRing
    <2> QED BY <2>2
  <1>2. st' = r.st
    BY DEF Resume
  <1>3. \A q \in Procs \ {p} : pc'[q] = pc[q] /\ ctx'[q] = ctx[q] /\ ic'[q] = ic[q]
    BY <1>0 DEF Resume, ThreadShape, CtxShape
  <1>4. \/ r.at = None /\ pc'[p] \in {"idle", "eio", "dead"}
        \/ r.at \in Iclogs /\ pc'[p] = "lastsync" /\ ctx'[p].cur = r.at
    <2>1. CASE r.at = None
      <3>1. pc'[p] = ctx[p].then
        BY <1>0, <2>1 DEF Resume, ThreadShape
      <3>2. ctx[p].then \in {"idle", "eio", "donesync", "dead"}
        BY <1>0 DEF CtxShape, Ctx
      <3>3. ctx[p].then # "donesync"
        BY DEF Base, Threads
      <3> QED BY <2>1, <3>1, <3>2, <3>3
    <2>2. CASE r.at # None
      <3>1. r.at \in Iclogs /\ r.st[r.at] # "IOERROR"
        BY <1>1, <2>2
      <3>2. pc'[p] = "lastsync"
        BY <1>0, <2>2, <3>1 DEF Resume, ThreadShape
      <3>3. ctx' = [ctx EXCEPT ![p].cur = r.at, ![p].left = r.left, ![p].err = err \/ r.st[r.at] = "IOERROR"]
        BY <2>2 DEF Resume
      <3>4. ctx'[p].cur = r.at
        BY <1>0, <3>3 DEF CtxShape, Ctx
      <3> QED BY <3>1, <3>2, <3>4
    <2> QED BY <2>1, <2>2
  <1>5. pc'[p] \notin Roles /\ pc[p] \notin Roles
    BY <1>4 DEF Roles, Held
  <1>6. \A i \in Iclogs : UNCHANGED <<Holders(i), Writers(i), Doners(i)>>
    BY <1>3, <1>5 DEF Roles, Holders, Writers, Doners
  <1>c. \A i \in Iclogs : /\ Cardinality(Holders(i))' = Cardinality(Holders(i))
                          /\ Cardinality(Doners(i))' = Cardinality(Doners(i))
    BY <1>6
  <1>7. RefsOK'
    BY <1>c DEF RefsOK
  <1>8. RingOK'
    BY <1>1, <1>2, <1>6 DEF RingOK, RingIn
  <1>9. IoOK'
    <2>1. \A i \in Iclogs : st'[i] = "SYNCING" => InFlight(i)'
      <3> SUFFICES ASSUME NEW i \in Iclogs, st'[i] = "SYNCING" PROVE InFlight(i)'
        OBVIOUS
      <3>1. InFlight(i) /\ lsn'[i] = lsn[i]
        BY <1>1, <1>2 DEF IoIn
      <3> QED BY <1>6, <1>c, <3>1 DEF InFlight
    <2> QED BY <1>1, <1>2, <1>6, <2>1 DEF IoOK, IoIn, InFlight
  <1>10. LoopOK'
    <2>1. \A l : Durable(l)' <=> Durable(l)
      BY DEF Durable
    <2>2. \A q \in Procs : pc'[q] \in InLoop => st'[ctx'[q].cur] = "CALLBACK"
      <3> SUFFICES ASSUME NEW q \in Procs, pc'[q] \in InLoop PROVE st'[ctx'[q].cur] = "CALLBACK"
        OBVIOUS
      <3>1. CASE q = p
        BY <1>1, <1>2, <1>4, <3>1, IclogAssumption DEF InLoop
      <3>2. CASE q # p
        <4>1. ctx[q].cur \in Iclogs /\ s[ctx[q].cur] = "CALLBACK"
          BY <1>3, <3>2 DEF Base, Threads
        <4> QED BY <1>1, <1>2, <1>3, <3>2, <4>1
      <3> QED BY <3>1, <3>2
    <2>3. \A q \in Procs : pc'[q] = "lastsync" => Durable(lsn'[ctx'[q].cur])
      BY <1>1, <1>3, <1>4, IclogAssumption DEF InLoop
    <2>4. \A q, t \in Procs : pc'[q] \in InLoop /\ pc'[t] \in InLoop /\ ctx'[q].cur = ctx'[t].cur => q = t
      <3>1. \A q \in Procs \ {p} : pc'[q] \in InLoop /\ pc'[p] \in InLoop => ctx'[q].cur # ctx'[p].cur
        BY <1>1, <1>3, <1>4, IclogAssumption DEF InLoop
      <3> QED BY <1>3, <3>1
    <2>5. Durable(lastSync)'
      BY <2>1
    <2>6. \A q \in Procs : pc'[q] = "lastsync" => Durable(lsn[ctx[q].cur])'
      BY <2>3 DEF Durable
    <2> QED BY <2>2, <2>4, <2>5, <2>6 DEF LoopOK
  <1> QED BY <1>7, <1>8, <1>9, <1>10 DEF Core, Alive

\* With all iclogs dead the scan hands out dead ones only.
LEMMA ResumeDead ==
  ASSUME Base, Base', Core, Dead, NEW p \in Procs, pc[p] \in {"cbstart", "cbgrab"},
         NEW s \in [Iclogs -> States], \A i \in Iclogs : s[i] = "IOERROR", NEW l,
         NEW r, Scanned(s, l, r), NEW err \in BOOLEAN, NEW up, Resume(p, r, err, up),
         \A i \in Iclogs : lsn'[i] = lsn[i], UNCHANGED <<ref, bw, head, disk, lastSync>>
  PROVE  Core'
  <1>0. ThreadShape /\ RingShape /\ CtxShape
    BY DEF Base, Shape
  <1>1. PICK S : Marked(s, S) /\ (Stops(S, l, r) \/ (r.at = None /\ r.st = S))
    BY DEF Scanned
  <1>2. /\ \A i \in Iclogs : S[i] = "IOERROR"
        /\ r.st = S
        /\ r.at = None \/ r.at \in Iclogs
    BY <1>1 DEF Marked, Stops
  <1>3. \A q \in Procs \ {p} : pc'[q] = pc[q] /\ ctx'[q] = ctx[q] /\ ic'[q] = ic[q]
    BY <1>0 DEF Resume, ThreadShape, CtxShape
  <1>4. Dead'
    BY <1>0, <1>2 DEF Resume, Dead, RingShape
  <1>5. pc'[p] \in {"cbgrab", "idle", "eio", "donesync", "dead"}
    <2>1. CASE r.at = None
      <3>1. pc'[p] = ctx[p].then
        BY <1>0, <2>1 DEF Resume, ThreadShape
      <3>2. ctx[p].then \in {"idle", "eio", "donesync", "dead"}
        BY <1>0 DEF CtxShape, Ctx
      <3> QED BY <3>1, <3>2
    <2>2. CASE r.at # None
      <3>1. r.st[r.at] = "IOERROR"
        BY <1>2, <2>2
      <3> QED BY <1>0, <2>2, <3>1 DEF Resume, ThreadShape
    <2> QED BY <2>1, <2>2
  <1>6. pc[p] \notin Held /\ pc'[p] \notin Held /\ pc'[p] # "lastsync"
    BY <1>5 DEF Held
  <1> QED BY <1>3, <1>4, <1>6, DyingCore

\* The first scan.
LEMMA CbStartCore ==
  ASSUME Base, Base', Core, NEW p \in Procs, CbStart(p)
  PROVE  Core'
  <1>0. ThreadShape /\ RingShape /\ CtxShape /\ head \in Iclogs
    BY DEF Base, Shape, RingShape
  <1>1. /\ pc[p] = "cbstart"
        /\ UNCHANGED <<lsn, off, ref, bw, head, curr, flying, disk, lastSync>>
    BY DEF CbStart, io
  <1> PICK r : r = Scan(ctx[p].ci, st, lsn, head, N, FALSE, FALSE)
    OBVIOUS
  <1>2. Resume(p, r, FALSE, {})
    BY DEF CbStart
  <1>3. Scanned(st, lsn, r)
    <2>1. ctx[p].ci \in Iclogs \cup {None} /\ N \in Nat
      BY <1>0, IclogAssumption DEF CtxShape, Ctx
    <2> QED BY <1>0, <2>1, ScanEffect DEF RingShape
  <1>s. PICK s \in [Iclogs -> States] : s = st
    BY <1>0 DEF RingShape
  <1>4. CASE Dead
    <2>1. \A i \in Iclogs : s[i] = "IOERROR"
      BY <1>0, <1>4, <1>s DEF Base, AllDead, Dead
    <2>2. PICK l : l = lsn
      OBVIOUS
    <2>3. Scanned(s, l, r)
      BY <1>3, <1>s, <2>2
    <2> QED BY <1>1, <1>2, <1>4, <2>1, <2>3, ResumeDead
  <1>5. CASE ~Dead
    <2>1. \A i \in Iclogs : s[i] # "IOERROR"
      BY <1>0, <1>5, <1>s DEF Base, AllDead, Dead
    <2>2. RingIn(s, lsn', off') /\ IoIn(s, lsn')
      <3>1. RingIn(st, lsn, off) /\ IoIn(st, lsn)
        BY <1>5, AliveIs DEF Core
      <3> QED BY <1>1, <1>s, <3>1
    <2>3. \A q \in Procs \ {p} : pc[q] \in InLoop =>
           /\ s[ctx[q].cur] = "CALLBACK"
           /\ pc[q] = "lastsync" => Durable(lsn'[ctx[q].cur])
           /\ \A t \in Procs \ {p} : pc[t] \in InLoop /\ ctx[t].cur = ctx[q].cur => q = t
      <3>1. \A q \in Procs : pc[q] \in InLoop => ctx[q].cur \in Iclogs
        BY DEF Base, Threads
      <3> QED BY <1>1, <1>5, <1>s, <2>1, <3>1 DEF Core, LoopOK
    <2>4. RefsOK /\ Durable(lastSync) /\ Scanned(s, lsn', r)
      BY <1>1, <1>3, <1>s DEF Core, LoopOK
    <2>5. \A i \in Iclogs : s[i] = "SYNCING" => lsn'[i] = lsn[i]
      BY <1>1
    <2> QED BY <1>1, <1>2, <1>5, <2>1, <2>2, <2>3, <2>4, <2>5, ResumeAlive
  <1> QED BY <1>4, <1>5

\* A finished iclog is DIRTY, is cleaned with the ring, and the scan goes on.
LEMMA CbFinishCore ==
  ASSUME Base, Base', Core, NEW p \in Procs, CbFinish(p)
  PROVE  Core'
  <1>0. ThreadShape /\ RingShape /\ CtxShape /\ head \in Iclogs /\ RingShape' /\ curr \in Nat
    BY DEF Base, Shape, RingShape
  <1> DEFINE i == ctx[p].cur
             s0 == IF st[i] = "IOERROR" THEN st ELSE [st EXCEPT ![i] = "DIRTY"]
             fresh == Cleaned(s0)
             s1 == [j \in Iclogs |-> IF j \in fresh THEN "ACTIVE" ELSE s0[j]]
  <1>1. /\ pc[p] = "cbgrab"
        /\ UNCHANGED <<ref, bw, head, curr, flying, disk, lastSync>>
        /\ off' = [j \in Iclogs |-> IF j \in fresh THEN 0 ELSE off[j]]
        /\ lsn' = [j \in Iclogs |-> IF j \in fresh THEN 0 ELSE lsn[j]]
    BY DEF CbFinish, io
  <1> PICK r : r = Scan(ctx[p].ci, s1, lsn', Succ(i), ctx[p].left, TRUE, ctx[p].err)
    OBVIOUS
  <1> PICK up : up = ForceWaiters(i)
    OBVIOUS
  <1> PICK err \in BOOLEAN : err = ctx[p].err
    BY <1>0 DEF CtxShape, Ctx
  <1>2. Resume(p, r, err, up)
    BY DEF CbFinish, Resume
  <1>i. i \in Iclogs
    BY DEF CbFinish, Base, Threads, InLoop
  <1>s. s1 \in [Iclogs -> States]
    BY <1>0 DEF RingShape, States
  <1>3. Scanned(s1, lsn', r)
    <2>1. ctx[p].ci \in Iclogs \cup {None} /\ ctx[p].left \in Nat /\ Succ(i) \in Iclogs
      BY <1>0, <1>i, SuccIs DEF CtxShape, Ctx
    <2>2. PICK l \in [Iclogs -> Nat] : l = lsn'
      BY <1>0 DEF RingShape
    <2> HIDE DEF s1
    <2>3. Scanned(s1, l, Scan(ctx[p].ci, s1, l, Succ(i), ctx[p].left, TRUE, ctx[p].err))
      BY <1>0, <1>s, <2>1, ScanEffect
    <2> QED BY <2>2, <2>3
  <1>4. \A j \in fresh : j \in Iclogs /\ s0[j] = "DIRTY"
    BY DEF Cleaned
  <1>5. CASE Dead
    <2>1. \A j \in Iclogs : st[j] = "IOERROR"
      BY <1>0, <1>5 DEF Base, AllDead, Dead
    <2>2. s0 = st
      BY <1>i, <2>1
    <2>3. fresh = {}
      BY <1>4, <2>1, <2>2
    <2>4. \A j \in Iclogs : s1[j] = "IOERROR" /\ lsn'[j] = lsn[j]
      BY <1>1, <2>1, <2>2, <2>3
    <2>5. PICK l : l = lsn'
      OBVIOUS
    <2> HIDE DEF s1
    <2>6. Scanned(s1, l, r)
      BY <1>3, <2>5
    <2> QED BY <1>1, <1>2, <1>5, <1>s, <2>4, <2>6, ResumeDead
  <1>6. CASE ~Dead
    <2>1. /\ \A j \in Iclogs : st[j] # "IOERROR"
          /\ st[i] = "CALLBACK"
      BY <1>0, <1>1, <1>6, <1>i DEF Base, AllDead, Dead, Core, LoopOK, InLoop
    <2>2. s0[i] = "DIRTY" /\ \A j \in Iclogs \ {i} : s0[j] = st[j]
      BY <1>0, <1>i, <2>1 DEF RingShape
    <2>3. \A j \in Iclogs :
            \/ s1[j] = st[j] /\ j # i /\ lsn'[j] = lsn[j] /\ off'[j] = off[j]
            \/ s1[j] = "DIRTY" /\ j = i /\ lsn'[j] = lsn[j] /\ off'[j] = off[j]
            \/ s1[j] = "ACTIVE" /\ st[j] \in {"DIRTY", "CALLBACK"} /\ lsn'[j] = 0 /\ off'[j] = 0
               /\ (j = i \/ st[j] = "DIRTY")
      BY <1>1, <1>4, <2>1, <2>2
    <2> PICK s \in [Iclogs -> States] : s = s1
      BY <1>s
    <2> HIDE DEF s1, s0, fresh
    <2>4. \A j \in Iclogs : s[j] # "IOERROR"
      BY <2>1, <2>3
    <2>r. RingIn(st, lsn, off) /\ IoIn(st, lsn)
      BY <1>6, AliveIs DEF Core
    <2>5. RingIn(s, lsn', off')
      <3>1. \A j \in Iclogs : s[j] \notin {"ACTIVE", "WANT_SYNC"} => Holders(j) = {}
        BY <2>1, <2>3, <2>r DEF RingIn
      <3>2. \A j \in Iclogs :
              s[j] = "ACTIVE" /\ (lsn'[j] # 0 \/ off'[j] # 0 \/ Holders(j) # {}) =>
                j = head /\ lsn'[j] = curr /\ off'[j] > 0
        BY <2>1, <2>3, <2>r DEF RingIn
      <3>3. \A j \in Iclogs : s[j] # "ACTIVE" => lsn'[j] \in 1 .. curr - 1
        BY <2>1, <2>3, <2>r DEF RingIn
      <3>4. \A j, k \in Iclogs : lsn'[j] = lsn'[k] /\ lsn'[j] # 0 => j = k
        BY <2>3, <2>r DEF RingIn
      <3> QED BY <3>1, <3>2, <3>3, <3>4 DEF RingIn
    <2>6. IoIn(s, lsn')
      <3>1. \A j \in Iclogs : s[j] # "SYNCING" =>
              Writers(j) = {} /\ Doners(j) = {} /\ flying[j] = 0
        BY <2>1, <2>3, <2>r DEF IoIn
      <3>2. \A j \in Iclogs : s[j] = "SYNCING" => lsn'[j] = lsn[j] /\ InFlight(j)
        BY <2>3, <2>r DEF IoIn
      <3>3. \A j \in Iclogs : s[j] = "WANT_SYNC" => lsn'[j] \notin disk
        BY <2>3, <2>r DEF IoIn
      <3>4. \A j \in Iclogs : s[j] \in {"DONE_SYNC", "DO_CALLBACK", "CALLBACK", "DIRTY"} => lsn'[j] \in disk
        BY <2>1, <2>3, <2>r DEF IoIn
      <3>5. \A n \in 1 .. curr - 1 :
              n \in disk \/ \E j \in Iclogs : lsn'[j] = n /\ s[j] \in {"WANT_SYNC", "SYNCING"}
        <4> SUFFICES ASSUME NEW n \in 1 .. curr - 1, n \notin disk
                     PROVE  \E j \in Iclogs : lsn'[j] = n /\ s[j] \in {"WANT_SYNC", "SYNCING"}
          OBVIOUS
        <4>1. PICK j \in Iclogs : lsn[j] = n /\ st[j] \in {"WANT_SYNC", "SYNCING"}
          BY <2>r DEF IoIn
        <4> QED BY <2>1, <2>3, <4>1
      <3> QED BY <2>r, <3>1, <3>2, <3>3, <3>4, <3>5 DEF IoIn
    <2>7. \A q \in Procs \ {p} : pc[q] \in InLoop =>
           /\ s[ctx[q].cur] = "CALLBACK"
           /\ pc[q] = "lastsync" => Durable(lsn'[ctx[q].cur])
           /\ \A t \in Procs \ {p} : pc[t] \in InLoop /\ ctx[t].cur = ctx[q].cur => q = t
      <3> SUFFICES ASSUME NEW q \in Procs \ {p}, pc[q] \in InLoop
                   PROVE  /\ s[ctx[q].cur] = "CALLBACK"
                          /\ pc[q] = "lastsync" => Durable(lsn'[ctx[q].cur])
                          /\ \A t \in Procs \ {p} : pc[t] \in InLoop /\ ctx[t].cur = ctx[q].cur => q = t
        OBVIOUS
      <3>1. ctx[q].cur \in Iclogs /\ ctx[q].cur # i /\ st[ctx[q].cur] = "CALLBACK"
        BY <1>1, <1>6, <2>1 DEF Base, Threads, Core, LoopOK, InLoop
      <3>2. s[ctx[q].cur] = "CALLBACK" /\ lsn'[ctx[q].cur] = lsn[ctx[q].cur]
        BY <2>3, <3>1
      <3> QED BY <1>6, <3>2 DEF Core, LoopOK
    <2>8. RefsOK /\ Durable(lastSync) /\ Scanned(s, lsn', r)
      BY <1>3 DEF Core, LoopOK
    <2>9. \A j \in Iclogs : s[j] = "SYNCING" => lsn'[j] = lsn[j]
      BY <2>3
    <2>10. pc[p] \in {"cbstart", "cbgrab"} /\ UNCHANGED <<ref, bw, head, curr, flying, disk, lastSync>>
      BY <1>1
    <2> QED BY <1>2, <1>6, <2>4, <2>5, <2>6, <2>7, <2>8, <2>9, <2>10, ResumeAlive
  <1> QED BY <1>5, <1>6

----------------------------------------------------------------------------

\* Every step keeps the invariant.
LEMMA NextCore ==
  ASSUME Base, Base', Core, [Next]_vars
  PROVE  Core'
  <1>1. ASSUME NEW t \in Txs, Start(t) \/ TxStep(t) PROVE Core'
    BY <1>1, QuietSteps, QuietCore, NoRoomCore, GetSpaceCore, FinishCopyCore, WantSyncCore, TxErrorCore
       DEF TxStep
  <1>2. ASSUME NEW p \in Txs \cup Syncers, Release(p) \/ Sync(p) PROVE Core'
    BY <1>2, ReleaseCore, SyncCore
  <1>3. ASSUME NEW p \in Procs, CallbackStep(p) PROVE Core'
    BY <1>3, DoneSyncingCore, CbStartCore, CbLastSyncCore, CbFinishCore, QuietSteps, QuietCore
       DEF CallbackStep
  <1>4. ASSUME NEW c \in Cpus, NEW i \in Iclogs, IodoneOk(c, i) \/ IodoneError(c, i) PROVE Core'
    BY <1>4, IodoneOkCore, IodoneErrorCore
  <1>5. ASSUME NEW f \in Forcers, ForceReturns(f) \/ \E l \in Data, s \in BOOLEAN : LogForce(f, l, s)
        PROVE  Core'
    BY <1>5, QuietSteps, QuietCore
  <1>6. ASSUME NEW f \in Syncers, ForceStep(f) PROVE Core'
    BY <1>6, SyncAllCore, SyncOneCore, QuietSteps, QuietCore DEF ForceStep
  <1>7. ASSUME ForceUmountLogError \/ ForceUmount \/ ForceUmountSeal PROVE Core'
    BY <1>7, UmountCore, QuietSteps, QuietCore
  <1>8. ASSUME UNCHANGED vars PROVE Core'
    BY <1>8, QuietSteps, QuietCore
  <1> QED BY <1>1, <1>2, <1>3, <1>4, <1>5, <1>6, <1>7, <1>8 DEF Next

\* It holds of the log just allocated.
LEMMA InitCore == ASSUME Init PROVE Core
  <1>1. \A i \in Iclogs : Holders(i) = {} /\ Writers(i) = {} /\ Doners(i) = {}
    BY DEF Init, Holders, Writers, Doners, Held
  <1>2. RefsOK
    <2>1. \A i \in Iclogs : Cardinality(Holders(i)) = 0
      BY <1>1, FS_EmptySet
    <2>2. \A i \in Iclogs : ref[i] = 0 /\ bw[i] = 0
      BY DEF Init
    <2> QED BY <2>1, <2>2 DEF RefsOK
  <1>3. LoopOK
    BY DEF Init, LoopOK, Durable, InLoop
  <1>4. RingOK
    BY <1>1 DEF Init, RingOK
  <1>5. IoOK
    BY <1>1 DEF Init, IoOK
  <1> QED BY <1>2, <1>3, <1>4, <1>5 DEF Core, Alive

\* The ring of iclogs is in order in every state of every run: references are counted,
\* a living iclog is written by one thread, marked written only when its record is on
\* disk, and handed to one callback loop.
THEOREM RingCorrect == Spec => []Core
  <1>1. Init => Core
    BY InitCore
  <1>2. Base /\ Base' /\ Core /\ [Next]_vars => Core'
    BY NextCore
  <1> QED BY <1>1, <1>2, BaseHolds, PTL DEF Spec

\* l_last_sync_lsn never names a record that is not on disk with all its predecessors,
\* whatever the interleaving of completions, callback loops, forces and shutdowns.
THEOREM LastSyncDurable == Spec => []LastSyncIsDurable
  <1>1. Core => LastSyncIsDurable
    BY DEF Core, LoopOK, LastSyncIsDurable
  <1> QED BY <1>1, RingCorrect, PTL

\* The variables have the shape of their C declarations; ic_refcnt and ic_bwritecnt
\* never become negative.
THEOREM TypeCorrect == Spec => []TypeOK
  <1>1. Base /\ Core => TypeOK
    <2> SUFFICES ASSUME Base, Core PROVE TypeOK
      OBVIOUS
    <2>1. \A i \in Iclogs : ref[i] \in Nat
      <3> SUFFICES ASSUME NEW i \in Iclogs PROVE ref[i] \in Nat
        OBVIOUS
      <3>1. ref[i] >= Cardinality(Holders(i)) /\ ref[i] \in Int
        BY DEF Core, RefsOK, Base, Shape, RingShape
      <3>2. Cardinality(Holders(i)) \in Nat
        BY Counts, RolesIn
      <3> QED BY <3>1, <3>2
    <2>2. ref \in [Iclogs -> Nat] /\ bw \in [Iclogs -> 0 .. 2]
      BY <2>1 DEF Core, RefsOK, Base, Shape, RingShape
    <2> QED BY <2>2 DEF Base, Shape, RingShape, DiskShape, CallShape, ThreadShape, TxShape, ForceShape, TypeOK
  <1> QED BY <1>1, BaseHolds, RingCorrect, PTL

----------------------------------------------------------------------------
(* Callbacks, their order, and forces *)

Calls == {called[k].tx : k \in DOMAIN called}

\* A callback is in one place at most: on the list of one iclog, on the list one
\* thread has taken, or among those that have been run.
OnePlace ==
  /\ \A i \in Iclogs : IsInjective(cbs[i]) /\ ToSet(cbs[i]) \subseteq Committed
  /\ \A p \in Procs : IsInjective(ctx[p].got) /\ ToSet(ctx[p].got) \subseteq Committed
  /\ CallbackAtMostOnce /\ Calls \subseteq Committed
  /\ \A t : /\ \A i, j \in Iclogs : t \in ToSet(cbs[i]) /\ t \in ToSet(cbs[j]) => i = j
            /\ \A p, q \in Procs : t \in ToSet(ctx[p].got) /\ t \in ToSet(ctx[q].got) => p = q
            /\ \A i \in Iclogs : t \in ToSet(cbs[i]) =>
                 t \notin Calls /\ \A p \in Procs : t \notin ToSet(ctx[p].got)
            /\ \A p \in Procs : t \in ToSet(ctx[p].got) => t \notin Calls

\* A sequence with an element appended to it.
LEMMA Appended ==
  ASSUME NEW T, NEW s \in Seq(T), NEW e \in T
  PROVE  /\ ToSet(Append(s, e)) = ToSet(s) \cup {e}
         /\ IsInjective(s) /\ e \notin ToSet(s) => IsInjective(Append(s, e))
  <1> DEFINE r == Append(s, e)
  <1>1. /\ DOMAIN s = 1 .. Len(s) /\ DOMAIN r = 1 .. Len(s) + 1 /\ Len(s) \in Nat
        /\ r[Len(s) + 1] = e /\ \A k \in DOMAIN s : r[k] = s[k]
    OBVIOUS
  <1> HIDE DEF r
  <1>2. ToSet(r) = ToSet(s) \cup {e}
    <2>1. DOMAIN r = DOMAIN s \cup {Len(s) + 1}
      BY <1>1
    <2> QED BY <1>1 DEF ToSet
  <1>3. IsInjective(s) /\ e \notin ToSet(s) => IsInjective(r)
    BY <1>1 DEF ToSet, IsInjective
  <1> QED BY <1>2, <1>3 DEF r

\* A sequence without its first element.
LEMMA Taken ==
  ASSUME NEW T, NEW s \in Seq(T), s # <<>>, IsInjective(s)
  PROVE  /\ Head(s) \in ToSet(s) /\ Head(s) \notin ToSet(Tail(s))
         /\ ToSet(Tail(s)) \subseteq ToSet(s) /\ IsInjective(Tail(s))
  <1>1. Len(s) \in Nat \ {0} /\ DOMAIN s = 1 .. Len(s) /\ Head(s) = s[1]
    OBVIOUS
  <1>2. DOMAIN Tail(s) = 1 .. Len(s) - 1 /\ \A k \in DOMAIN Tail(s) : Tail(s)[k] = s[k + 1]
    OBVIOUS
  <1>3. Head(s) \in ToSet(s)
    BY DEF ToSet
  <1>4. \A k \in DOMAIN Tail(s) : k + 1 \in DOMAIN s /\ k + 1 # 1 /\ Tail(s)[k] = s[k + 1]
    OBVIOUS
  <1>5. Head(s) \notin ToSet(Tail(s)) /\ ToSet(Tail(s)) \subseteq ToSet(s)
    BY DEF ToSet, IsInjective
  <1>6. IsInjective(Tail(s))
    <2> SUFFICES ASSUME NEW j \in DOMAIN Tail(s), NEW k \in DOMAIN Tail(s), Tail(s)[j] = Tail(s)[k]
                 PROVE  j = k
      BY DEF IsInjective
    <2>1. j + 1 = k + 1
      BY DEF IsInjective
    <2> QED BY <2>1
  <1> QED BY <1>3, <1>5, <1>6

\* Running the callback of a transaction that has none run yet.
LEMMA CalledAppended ==
  ASSUME CallShape, CallbackAtMostOnce, NEW e, called' = Append(called, e), e.tx \notin Calls
  PROVE  Calls' = Calls \cup {e.tx} /\ CallbackAtMostOnce'
  <1>1. called \in Seq([tx : Txs, ab : BOOLEAN])
    BY DEF CallShape
  <1>2. /\ DOMAIN called' = DOMAIN called \cup {Len(called) + 1} /\ called'[Len(called) + 1] = e
        /\ \A k \in DOMAIN called : called'[k] = called[k]
    OBVIOUS
  <1>3. Calls' = Calls \cup {e.tx}
    BY DEF Calls
  <1>4. CallbackAtMostOnce'
    BY DEF Calls, CallbackAtMostOnce
  <1> QED BY <1>3, <1>4

\* The empty sequence holds nothing.
LEMMA EmptyIs == ToSet(<<>>) = {} /\ IsInjective(<<>>)
  BY DEF ToSet, IsInjective

\* A step that runs no callback and only forgets callbacks taken ... leaves them apart.
LEMMA PlaceFrame ==
  ASSUME OnePlace, Kept
  PROVE  OnePlace'
  <1>1. UNCHANGED Calls /\ CallbackAtMostOnce'
    BY DEF Calls, OnePlace, CallbackAtMostOnce, Kept
  <1>2. \A p \in Procs : /\ ToSet(ctx'[p].got) \subseteq ToSet(ctx[p].got)
                         /\ IsInjective(ctx'[p].got)
    BY EmptyIs DEF OnePlace, Kept
  <1> QED BY <1>1, <1>2 DEF OnePlace, Kept

\* xfs_log_notify puts the callback on the iclog, or runs it when the log is dead.
LEMMA NotifyPlace ==
  ASSUME Base, OnePlace, NEW t \in Txs, Notify(t)
  PROVE  OnePlace'
  <1>1. /\ ic[t] \in Iclogs /\ phase[t] = "commit" /\ t \notin Committed
    BY ProcsAre DEF Base, Threads, TxOK, Notify, Held, Committed
  <1>2. Committed' = Committed \cup {t} /\ UNCHANGED ctx
    BY DEF Base, Shape, TxShape, Notify, Committed
  <1>3. CASE st[ic[t]] = "IOERROR"
    <2> DEFINE e == [tx |-> t, ab |-> TRUE]
    <2>1. called' = Append(called, e) /\ UNCHANGED cbs /\ e.tx = t
      BY <1>3 DEF Notify
    <2> HIDE DEF e
    <2>2. Calls' = Calls \cup {t} /\ CallbackAtMostOnce'
      BY <1>1, <2>1, CalledAppended DEF Base, Shape, OnePlace
    <2> QED BY <1>1, <1>2, <2>1, <2>2 DEF OnePlace
  <1>4. CASE st[ic[t]] # "IOERROR"
    <2> DEFINE i == ic[t]
    <2>1. cbs' = [cbs EXCEPT ![i] = Append(cbs[i], t)] /\ UNCHANGED called
      BY <1>4 DEF Notify
    <2> HIDE DEF i
    <2>2. /\ UNCHANGED Calls /\ CallbackAtMostOnce'
      BY <2>1 DEF Calls, OnePlace, CallbackAtMostOnce
    <2>3. i \in Iclogs /\ cbs[i] \in Seq(Txs) /\ IsInjective(cbs[i]) /\ t \notin ToSet(cbs[i])
      BY <1>1 DEF Base, Shape, CallShape, OnePlace, i
    <2>4. cbs'[i] = Append(cbs[i], t) /\ \A j \in Iclogs \ {i} : cbs'[j] = cbs[j]
      BY <2>1, <2>3 DEF Base, Shape, CallShape
    <2>5. ToSet(cbs'[i]) = ToSet(cbs[i]) \cup {t} /\ IsInjective(cbs'[i])
      BY <2>3, <2>4, Appended
    <2>6. \A j \in Iclogs : ToSet(cbs'[j]) = IF j = i THEN ToSet(cbs[j]) \cup {t} ELSE ToSet(cbs[j])
      BY <2>4, <2>5
    <2>7. /\ t \notin Calls /\ \A j \in Iclogs : t \notin ToSet(cbs[j])
          /\ \A p \in Procs : t \notin ToSet(ctx[p].got)
      BY <1>1 DEF OnePlace
    <2>8. \A j \in Iclogs : IsInjective(cbs'[j]) /\ ToSet(cbs'[j]) \subseteq Committed'
      BY <1>2, <2>4, <2>5, <2>6 DEF OnePlace
    <2>9. \A p \in Procs : IsInjective(ctx'[p].got) /\ ToSet(ctx'[p].got) \subseteq Committed'
      BY <1>2 DEF OnePlace
    <2>10. ASSUME NEW u, NEW j \in Iclogs, u \in ToSet(cbs'[j])
           PROVE  /\ \A k \in Iclogs : u \in ToSet(cbs'[k]) => j = k
                  /\ u \notin Calls /\ \A p \in Procs : u \notin ToSet(ctx[p].got)
      <3>1. CASE u = t
        BY <2>6, <2>7, <2>10, <3>1
      <3>2. CASE u # t
        <4>1. \A k \in Iclogs : u \in ToSet(cbs'[k]) => u \in ToSet(cbs[k])
          BY <2>6, <3>2
        <4> QED BY <2>10, <4>1 DEF OnePlace
      <3> QED BY <3>1, <3>2
    <2>11. \A u : /\ \A p, q \in Procs : u \in ToSet(ctx[p].got) /\ u \in ToSet(ctx[q].got) => p = q
                  /\ \A p \in Procs : u \in ToSet(ctx[p].got) => u \notin Calls
      BY DEF OnePlace
    <2>12. Calls \subseteq Committed'
      BY <1>2 DEF OnePlace
    <2> QED BY <1>2, <2>2, <2>8, <2>9, <2>10, <2>11, <2>12 DEF OnePlace
  <1> QED BY <1>3, <1>4

\* xlog_state_do_callback takes the callbacks off the iclog.
LEMMA CbGrabPlace ==
  ASSUME Base, OnePlace, NEW p \in Procs, CbGrab(p)
  PROVE  OnePlace'
  <1> DEFINE i == ctx[p].cur
  <1>1. i \in Iclogs /\ cbs[i] \in Seq(Txs)
    BY DEF Base, Shape, CallShape, Threads, InLoop, CbGrab
  <1>2. /\ ctx' = [ctx EXCEPT ![p].got = cbs[i]] /\ cbs' = [cbs EXCEPT ![i] = <<>>]
        /\ UNCHANGED <<called, phase>>
    BY DEF CbGrab, txv
  <1> HIDE DEF i
  <1>3. ctx'[p].got = cbs[i] /\ \A q \in Procs \ {p} : ctx'[q] = ctx[q]
    BY <1>1, <1>2, CtxGot DEF Base, Shape
  <1>4. cbs'[i] = <<>> /\ \A j \in Iclogs \ {i} : cbs'[j] = cbs[j]
    BY <1>1, <1>2 DEF Base, Shape, CallShape
  <1>5. UNCHANGED <<Calls, Committed>> /\ CallbackAtMostOnce'
    BY <1>2 DEF Calls, Committed, OnePlace, CallbackAtMostOnce
  <1>6. ToSet(cbs'[i]) = {} /\ IsInjective(cbs'[i])
    BY <1>4, EmptyIs
  <1>7. \A j \in Iclogs : IsInjective(cbs'[j]) /\ ToSet(cbs'[j]) \subseteq Committed'
    BY <1>4, <1>5, <1>6 DEF OnePlace
  <1>8. \A q \in Procs : IsInjective(ctx'[q].got) /\ ToSet(ctx'[q].got) \subseteq Committed'
    BY <1>1, <1>3, <1>5 DEF OnePlace
  <1>9. \A j \in Iclogs : \A u \in ToSet(cbs'[j]) : j # i /\ u \in ToSet(cbs[j])
    BY <1>4, <1>6
  <1>10. ASSUME NEW q \in Procs, NEW u \in ToSet(ctx'[q].got)
         PROVE  \/ q = p /\ u \in ToSet(cbs[i])
                \/ q # p /\ u \in ToSet(ctx[q].got)
    <2>1. CASE q = p
      BY <1>3, <1>10, <2>1
    <2>2. CASE q # p
      BY <1>3, <1>10, <2>2
    <2> QED BY <2>1, <2>2
  <1>11. ASSUME NEW u, NEW j \in Iclogs, u \in ToSet(cbs'[j])
         PROVE  /\ \A k \in Iclogs : u \in ToSet(cbs'[k]) => j = k
                /\ u \notin Calls' /\ \A q \in Procs : u \notin ToSet(ctx'[q].got)
    <2>1. u \in ToSet(cbs[j]) /\ j # i
      BY <1>9, <1>11
    <2>2. \A k \in Iclogs : u \in ToSet(cbs'[k]) => j = k
      BY <1>9, <2>1 DEF OnePlace
    <2>3. u \notin Calls' /\ u \notin ToSet(cbs[i]) /\ \A q \in Procs : u \notin ToSet(ctx[q].got)
      BY <1>1, <1>5, <2>1 DEF OnePlace
    <2> QED BY <1>10, <2>2, <2>3
  <1>12. ASSUME NEW u, NEW q \in Procs, u \in ToSet(ctx'[q].got)
         PROVE  u \notin Calls' /\ \A r \in Procs : u \in ToSet(ctx'[r].got) => q = r
    <2>1. CASE u \in ToSet(cbs[i])
      BY <1>1, <1>5, <1>10, <1>12, <2>1 DEF OnePlace
    <2>2. CASE u \notin ToSet(cbs[i])
      BY <1>5, <1>10, <1>12, <2>2 DEF OnePlace
    <2> QED BY <2>1, <2>2
  <1>13. Calls' \subseteq Committed' /\ CallbackAtMostOnce'
    BY <1>5 DEF OnePlace
  <1> QED BY <1>7, <1>8, <1>11, <1>12, <1>13 DEF OnePlace

\* xlog_state_do_callback runs the first of the callbacks it took.
LEMMA CbRunPlace ==
  ASSUME Base, OnePlace, NEW p \in Procs, CbRun(p)
  PROVE  OnePlace'
  <1> DEFINE g == ctx[p].got
             e == [tx |-> Head(g), ab |-> ctx[p].ab]
  <1>1. g \in Seq(Txs) /\ g # <<>> /\ Tail(g) \in Seq(Txs)
    <2>1. ctx[p] \in Ctx /\ g # <<>>
      BY DEF Base, Shape, CtxShape, Threads, CbRun
    <2> QED BY <2>1 DEF Ctx
  <1>2. /\ ctx' = [ctx EXCEPT ![p].got = Tail(g)] /\ UNCHANGED <<cbs, phase>>
        /\ called' = Append(called, e) /\ e.tx = Head(g)
    BY DEF CbRun, txv
  <1> HIDE DEF g, e
  <1>3. ctx'[p].got = Tail(g) /\ \A q \in Procs \ {p} : ctx'[q] = ctx[q]
    BY <1>1, <1>2, CtxGot DEF Base, Shape
  <1>4. /\ Head(g) \in ToSet(g) /\ Head(g) \notin ToSet(Tail(g))
        /\ ToSet(Tail(g)) \subseteq ToSet(g) /\ IsInjective(Tail(g)) /\ g = ctx[p].got
    BY <1>1, Taken DEF OnePlace, g
  <1>5. Calls' = Calls \cup {Head(g)} /\ CallbackAtMostOnce'
    BY <1>2, <1>4, CalledAppended DEF Base, Shape, OnePlace
  <1>6. UNCHANGED Committed
    BY <1>2 DEF Committed
  <1> QED BY <1>2, <1>3, <1>4, <1>5, <1>6 DEF OnePlace

\* No callback is anywhere at mount.
LEMMA InitPlace == ASSUME Init PROVE OnePlace
  <1>1. /\ cbs = [i \in Iclogs |-> <<>>] /\ called = <<>> /\ \A p \in Procs : ctx[p].got = <<>>
    BY DEF Init, NoCtx
  <1>2. Calls = {}
    BY <1>1 DEF Calls
  <1> QED BY <1>1, <1>2, EmptyIs DEF OnePlace, CallbackAtMostOnce

\* A committed transaction's callback is always in exactly one place: on one iclog,
\* in the hands of one thread in xlog_state_do_callback, or run.
THEOREM PlacesHold == Spec => []OnePlace
  <1>1. Init => OnePlace
    BY InitPlace
  <1>2. Base /\ OnePlace /\ [Next]_vars => OnePlace'
    <2> SUFFICES ASSUME Base, OnePlace, [Next]_vars PROVE OnePlace'
      OBVIOUS
    <2>1. Kept \/ (\E t \in Txs : Notify(t)) \/ (\E p \in Procs : CbGrab(p) \/ CbRun(p))
      BY NextBase, StutterBase
    <2> QED BY <2>1, PlaceFrame, NotifyPlace, CbGrabPlace, CbRunPlace
  <1> QED BY <1>1, <1>2, BaseHolds, PTL DEF Spec

\* No commit callback is run twice, whichever threads pass through
\* xlog_state_do_callback and whether or not the log is shut down meanwhile.
THEOREM CallbacksRunOnce == Spec => []CallbackAtMostOnce
  <1>1. OnePlace => CallbackAtMostOnce
    BY DEF OnePlace
  <1> QED BY <1>1, PlacesHold, PTL

\* The ring is still dead after a step: no iclog comes back.
LEMMA DeadStays ==
  ASSUME Base, Base', Dead, [Next]_vars
  PROVE  Dead'
  <1>0. /\ \A i \in Iclogs : st[i] = "IOERROR"
        /\ head \in Iclogs /\ RingShape /\ CtxShape /\ RingShape'
    BY DEF Base, Shape, RingShape, AllDead, Dead
  <1>i. \A p \in Procs : pc[p] \in Held \cup {"donesync"} => ic[p] \in Iclogs
    BY DEF Base, Threads
  <1>1. (\E i \in Iclogs : st'[i] = "IOERROR") => Dead'
    BY DEF Base, AllDead, Dead, Shape, RingShape
  <1>2. SUFFICES st' = st \/ \E i \in Iclogs : st'[i] = "IOERROR"
    BY <1>0, <1>1
  <1>3. ASSUME NEW t \in Txs, Start(t) \/ TxStep(t) PROVE st' = st
    <2>1. t \in Procs
      BY ProcsAre
    <2>2. ~GetSpaceNoRoom(t) /\ ~GetSpace(t)
      BY <1>0 DEF GetSpaceNoRoom, GetSpace
    <2>3. CASE WantSync(t)
      BY <1>0, <1>i, <2>1, <2>3 DEF WantSync, Held
    <2>4. CASE TxError(t)
      BY <1>0, <2>4 DEF TxError
    <2> QED BY <1>3, <2>2, <2>3, <2>4
            DEF TxStep, Start, GetSpaceFails, GetSpaceWaits, FinishCopy, Notify, TxReleased, FlushWake, ring
  <1>4. ASSUME NEW p \in Txs \cup Syncers, Release(p) \/ Sync(p) PROVE st' = st
    <2>1. p \in Procs
      BY ProcsAre
    <2> QED BY <1>0, <1>i, <1>4, <2>1 DEF Release, Sync, Held
  <1>5. ASSUME NEW p \in Procs, CbStart(p) PROVE \E i \in Iclogs : st'[i] = "IOERROR"
    <2> PICK r : r = Scan(ctx[p].ci, st, lsn, head, N, FALSE, FALSE)
      OBVIOUS
    <2>1. st' = r.st
      BY <1>5 DEF CbStart, Resume
    <2>2. Scanned(st, lsn, r)
      <3>1. ctx[p].ci \in Iclogs \cup {None} /\ N \in Nat
        BY <1>0, IclogAssumption DEF CtxShape, Ctx
      <3> QED BY <1>0, <3>1, ScanEffect DEF RingShape
    <2>3. PICK S : Marked(st, S) /\ (Stops(S, lsn, r) \/ (r.at = None /\ r.st = S))
      BY <2>2 DEF Scanned
    <2> QED BY <1>0, <2>1, <2>3 DEF Marked, Stops
  <1>6. ASSUME NEW p \in Procs, CbFinish(p) PROVE \E i \in Iclogs : st'[i] = "IOERROR"
    <2> DEFINE i == ctx[p].cur
               s0 == IF st[i] = "IOERROR" THEN st ELSE [st EXCEPT ![i] = "DIRTY"]
               s1 == [j \in Iclogs |-> IF j \in Cleaned(s0) THEN "ACTIVE" ELSE s0[j]]
    <2> PICK r : r = Scan(ctx[p].ci, s1, lsn', Succ(i), ctx[p].left, TRUE, ctx[p].err)
      OBVIOUS
    <2>1. st' = r.st
      BY <1>6 DEF CbFinish, Resume
    <2>i. i \in Iclogs
      BY <1>6 DEF CbFinish, Base, Threads, InLoop
    <2>2. s1 \in [Iclogs -> States] /\ \A j \in Iclogs : s1[j] = "IOERROR"
      BY <1>0, <2>i DEF RingShape, States, Cleaned
    <2> HIDE DEF s1
    <2>3. PICK l \in [Iclogs -> Nat] : l = lsn'
      BY <1>0 DEF RingShape
    <2>4. Scanned(s1, l, r)
      <3>1. ctx[p].ci \in Iclogs \cup {None} /\ ctx[p].left \in Nat /\ Succ(i) \in Iclogs
        BY <1>0, <2>i, SuccIs DEF CtxShape, Ctx
      <3>2. Scanned(s1, l, Scan(ctx[p].ci, s1, l, Succ(i), ctx[p].left, TRUE, ctx[p].err))
        BY <1>0, <2>2, <3>1, ScanEffect
      <3> QED BY <2>3, <3>2
    <2>5. PICK S : Marked(s1, S) /\ (Stops(S, l, r) \/ (r.at = None /\ r.st = S))
      BY <2>4 DEF Scanned
    <2> QED BY <1>0, <2>1, <2>2, <2>5 DEF Marked, Stops
  <1>7. ASSUME NEW p \in Procs, DoneSyncing(p) \/ CbLastSync(p) \/ CbGrab(p) \/ CbRun(p) PROVE st' = st
    BY <1>0, <1>i, <1>7 DEF DoneSyncing, CbLastSync, CbGrab, CbRun, ring
  <1>8. ASSUME NEW c \in Cpus, NEW i \in Iclogs, IodoneOk(c, i) \/ IodoneError(c, i) PROVE st' = st
    BY <1>0, <1>8 DEF IodoneOk, IodoneError, AllIoerror, ring
  <1>9. ASSUME NEW f \in Syncers, ForceStep(f) PROVE st' = st
    <2>1. CASE SyncAll(f)
      BY <1>0, <2>1 DEF SyncAll
    <2>2. CASE SyncOne(f)
      BY <1>0, <2>2 DEF SyncOne
    <2> QED BY <1>9, <2>1, <2>2 DEF ForceStep, ForceReleased, WriteWake, ForceWake, ring
  <1>10. ASSUME NEW f \in Forcers, ForceReturns(f) \/ \E l \in Data, s \in BOOLEAN : LogForce(f, l, s)
         PROVE  st' = st
    BY <1>10 DEF ForceReturns, LogForce, ring
  <1>11. ASSUME ForceUmountLogError \/ ForceUmount \/ ForceUmountSeal PROVE st' = st
    BY <1>0, <1>11 DEF ForceUmountLogError, ForceUmount, ForceUmountSeal, AllIoerror, ring
  <1>12. ASSUME UNCHANGED vars PROVE st' = st
    BY <1>12 DEF vars, ring
  <1> QED BY <1>3, <1>4, <1>5, <1>6, <1>7, <1>8, <1>9, <1>10, <1>11, <1>12 DEF Next, CallbackStep

\* What all steps of a thread p on a live ring have in common, but for those
\* that attach, take, run or finish callbacks: no callback moves, no iclog
\* becomes DIRTY, and the current one is the only one to be filled or closed.
Plain(p) ==
  /\ \A q \in Procs \ {p} : pc'[q] = pc[q] /\ ctx'[q] = ctx[q] /\ ic'[q] = ic[q]
  /\ pc[p] \notin {"cbgrab", "cbrun"}
  /\ pc'[p] \in InLoop => pc[p] = "lastsync" /\ ctx'[p] = ctx[p]
  /\ ctx'[p].got = ctx[p].got \/ ctx'[p].got = <<>>
  /\ UNCHANGED <<cbs, called, Committed>>
  /\ \A t \in Txs : \/ UNCHANGED <<clsn[t], phase[t]>>
                    \/ t = p /\ t \notin Committed /\ clsn'[t] = clsn[t]
                    \/ /\ t = p /\ t \notin Committed /\ clsn'[t] = curr
                       /\ st[head] = "ACTIVE" /\ lsn'[head] = curr
  /\ p \in Txs /\ (pc'[p] = "notify" \/ (pc'[p] = "wantsync" /\ phase'[p] = "commit")) =>
       clsn'[p] = lsn'[ic'[p]]
  /\ \A i \in Iclogs : \/ st'[i] = st[i]
                       \/ st[i] \notin Loose /\ st'[i] \notin Loose
                       \/ i = head /\ curr' = curr + 1
  /\ \A i \in Iclogs : \/ lsn'[i] = lsn[i]
                       \/ i = head /\ st[i] = "ACTIVE" /\ lsn[i] = 0 /\ lsn'[i] = curr
  /\ \/ UNCHANGED <<head, curr>>
     \/ /\ head' = Succ(head) /\ curr' = curr + 1
        /\ st[head] \in Loose /\ st'[head] \notin Loose /\ lsn'[head] = curr
  /\ disk \subseteq disk'

\* the steps that deal with callbacks
Callbacks ==
  \/ \E t \in Txs : Notify(t)
  \/ \E p \in Procs : CbStart(p) \/ CbGrab(p) \/ CbRun(p) \/ CbFinish(p)

\* a transaction that is about to attach its callback knows its record
Noted ==
  \A t \in Txs : pc[t] = "notify" \/ (pc[t] = "wantsync" /\ phase[t] = "commit") =>
                clsn[t] = lsn[ic[t]]

\* An iclog has room for more than one write.
LEMMA AlwaysCap == Cap \in Nat /\ Cap > 1
  BY IclogAssumption

\* A transaction's step on a live ring is plain, but for xfs_log_notify.
LEMMA PlainTx ==
  ASSUME Base, Base', Core, Noted, ~Dead, ~Dead', NEW t \in Txs, Start(t) \/ TxStep(t), ~Notify(t)
  PROVE  Plain(t)
  <1>0. ThreadShape /\ RingShape /\ TxShape /\ TxOK /\ t \in Procs /\ head \in Iclogs /\ curr \in Nat
    BY ProcsAre DEF Base, Shape, RingShape
  <1>a. RingOK
    BY DEF Core, Alive
  <1> USE DEF Goto, InLoop, Loose, ring, io, txv
  <1>1. ASSUME UNCHANGED <<st, lsn, head, curr, cbs, called, disk, ctx, clsn>>,
               \A q \in Procs \ {t} : pc'[q] = pc[q] /\ ic'[q] = ic[q],
               \A u \in Txs \ {t} : phase'[u] = phase[u],
               phase'[t] = phase[t] \/ (phase[t] # "notified" /\ phase'[t] # "notified"),
               pc[t] \notin {"cbgrab", "cbrun"}, pc'[t] \notin InLoop \cup {"notify", "wantsync"}
        PROVE  Plain(t)
    <2>1. UNCHANGED Committed /\ (phase'[t] # phase[t] => t \notin Committed)
      BY <1>1 DEF Committed
    <2> QED BY <1>1, <2>1 DEF Plain
  <1>2. CASE \/ Start(t) \/ GetSpaceFails(t) \/ GetSpaceWaits(t) \/ FinishCopy(t)
             \/ TxReleased(t) \/ FlushWake(t)
    <2>1. UNCHANGED <<st, lsn, head, curr, cbs, called, disk, ctx, clsn>>
      BY <1>2 DEF Start, GetSpaceFails, GetSpaceWaits, FinishCopy, TxReleased, FlushWake
    <2>2. \A q \in Procs \ {t} : pc'[q] = pc[q] /\ ic'[q] = ic[q]
      BY <1>0, <1>2 DEF ThreadShape, Start, GetSpaceFails, GetSpaceWaits, FinishCopy, TxReleased, FlushWake
    <2>3. /\ \A u \in Txs \ {t} : phase'[u] = phase[u]
          /\ phase'[t] = phase[t] \/ (phase[t] # "notified" /\ phase'[t] # "notified")
      BY <1>0, <1>2 DEF TxShape, Start, GetSpaceFails, GetSpaceWaits, FinishCopy, TxReleased, FlushWake
    <2>4. pc[t] \notin {"cbgrab", "cbrun"} /\ pc'[t] \notin InLoop \cup {"notify", "wantsync"}
      BY <1>0, <1>2 DEF ThreadShape, Start, GetSpaceFails, GetSpaceWaits, FinishCopy, TxReleased, FlushWake
    <2> QED BY <1>1, <2>1, <2>2, <2>3, <2>4
  <1>3. CASE GetSpaceNoRoom(t)
    <2>1. /\ UNCHANGED <<lsn, cbs, called, disk, ctx, clsn, phase>>
          /\ pc[t] = "space" /\ pc'[t] \in {"space", "release"}
          /\ \A q \in Procs \ {t} : pc'[q] = pc[q] /\ ic'[q] = ic[q]
          /\ st[head] = "ACTIVE" /\ off[head] > 0 /\ SwitchIclogs
      BY <1>0, <1>3, AlwaysCap DEF ThreadShape, GetSpaceNoRoom
    <2>2. lsn'[head] = curr
      BY <1>0, <1>a, <2>1 DEF RingOK
    <2>3. /\ st'[head] = "WANT_SYNC" /\ \A i \in Iclogs \ {head} : st'[i] = st[i]
          /\ head' = Succ(head) /\ curr' = curr + 1
      BY <1>0, <2>1 DEF RingShape, SwitchIclogs
    <2>4. UNCHANGED Committed
      BY <2>1 DEF Committed
    <2> QED BY <2>1, <2>2, <2>3, <2>4 DEF Plain
  <1>4. CASE GetSpace(t)
    <2>1. /\ UNCHANGED <<cbs, called, disk, ctx, phase>>
          /\ pc[t] = "space" /\ pc'[t] \in {"wantsync", "notify", "release", "finish"}
          /\ \A q \in Procs \ {t} : pc'[q] = pc[q] /\ ic'[q] = ic[q]
          /\ ic'[t] = head /\ st[head] = "ACTIVE"
      BY <1>0, <1>4 DEF ThreadShape, GetSpace
    <2>2. /\ \A i \in Iclogs \ {head} : lsn'[i] = lsn[i]
          /\ lsn'[head] = IF off[head] = 0 THEN curr ELSE lsn[head]
      BY <1>0, <1>4 DEF RingShape, GetSpace
    <2>3. lsn'[head] = curr /\ (lsn[head] = curr \/ lsn[head] = 0)
      BY <1>0, <1>a, <2>1, <2>2 DEF RingOK
    <2>4. /\ \A u \in Txs \ {t} : clsn'[u] = clsn[u]
          /\ clsn'[t] = IF phase[t] = "commit" THEN lsn'[head] ELSE clsn[t]
      BY <1>0, <1>4 DEF TxShape, GetSpace
    <2>5. phase[t] \in {"data", "commit"}
      BY <1>0, <2>1 DEF TxOK
    <2>6. UNCHANGED Committed /\ t \notin Committed
      BY <2>1, <2>5 DEF Committed
    <2>7. pc'[t] = "notify" => phase[t] = "commit"
      BY <1>0, <1>4 DEF ThreadShape, GetSpace
    <2>8. \/ UNCHANGED <<st, head, curr>>
          \/ /\ st'[head] = "WANT_SYNC" /\ \A i \in Iclogs \ {head} : st'[i] = st[i]
             /\ head' = Succ(head) /\ curr' = curr + 1
      BY <1>0, <1>4 DEF RingShape, GetSpace, SwitchIclogs
    <2> QED BY <2>1, <2>2, <2>3, <2>4, <2>6, <2>7, <2>8 DEF Plain
  <1>5. CASE WantSync(t)
    <2>1. /\ UNCHANGED <<lsn, cbs, called, disk, ctx, clsn, phase, ic>>
          /\ pc[t] = "wantsync" /\ pc'[t] \in {"notify", "release"}
          /\ \A q \in Procs \ {t} : pc'[q] = pc[q]
          /\ pc'[t] = "notify" => phase[t] = "commit"
      BY <1>0, <1>5 DEF ThreadShape, WantSync
    <2>2. clsn[t] = lsn[ic[t]] \/ phase[t] # "commit"
      BY <2>1 DEF Noted
    <2>3. \/ UNCHANGED <<st, head, curr>>
          \/ st[ic[t]] = "ACTIVE" /\ SwitchIclogs
      BY <1>5 DEF WantSync
    <2>4. CASE UNCHANGED <<st, head, curr>>
      BY <2>1, <2>2, <2>4 DEF Plain, Committed
    <2>5. CASE st[ic[t]] = "ACTIVE" /\ SwitchIclogs
      <3>1. ic[t] \in Iclogs /\ t \in Holders(ic[t])
        BY <1>0, <2>1 DEF Base, Threads, Held, Holders
      <3>2. ic[t] = head /\ lsn[head] = curr
        BY <1>a, <2>5, <3>1 DEF RingOK
      <3>3. /\ st'[head] = "WANT_SYNC" /\ \A i \in Iclogs \ {head} : st'[i] = st[i]
            /\ head' = Succ(head) /\ curr' = curr + 1
        BY <1>0, <2>5 DEF RingShape, SwitchIclogs
      <3> QED BY <1>0, <2>1, <2>2, <2>5, <3>2, <3>3 DEF Plain, Committed
    <2> QED BY <2>3, <2>4, <2>5
  <1>6. ASSUME TxError(t) PROVE FALSE
    <2>1. AllIoerror /\ UNCHANGED head
      BY <1>6 DEF TxError, Dead
    <2> QED BY <1>0, <2>1, AllIoerrorIs DEF Base, Dead
  <1> QED BY <1>2, <1>3, <1>4, <1>5, <1>6 DEF TxStep

\* A step that leaves the transactions' records and the callbacks alone is plain.
LEMMA PlainMove ==
  ASSUME NEW p \in Procs, \A q \in Procs \ {p} : pc'[q] = pc[q] /\ ctx'[q] = ctx[q] /\ ic'[q] = ic[q],
         UNCHANGED <<cbs, called, clsn, phase>>,
         pc[p] \notin {"cbgrab", "cbrun"}, pc'[p] \notin {"notify", "wantsync"},
         pc'[p] \in InLoop => pc[p] = "lastsync" /\ ctx'[p] = ctx[p],
         ctx'[p].got = ctx[p].got \/ ctx'[p].got = <<>>,
         \A i \in Iclogs : \/ st'[i] = st[i]
                           \/ st[i] \notin Loose /\ st'[i] \notin Loose
                           \/ i = head /\ curr' = curr + 1,
         UNCHANGED lsn,
         \/ UNCHANGED <<head, curr>>
         \/ /\ head' = Succ(head) /\ curr' = curr + 1
            /\ st[head] \in Loose /\ st'[head] \notin Loose /\ lsn'[head] = curr,
         disk \subseteq disk'
  PROVE  Plain(p)
  BY DEF Plain, Committed

\* xlog_state_release_iclog and xlog_sync are plain on a live ring.
LEMMA PlainRelease ==
  ASSUME Base, ~Dead, NEW p \in Procs, Release(p) \/ Sync(p)
  PROVE  Plain(p)
  <1>0. ThreadShape /\ RingShape /\ \A i \in Iclogs : st[i] # "IOERROR"
    BY DEF Base, Shape, AllDead, Dead, RingShape
  <1>i. ic[p] \in Iclogs
    BY DEF Base, Threads, Held, Release, Sync
  <1>1. /\ UNCHANGED <<cbs, called, clsn, phase, lsn, head, curr, disk, ctx, ic>>
        /\ \A q \in Procs \ {p} : pc'[q] = pc[q]
        /\ pc[p] \in {"release", "sync"} /\ pc'[p] \in {"released", "sync", "eio"}
    BY <1>0, <1>i DEF ThreadShape, Release, Sync, Goto, io, txv
  <1>2. \A i \in Iclogs : st'[i] = st[i] \/ (st[i] = "WANT_SYNC" /\ st'[i] = "SYNCING")
    BY <1>0, <1>i DEF RingShape, Release, Sync
  <1>3. pc'[p] \notin InLoop
    BY <1>1 DEF InLoop
  <1> QED BY <1>1, <1>2, <1>3, PlainMove DEF Loose

\* xlog_state_done_syncing is plain on a live ring, and so is the move of
\* l_last_sync_lsn.
LEMMA PlainDone ==
  ASSUME Base, Core, ~Dead, NEW p \in Procs, DoneSyncing(p) \/ CbLastSync(p)
  PROVE  Plain(p)
  <1>0. ThreadShape /\ RingShape /\ CtxShape /\ \A i \in Iclogs : st[i] # "IOERROR"
    BY DEF Base, Shape, AllDead, Dead, RingShape
  <1>1. CASE CbLastSync(p)
    <2>1. /\ UNCHANGED <<cbs, called, clsn, phase, st, lsn, head, curr, disk, ctx, ic>>
          /\ \A q \in Procs \ {p} : pc'[q] = pc[q]
          /\ pc[p] = "lastsync" /\ pc'[p] = "cbgrab"
      BY <1>0, <1>1 DEF ThreadShape, CbLastSync, Goto, ring, io, txv
    <2> QED BY <2>1, PlainMove
  <1>2. CASE DoneSyncing(p)
    <2>1. ic[p] \in Iclogs /\ pc[p] = "donesync"
      BY <1>2 DEF Base, Threads, DoneSyncing
    <2>2. st[ic[p]] = "SYNCING"
      BY <2>1 DEF Core, Alive, IoOK, Doners
    <2>3. /\ UNCHANGED <<cbs, called, clsn, phase, lsn, head, curr, disk>>
          /\ \A q \in Procs \ {p} : pc'[q] = pc[q] /\ ic'[q] = ic[q]
          /\ pc'[p] \in {"idle", "cbstart"}
      BY <1>0, <1>2 DEF ThreadShape, DoneSyncing, Goto, io, txv
    <2>4. \A i \in Iclogs : st'[i] = st[i] \/ (st[i] = "SYNCING" /\ st'[i] = "DONE_SYNC")
      BY <1>0, <1>2, <2>1, <2>2 DEF RingShape, DoneSyncing
    <2>5. /\ \A q \in Procs \ {p} : ctx'[q] = ctx[q]
          /\ ctx'[p].got = ctx[p].got \/ ctx'[p].got = <<>>
      <3>1. CASE ctx' = [ctx EXCEPT ![p] = NoCtx]
        BY <1>0, <3>1, CtxIdle
      <3>2. CASE ctx' = [ctx EXCEPT ![p].ci = ic[p], ![p].then = After(p)]
        <4>1. After(p) \in {"idle", "eio", "donesync", "dead"}
          BY DEF After
        <4> QED BY <1>0, <2>1, <3>2, <4>1, CtxThen
      <3> QED BY <1>2, <3>1, <3>2 DEF DoneSyncing
    <2>6. pc'[p] \notin InLoop
      BY <2>3 DEF InLoop
    <2> QED BY <2>1, <2>3, <2>4, <2>5, <2>6, PlainMove DEF Loose
  <1> QED BY <1>1, <1>2

\* A record that reaches the disk is a plain step of the CPU.
LEMMA PlainIodone ==
  ASSUME Base, Base', ~Dead, ~Dead', NEW c \in Cpus, NEW i \in Iclogs, IodoneOk(c, i) \/ IodoneError(c, i)
  PROVE  Plain(c)
  <1>0. ThreadShape /\ RingShape /\ CtxShape /\ c \in Procs
    BY ProcsAre DEF Base, Shape
  <1>1. IodoneOk(c, i)
    <2> SUFFICES ASSUME IodoneError(c, i) PROVE FALSE
      OBVIOUS
    <2>1. AllIoerror /\ UNCHANGED head
      BY DEF IodoneError
    <2> QED BY <1>0, <2>1, AllIoerrorIs DEF Base, Dead, RingShape
  <1>2. /\ UNCHANGED <<cbs, called, clsn, phase, st, lsn, head, curr>>
        /\ \A q \in Procs \ {c} : pc'[q] = pc[q] /\ ic'[q] = ic[q]
        /\ pc[c] = "idle" /\ pc'[c] = "donesync" /\ disk \subseteq disk'
    BY <1>0, <1>1 DEF ThreadShape, IodoneOk, Goto, ring, txv
  <1>3. ctx' = [ctx EXCEPT ![c].ab = st[i] = "IOERROR"]
    BY <1>1 DEF IodoneOk
  <1>4. /\ \A q \in Procs \ {c} : ctx'[q] = ctx[q]
        /\ ctx'[c].got = ctx[c].got
    <2>1. (st[i] = "IOERROR") \in BOOLEAN
      OBVIOUS
    <2> QED BY <1>0, <1>3, <2>1, CtxAb
  <1> QED BY <1>0, <1>2, <1>4, PlainMove DEF InLoop

\* The steps of a log force are plain on a live ring.
LEMMA PlainForce ==
  ASSUME Base, Core, ~Dead, NEW f \in Syncers,
         \/ ForceStep(f) \/ ForceReturns(f) \/ \E l \in Data, s \in BOOLEAN : LogForce(f, l, s)
         \/ f = Killer /\ ForceUmount
  PROVE  Plain(f)
  <1>0. ThreadShape /\ RingShape /\ f \in Procs /\ head \in Iclogs
    BY ProcsAre DEF Base, Shape, RingShape
  <1>a. RingOK /\ RefsOK
    BY DEF Core, Alive
  <1> USE DEF Goto, SleepOn, CloseAndRelease, ring, io, txv
  <1>1. CASE SyncAll(f)
    <2>1. /\ UNCHANGED <<cbs, called, clsn, phase, lsn, off, disk, ctx>>
          /\ \A q \in Procs \ {f} : pc'[q] = pc[q] /\ ic'[q] = ic[q]
          /\ pc[f] = "syncall" /\ pc'[f] \in {"eio", "ok", "forcewait", "release"}
      BY <1>0, <1>1 DEF ThreadShape, SyncAll
    <2>2. \/ UNCHANGED <<st, head, curr>>
          \/ /\ SwitchIclogs /\ st[head] = "ACTIVE" /\ (~Empty(head) \/ ref[head] > 0)
      BY <1>1 DEF SyncAll
    <2>3. CASE UNCHANGED <<st, head, curr>>
      BY <1>0, <2>1, <2>3, PlainMove DEF InLoop
    <2>4. CASE SwitchIclogs /\ st[head] = "ACTIVE" /\ (~Empty(head) \/ ref[head] > 0)
      <3>1. lsn[head] = curr
        <4>1. ref[head] # 0 => Holders(head) # {}
          BY <1>0, <1>a, Counts, RolesIn DEF RefsOK
        <4>2. off[head] # 0 \/ ref[head] # 0
          BY <1>0, <2>4 DEF Empty, RingShape
        <4> QED BY <1>0, <1>a, <2>4, <4>1, <4>2 DEF RingOK
      <3>2. /\ st'[head] = "WANT_SYNC" /\ \A i \in Iclogs \ {head} : st'[i] = st[i]
            /\ head' = Succ(head) /\ curr' = curr + 1
        BY <1>0, <2>4 DEF RingShape, SwitchIclogs
      <3> QED BY <1>0, <2>1, <2>4, <3>1, <3>2, PlainMove DEF InLoop, Loose
    <2> QED BY <2>2, <2>3, <2>4
  <1>2. CASE SyncOne(f)
    <2>1. /\ UNCHANGED <<cbs, called, clsn, phase, lsn, off, disk, ctx>>
          /\ \A q \in Procs \ {f} : pc'[q] = pc[q] /\ ic'[q] = ic[q]
          /\ pc[f] = "syncone" /\ pc'[f] \in {"eio", "ok", "forcewait", "writewait", "release"}
      BY <1>0, <1>2 DEF ThreadShape, SyncOne
    <2>2. \/ UNCHANGED <<st, head, curr>>
          \/ \E i \in Iclogs : lsn[i] = want[f] /\ st[i] = "ACTIVE" /\ SwitchIclogs
      BY <1>2 DEF SyncOne
    <2>3. CASE UNCHANGED <<st, head, curr>>
      BY <1>0, <2>1, <2>3, PlainMove DEF InLoop
    <2>4. CASE \E i \in Iclogs : lsn[i] = want[f] /\ st[i] = "ACTIVE" /\ SwitchIclogs
      <3>1. want[f] # 0
        BY <2>1 DEF Base, Wants
      <3>2. lsn[head] = curr
        BY <1>a, <2>4, <3>1 DEF RingOK
      <3>3. /\ st'[head] = "WANT_SYNC" /\ \A i \in Iclogs \ {head} : st'[i] = st[i]
            /\ head' = Succ(head) /\ curr' = curr + 1
        BY <1>0, <2>4 DEF RingShape, SwitchIclogs
      <3>4. st[head] = "ACTIVE"
        BY <1>a, <2>4, <3>1 DEF RingOK
      <3> QED BY <1>0, <2>1, <3>2, <3>3, <3>4, PlainMove DEF InLoop, Loose
    <2> QED BY <2>2, <2>3, <2>4
  <1>3. ASSUME UNCHANGED <<cbs, called, clsn, phase, st, lsn, head, curr, disk, ctx>>,
               \A q \in Procs \ {f} : pc'[q] = pc[q] /\ ic'[q] = ic[q],
               pc[f] \notin {"cbgrab", "cbrun"},
               pc'[f] \in {"eio", "ok", "forcewait", "idle", "syncall", "syncone"}
        PROVE  Plain(f)
    BY <1>0, <1>3, PlainMove DEF InLoop
  <1>4. CASE ForceReleased(f)
    <2>1. UNCHANGED <<cbs, called, clsn, phase, st, lsn, head, curr, disk, ctx>>
      BY <1>4 DEF ForceReleased
    <2> QED BY <1>0, <1>3, <1>4, <2>1 DEF ThreadShape, ForceReleased
  <1>5. CASE WriteWake(f) \/ ForceWake(f)
    <2>1. UNCHANGED <<cbs, called, clsn, phase, st, lsn, head, curr, disk, ctx>>
      BY <1>5 DEF WriteWake, ForceWake
    <2> QED BY <1>0, <1>3, <1>5, <2>1 DEF ThreadShape, WriteWake, ForceWake
  <1>6. CASE ForceReturns(f)
    <2>1. UNCHANGED <<cbs, called, clsn, phase, st, lsn, head, curr, disk, ctx>>
      BY <1>6 DEF ForceReturns
    <2> QED BY <1>0, <1>3, <1>6, <2>1 DEF ThreadShape, ForceReturns
  <1>7. CASE \E l \in Data, s \in BOOLEAN : LogForce(f, l, s)
    <2>1. UNCHANGED <<cbs, called, clsn, phase, st, lsn, head, curr, disk, ctx, ic>>
      BY <1>7 DEF LogForce
    <2>2. /\ pc[f] = "idle" /\ \A q \in Procs \ {f} : pc'[q] = pc[q]
          /\ pc'[f] \in {"eio", "syncall", "syncone"}
      BY <1>0, <1>7 DEF ThreadShape, LogForce
    <2> QED BY <1>3, <2>1, <2>2
  <1>8. CASE f = Killer /\ ForceUmount
    <2>1. UNCHANGED <<cbs, called, clsn, phase, st, lsn, head, curr, disk, ctx, ic>>
      BY <1>8 DEF ForceUmount
    <2> QED BY <1>0, <1>3, <1>8, <2>1 DEF ThreadShape, ForceUmount
  <1> QED BY <1>1, <1>2, <1>4, <1>5, <1>6, <1>7, <1>8 DEF ForceStep

\* A step between two live rings is plain, or one of the four that handle callbacks.
LEMMA PlainIs ==
  ASSUME Base, Base', Core, Noted, ~Dead, ~Dead', Next
  PROVE  (\E p \in Procs : Plain(p)) \/ Callbacks
  <1>1. CASE \E t \in Txs : Start(t) \/ TxStep(t)
    BY <1>1, PlainTx, ProcsAre DEF Callbacks
  <1>2. CASE \E p \in Txs \cup Syncers : Release(p) \/ Sync(p)
    BY <1>2, PlainRelease, ProcsAre
  <1>3. CASE \E p \in Procs : CallbackStep(p)
    BY <1>3, PlainDone DEF Callbacks, CallbackStep
  <1>4. CASE \E c \in Cpus, i \in Iclogs : IodoneOk(c, i) \/ IodoneError(c, i)
    BY <1>4, PlainIodone, ProcsAre
  <1>5. CASE \E f \in Forcers : ForceReturns(f) \/ \E l \in Data, s \in BOOLEAN : LogForce(f, l, s)
    BY <1>5, PlainForce, ProcsAre
  <1>6. CASE \E f \in Syncers : ForceStep(f)
    BY <1>6, PlainForce, ProcsAre
  <1>7. CASE ForceUmountLogError \/ ForceUmount \/ ForceUmountSeal
    <2>1. ~ForceUmountLogError /\ ~ForceUmountSeal
      <3> SUFFICES ASSUME ForceUmountLogError \/ ForceUmountSeal PROVE FALSE
        OBVIOUS
      <3>1. AllIoerror /\ UNCHANGED head
        BY DEF ForceUmountLogError, ForceUmountSeal
      <3> QED BY <3>1, AllIoerrorIs DEF Base, Shape, Dead, RingShape
    <2> QED BY <1>7, <2>1, PlainForce, ProcsAre
  <1> QED BY <1>1, <1>2, <1>3, <1>4, <1>5, <1>6, <1>7 DEF Next

\* no busy iclog is older
Oldest(j) == \A i \in Iclogs : st[i] \notin Loose => lsn[j] <= lsn[i]

\* where the callback of a committed transaction is, and for which record
Waiting(t, i) == t \in ToSet(cbs[i])
Running(t, p) == t \in ToSet(ctx[p].got)

InOrder ==
  /\ Noted
  /\ \A p \in Procs : pc[p] \in InLoop => Oldest(ctx[p].cur)
  /\ \A i \in Iclogs : cbs[i] # <<>> => lsn[i] # 0 /\ st[i] # "DIRTY"
  /\ \A i \in Iclogs, t \in Txs : Waiting(t, i) => clsn[t] = lsn[i]
  /\ \A p \in Procs : ctx[p].got # <<>> => pc[p] = "cbrun"
  /\ \A p \in Procs, t \in Txs : Running(t, p) => clsn[t] = lsn[ctx[p].cur]
  /\ \A t \in Committed : \/ t \in Calls \/ \E i \in Iclogs : Waiting(t, i)
                          \/ \E p \in Procs : Running(t, p)

\* A thread in the loop of xlog_state_do_callback holds an iclog of its own, whose
\* record is on disk.
LEMMA LoopIs ==
  ASSUME Base, Core, ~Dead
  PROVE  \A p \in Procs : pc[p] \in InLoop =>
           /\ ctx[p].cur \in Iclogs /\ st[ctx[p].cur] = "CALLBACK"
           /\ lsn[ctx[p].cur] \in 1 .. curr - 1 /\ lsn[ctx[p].cur] \in disk
           /\ \A q \in Procs : pc[q] \in InLoop /\ ctx[q].cur = ctx[p].cur => p = q
  <1>1. \A i \in Iclogs : st[i] # "IOERROR"
    BY DEF Base, Shape, RingShape, AllDead, Dead
  <1>2. \A p \in Procs : pc[p] \in InLoop => ctx[p].cur \in Iclogs /\ st[ctx[p].cur] = "CALLBACK"
    BY <1>1 DEF Base, Threads, Core, LoopOK
  <1>3. \A i \in Iclogs : st[i] = "CALLBACK" => lsn[i] \in 1 .. curr - 1 /\ lsn[i] \in disk
    BY DEF Core, Alive, RingOK, IoOK
  <1> QED BY <1>2, <1>3 DEF Core, LoopOK

\* What is the oldest record stays so while new ones start behind it.
LEMMA OldestStays ==
  ASSUME Base, Base', NEW j \in Iclogs, Oldest(j), lsn[j] <= curr, lsn'[j] = lsn[j],
         \A i \in Iclogs : st'[i] \notin Loose =>
           (st[i] \notin Loose /\ lsn'[i] = lsn[i]) \/ lsn'[i] = curr
  PROVE  Oldest(j)'
  BY DEF Oldest, Base, Shape, RingShape

\* A plain step keeps the order of the callbacks.
LEMMA PlainOrder ==
  ASSUME Base, Base', Core, OnePlace, ~Dead, InOrder, NEW p \in Procs, Plain(p)
  PROVE  InOrder'
  <1>0. /\ RingOK /\ RingShape /\ CallShape /\ CtxShape /\ curr \in Nat /\ head \in Iclogs
        /\ \A i \in Iclogs : lsn[i] \in Nat
    BY DEF Core, Alive, Base, Shape, RingShape
  <1>1. /\ \A q \in Procs : ctx'[q].got = ctx[q].got /\ (ctx[q].got # <<>> => q # p)
        /\ \A q \in Procs : pc'[q] \in InLoop => pc[q] \in InLoop /\ ctx'[q].cur = ctx[q].cur
    BY DEF Plain, InOrder, InLoop
  <1>2. \A q \in Procs : pc[q] \in InLoop => lsn'[ctx[q].cur] = lsn[ctx[q].cur]
    BY LoopIs DEF Plain
  <1>3. Noted'
    <2> SUFFICES ASSUME NEW t \in Txs, pc'[t] = "notify" \/ (pc'[t] = "wantsync" /\ phase'[t] = "commit")
                 PROVE  clsn'[t] = lsn'[ic'[t]]
      BY DEF Noted
    <2>0. t \in Procs
      BY ProcsAre
    <2>1. CASE t = p
      BY <2>1 DEF Plain
    <2>2. CASE t # p
      <3>1. pc[t] = pc'[t] /\ ic'[t] = ic[t] /\ clsn'[t] = clsn[t] /\ phase'[t] = phase[t]
        BY <2>0, <2>2 DEF Plain
      <3>2. clsn[t] = lsn[ic[t]] /\ ic[t] \in Iclogs /\ t \in Holders(ic[t])
        BY <2>0, <3>1 DEF InOrder, Noted, Base, Threads, Held, Holders
      <3>3. lsn'[ic[t]] = lsn[ic[t]]
        BY <1>0, <3>2 DEF Plain, RingOK
      <3> QED BY <3>1, <3>2, <3>3
    <2> QED BY <2>1, <2>2
  <1>4. \A q \in Procs : pc'[q] \in InLoop => Oldest(ctx[q].cur)'
    <2> SUFFICES ASSUME NEW q \in Procs, pc'[q] \in InLoop PROVE Oldest(ctx[q].cur)'
      OBVIOUS
    <2> PICK j \in Iclogs : j = ctx[q].cur
      BY <1>1, LoopIs
    <2>1. Oldest(j) /\ lsn[j] <= curr /\ lsn'[j] = lsn[j] /\ ctx'[q].cur = j
      BY <1>0, <1>1, <1>2, LoopIs DEF InOrder
    <2>2. \A i \in Iclogs : st'[i] \notin Loose =>
            (st[i] \notin Loose /\ lsn'[i] = lsn[i]) \/ lsn'[i] = curr
      BY <1>0 DEF Plain, Loose
    <2>3. Oldest(j)'
      BY <2>1, <2>2, OldestStays
    <2> QED BY <2>1, <2>3 DEF Oldest
  <1>5. \A i \in Iclogs : cbs[i] # <<>> => lsn'[i] = lsn[i] /\ st'[i] # "DIRTY"
    BY <1>0 DEF Plain, InOrder, Loose
  <1>6. \A i \in Iclogs, t \in Txs : (Waiting(t, i)' <=> Waiting(t, i)) /\ (Waiting(t, i) => cbs[i] # <<>>)
    BY EmptyIs DEF Plain, Waiting
  <1>7. \A q \in Procs, t \in Txs : (Running(t, q)' <=> Running(t, q)) /\ (Running(t, q) => ctx[q].got # <<>>)
    BY <1>1, EmptyIs DEF Running
  <1>8. /\ UNCHANGED <<Calls, Committed, cbs>>
        /\ \A t \in Committed : clsn'[t] = clsn[t]
    BY DEF Plain, Calls, Committed
  <1>c. /\ \A i \in Iclogs, t \in Txs : Waiting(t, i) => t \in Committed
        /\ \A q \in Procs, t \in Txs : Running(t, q) => t \in Committed
    BY DEF OnePlace, Waiting, Running
  <1>9. \A i \in Iclogs : cbs'[i] # <<>> => lsn'[i] # 0 /\ st'[i] # "DIRTY"
    BY <1>5, <1>8 DEF InOrder
  <1>10. \A i \in Iclogs, t \in Txs : Waiting(t, i)' => clsn'[t] = lsn'[i]
    BY <1>5, <1>6, <1>8, <1>c DEF InOrder
  <1>11. \A q \in Procs : ctx'[q].got # <<>> => pc'[q] = "cbrun"
    BY <1>1 DEF InOrder, Plain
  <1>12. \A q \in Procs, t \in Txs : Running(t, q)' => clsn'[t] = lsn'[ctx'[q].cur]
    <2> SUFFICES ASSUME NEW q \in Procs, NEW t \in Txs, Running(t, q) PROVE clsn'[t] = lsn'[ctx'[q].cur]
      BY <1>7
    <2>1. pc[q] = "cbrun" /\ pc'[q] = "cbrun"
      BY <1>1, <1>7, <1>11 DEF InOrder
    <2>2. ctx'[q].cur = ctx[q].cur /\ lsn'[ctx[q].cur] = lsn[ctx[q].cur]
      BY <1>1, <1>2, <2>1 DEF InLoop
    <2> QED BY <1>8, <1>c, <2>2 DEF InOrder
  <1>13. \A t \in Committed' : \/ t \in Calls' \/ \E i \in Iclogs : Waiting(t, i)'
                               \/ \E q \in Procs : Running(t, q)'
    BY <1>6, <1>7, <1>8 DEF InOrder, Committed
  <1> QED BY <1>3, <1>4, <1>9, <1>10, <1>11, <1>12, <1>13 DEF InOrder

\* xfs_log_notify attaches to a record that is not on disk yet, behind all others.
LEMMA NotifyOrder ==
  ASSUME Base, Base', Core, OnePlace, ~Dead, InOrder, NEW t \in Txs, Notify(t)
  PROVE  /\ InOrder'
         /\ lsn[ic[t]] \notin disk /\ clsn[t] = lsn[ic[t]] /\ lsn[ic[t]] > 0 /\ t \notin Committed
  <1>0. /\ RingOK /\ IoOK /\ RingShape /\ CallShape /\ ThreadShape /\ TxShape /\ t \in Procs
        /\ \A i \in Iclogs : st[i] # "IOERROR"
    BY ProcsAre DEF Core, Alive, Base, Shape, RingShape, AllDead, Dead
  <1> PICK i : i = ic[t]
    OBVIOUS
  <1>1. /\ i \in Iclogs /\ t \in Holders(i) /\ phase[t] = "commit" /\ t \notin Committed
    BY <1>0 DEF Base, Threads, TxOK, Notify, Held, Committed, Holders
  <1>2. /\ UNCHANGED <<ctx, ic, called, clsn, st, lsn>>
        /\ cbs' = [cbs EXCEPT ![i] = Append(cbs[i], t)]
        /\ pc[t] = "notify" /\ pc'[t] = "release" /\ \A q \in Procs \ {t} : pc'[q] = pc[q]
        /\ phase'[t] = "notified" /\ \A u \in Txs \ {t} : phase'[u] = phase[u]
    BY <1>0, <1>1 DEF ThreadShape, TxShape, Notify, Goto, ring
  <1>3. clsn[t] = lsn[i]
    BY <1>2 DEF InOrder, Noted
  <1>4. lsn[i] > 0 /\ lsn[i] \notin disk /\ st[i] \in {"ACTIVE", "WANT_SYNC"}
    <2>1. st[i] \in {"ACTIVE", "WANT_SYNC"}
      BY <1>0, <1>1 DEF RingOK
    <2>2. CASE st[i] = "ACTIVE"
      <3>1. lsn[i] = curr
        BY <1>0, <1>1, <2>2 DEF RingOK
      <3> QED BY <1>0, <2>1, <3>1 DEF IoOK, RingShape
    <2>3. CASE st[i] = "WANT_SYNC"
      BY <1>0, <1>1, <2>3 DEF RingOK, IoOK
    <2> QED BY <2>1, <2>2, <2>3
  <1>5. cbs'[i] = Append(cbs[i], t) /\ \A j \in Iclogs \ {i} : cbs'[j] = cbs[j]
    BY <1>0, <1>1, <1>2 DEF CallShape
  <1>6. ToSet(cbs'[i]) = ToSet(cbs[i]) \cup {t}
    <2>1. cbs[i] \in Seq(Txs)
      BY <1>0, <1>1 DEF CallShape
    <2> QED BY <1>5, <2>1, Appended
  <1>7. /\ Committed' = Committed \cup {t} /\ UNCHANGED Calls
        /\ \A j \in Iclogs, u \in Txs : Waiting(u, j)' <=> Waiting(u, j) \/ (u = t /\ j = i)
        /\ \A q \in Procs, u \in Txs : Running(u, q)' <=> Running(u, q)
    BY <1>1, <1>2, <1>5, <1>6 DEF Committed, Calls, Waiting, Running
  <1>8. Noted'
    <2> SUFFICES ASSUME NEW u \in Txs, pc'[u] = "notify" \/ (pc'[u] = "wantsync" /\ phase'[u] = "commit")
                 PROVE  clsn'[u] = lsn'[ic'[u]]
      BY DEF Noted
    <2>1. u # t /\ u \in Procs
      BY <1>2, ProcsAre
    <2> QED BY <1>2, <2>1 DEF InOrder, Noted
  <1>9. \A q \in Procs : pc'[q] \in InLoop => Oldest(ctx[q].cur)'
    BY <1>2 DEF InOrder, Oldest, InLoop
  <1>10. \A j \in Iclogs : cbs'[j] # <<>> => lsn'[j] # 0 /\ st'[j] # "DIRTY"
    BY <1>0, <1>2, <1>4, <1>5 DEF InOrder, RingShape
  <1>11. \A q \in Procs : ctx'[q].got # <<>> => pc'[q] = "cbrun"
    BY <1>2 DEF InOrder
  <1>12. \A j \in Iclogs, u \in Txs : Waiting(u, j)' => clsn'[u] = lsn'[j]
    BY <1>2, <1>3, <1>7 DEF InOrder
  <1>13. \A q \in Procs, u \in Txs : Running(u, q)' => clsn'[u] = lsn'[ctx'[q].cur]
    BY <1>2, <1>7 DEF InOrder
  <1>14. \A u \in Committed' : \/ u \in Calls' \/ \E j \in Iclogs : Waiting(u, j)'
                               \/ \E q \in Procs : Running(u, q)'
    BY <1>1, <1>7 DEF InOrder, Committed
  <1>15. InOrder'
    BY <1>8, <1>9, <1>10, <1>11, <1>12, <1>13, <1>14 DEF InOrder
  <1> QED BY <1>1, <1>3, <1>4, <1>15

\* Taking the callbacks off the oldest iclog keeps the order.
LEMMA CbGrabOrder ==
  ASSUME Base, Core, OnePlace, ~Dead, InOrder, NEW p \in Procs, CbGrab(p)
  PROVE  InOrder'
  <1>0. CallShape /\ ThreadShape /\ CtxShape
    BY DEF Base, Shape
  <1> PICK i : i = ctx[p].cur
    OBVIOUS
  <1>1. i \in Iclogs /\ cbs[i] \in Seq(Txs)
    BY <1>0 DEF CallShape, Base, Threads, InLoop, CbGrab
  <1>2. /\ ctx' = [ctx EXCEPT ![p].got = cbs[i]] /\ cbs' = [cbs EXCEPT ![i] = <<>>]
        /\ UNCHANGED <<called, phase, clsn, st, lsn, ic>>
        /\ pc[p] = "cbgrab" /\ pc'[p] = "cbrun" /\ \A q \in Procs \ {p} : pc'[q] = pc[q]
    BY <1>0 DEF ThreadShape, CbGrab, Goto, ring, txv
  <1>3. /\ \A q \in Procs \ {p} : ctx'[q] = ctx[q]
        /\ ctx'[p].got = cbs[i] /\ ctx'[p].cur = i
    BY <1>0, <1>1, <1>2, CtxGot
  <1>4. cbs'[i] = <<>> /\ \A j \in Iclogs \ {i} : cbs'[j] = cbs[j]
    BY <1>0, <1>1, <1>2 DEF CallShape
  <1>5. ctx[p].got = <<>>
    BY <1>2 DEF InOrder
  <1>6. /\ UNCHANGED <<Committed, Calls>>
        /\ \A j \in Iclogs, u \in Txs : Waiting(u, j)' <=> Waiting(u, j) /\ j # i
        /\ \A q \in Procs, u \in Txs : Running(u, q)' <=> Running(u, q) \/ (q = p /\ Waiting(u, i))
    BY <1>1, <1>2, <1>3, <1>4, <1>5, EmptyIs DEF Committed, Calls, Waiting, Running
  <1>7. Noted'
    BY <1>2, ProcsAre DEF InOrder, Noted
  <1>8. \A q \in Procs : pc'[q] \in InLoop => Oldest(ctx[q].cur)'
    BY <1>2, <1>3 DEF InOrder, Oldest, InLoop
  <1>9. \A j \in Iclogs : cbs'[j] # <<>> => lsn'[j] # 0 /\ st'[j] # "DIRTY"
    BY <1>2, <1>4 DEF InOrder
  <1>10. \A q \in Procs : ctx'[q].got # <<>> => pc'[q] = "cbrun"
    BY <1>2, <1>3 DEF InOrder
  <1>11. \A q \in Procs, u \in Txs : Running(u, q)' => clsn'[u] = lsn'[ctx'[q].cur]
    BY <1>1, <1>2, <1>3, <1>5, <1>6, EmptyIs DEF InOrder, Running
  <1> QED BY <1>1, <1>2, <1>6, <1>7, <1>8, <1>9, <1>10, <1>11 DEF InOrder, Committed

\* Running a callback of the oldest iclog keeps the order.
LEMMA CbRunOrder ==
  ASSUME Base, Core, OnePlace, ~Dead, InOrder, NEW p \in Procs, CbRun(p)
  PROVE  InOrder'
  <1>0. CallShape /\ ThreadShape /\ CtxShape
    BY DEF Base, Shape
  <1> PICK g : g = ctx[p].got
    OBVIOUS
  <1>1. g \in Seq(Txs) /\ g # <<>> /\ Tail(g) \in Seq(Txs) /\ Len(g) \in Nat
    <2>1. ctx[p] \in Ctx /\ g # <<>>
      BY <1>0 DEF CtxShape, Base, Threads, CbRun
    <2> QED BY <2>1 DEF Ctx
  <1> DEFINE e == [tx |-> Head(g), ab |-> ctx[p].ab]
  <1>2. /\ ctx' = [ctx EXCEPT ![p].got = Tail(g)] /\ UNCHANGED <<cbs, phase, clsn, st, lsn, ic>>
        /\ called' = Append(called, e) /\ e.tx = Head(g)
        /\ pc[p] = "cbrun" /\ pc'[p] = (IF Len(g) = 1 THEN "cbgrab" ELSE "cbrun")
        /\ \A q \in Procs \ {p} : pc'[q] = pc[q]
    BY <1>0 DEF ThreadShape, CbRun, Goto, ring, txv
  <1> HIDE DEF e
  <1>3. /\ \A q \in Procs \ {p} : ctx'[q] = ctx[q]
        /\ ctx'[p].got = Tail(g) /\ ctx'[p].cur = ctx[p].cur
    BY <1>0, <1>1, <1>2, CtxGot
  <1>4. /\ Head(g) \in ToSet(g) /\ ToSet(g) = ToSet(Tail(g)) \cup {Head(g)}
        /\ Head(g) \in Txs /\ IsInjective(g)
    <2>1. IsInjective(g)
      BY DEF OnePlace
    <2>2. Head(g) \in ToSet(g) /\ ToSet(Tail(g)) \subseteq ToSet(g)
      BY <1>1, <2>1, Taken
    <2>3. ASSUME NEW k \in DOMAIN g, k # 1 PROVE k - 1 \in DOMAIN Tail(g) /\ Tail(g)[k - 1] = g[k]
      BY <1>1, <2>3
    <2>5. g[1] = Head(g)
      BY <1>1
    <2>4. ToSet(g) \subseteq ToSet(Tail(g)) \cup {Head(g)}
      BY <2>3, <2>5 DEF ToSet
    <2> QED BY <1>1, <2>1, <2>2, <2>4
  <1>5. Calls' = Calls \cup {Head(g)}
    <2>1. Head(g) \notin Calls /\ CallbackAtMostOnce
      BY <1>4 DEF OnePlace
    <2> QED BY <1>0, <1>2, <2>1, CalledAppended
  <1>6. Len(g) = 1 => Tail(g) = <<>>
    <2>1. Len(Tail(g)) = Len(g) - 1
      BY <1>1
    <2>2. Tail(g) # <<>> => Len(Tail(g)) # 0
      BY <1>1, EmptySeq
    <2> QED BY <2>1, <2>2
  <1>7. /\ UNCHANGED Committed
        /\ \A j \in Iclogs, u \in Txs : Waiting(u, j)' <=> Waiting(u, j)
        /\ \A q \in Procs, u \in Txs : /\ Running(u, q)' => Running(u, q)
                                       /\ Running(u, q) => Running(u, q)' \/ u \in Calls'
    BY <1>2, <1>3, <1>4, <1>5 DEF Committed, Waiting, Running
  <1>8. Noted'
    BY <1>2, ProcsAre DEF InOrder, Noted
  <1>9. \A q \in Procs : pc'[q] \in InLoop => Oldest(ctx[q].cur)'
    BY <1>2, <1>3 DEF InOrder, Oldest, InLoop
  <1>10. \A q \in Procs : ctx'[q].got # <<>> => pc'[q] = "cbrun"
    BY <1>2, <1>3, <1>6 DEF InOrder
  <1>11. \A q \in Procs, u \in Txs : Running(u, q)' => clsn'[u] = lsn'[ctx'[q].cur]
    BY <1>2, <1>3, <1>7 DEF InOrder
  <1> QED BY <1>2, <1>5, <1>7, <1>8, <1>9, <1>10, <1>11 DEF InOrder, Committed

\* A thread on a live ring stops only at an iclog that no busy one is older than.
LEMMA ScanOldest ==
  ASSUME NEW s \in [Iclogs -> States], NEW l \in [Iclogs -> Nat],
         \A i \in Iclogs : s[i] # "IOERROR", NEW r, Scanned(s, l, r)
  PROVE  /\ \A i \in Iclogs : r.st[i] = s[i] \/ (s[i] \in Written /\ r.st[i] \in Written)
         /\ \/ r.at = None
            \/ r.at \in Iclogs /\ \A i \in Iclogs : r.st[i] \notin Loose => l[r.at] <= l[i]
  <1>1. PICK S : Marked(s, S) /\ (Stops(S, l, r) \/ (r.at = None /\ r.st = S))
    BY DEF Scanned
  <1>2. /\ \A i \in Iclogs : S[i] = s[i] \/ (s[i] = "DONE_SYNC" /\ S[i] = "DO_CALLBACK")
        /\ S \in [Iclogs -> States]
    BY <1>1 DEF Marked
  <1>3. CASE r.at = None /\ r.st = S
    BY <1>2, <1>3 DEF Written
  <1>4. CASE Stops(S, l, r)
    <2>1. /\ r.at \in Iclogs /\ S[r.at] \in {"DONE_SYNC", "DO_CALLBACK"}
          /\ r.st = [S EXCEPT ![r.at] = "CALLBACK"]
          /\ \A i \in Iclogs : S[i] \notin Loose => l[r.at] <= l[i]
      BY <1>2, <1>4 DEF Stops
    <2>2. \A i \in Iclogs : r.st[i] = S[i] \/ (S[i] \in Written /\ r.st[i] \in Written)
      BY <1>2, <2>1 DEF Written
    <2>3. \A i \in Iclogs : r.st[i] \notin Loose => S[i] \notin Loose
      BY <2>2 DEF Written, Loose
    <2> QED BY <1>2, <2>1, <2>2, <2>3 DEF Written
  <1> QED BY <1>1, <1>3, <1>4

\* A thread that scans on takes up the oldest busy iclog, or leaves.
LEMMA ResumeOrder ==
  ASSUME Base, Base', Core, OnePlace, InOrder, ~Dead, NEW p \in Procs, pc[p] \in {"cbstart", "cbgrab"},
         NEW s \in [Iclogs -> States], \A i \in Iclogs : s[i] # "IOERROR",
         NEW r, Scanned(s, lsn', r), NEW err \in BOOLEAN, NEW up, Resume(p, r, err, up),
         UNCHANGED <<head, curr, cbs, called, phase, clsn>>,
         \A i \in Iclogs : s[i] \notin Loose => st[i] \notin Loose /\ lsn'[i] = lsn[i],
         \A i \in Iclogs : cbs[i] # <<>> => lsn'[i] = lsn[i] /\ s[i] # "DIRTY",
         \A q \in Procs \ {p} : pc[q] \in InLoop => lsn'[ctx[q].cur] = lsn[ctx[q].cur],
         \A q \in Procs : pc[q] \in Held => lsn'[ic[q]] = lsn[ic[q]]
  PROVE  InOrder'
  <1>0. /\ ThreadShape /\ RingShape /\ CtxShape /\ RingShape' /\ CtxShape' /\ CallShape
        /\ curr \in Nat /\ lsn' \in [Iclogs -> Nat]
    BY DEF Base, Shape, RingShape
  <1>1. /\ \A i \in Iclogs : r.st[i] = s[i] \/ (s[i] \in Written /\ r.st[i] \in Written)
        /\ \/ r.at = None
           \/ r.at \in Iclogs /\ \A i \in Iclogs : r.st[i] \notin Loose => lsn'[r.at] <= lsn'[i]
    <2> PICK l \in [Iclogs -> Nat] : l = lsn'
      BY <1>0
    <2>1. Scanned(s, l, r)
      OBVIOUS
    <2> QED BY <2>1, ScanOldest
  <1>2. st' = r.st
    BY DEF Resume
  <1>3. \A q \in Procs \ {p} : pc'[q] = pc[q] /\ ctx'[q] = ctx[q] /\ ic'[q] = ic[q]
    BY <1>0 DEF Resume, ThreadShape, CtxShape
  <1>4. /\ ctx[p].got = <<>>
        /\ \/ r.at = None /\ pc'[p] \in {"idle", "eio", "donesync", "dead"} /\ ctx'[p].got = <<>>
           \/ r.at \in Iclogs /\ pc'[p] = "lastsync" /\ ctx'[p].cur = r.at /\ ctx'[p].got = ctx[p].got
    <2>1. CASE r.at = None
      <3>1. pc'[p] = ctx[p].then
        BY <1>0, <2>1 DEF Resume, ThreadShape
      <3>2. ctx[p].then \in {"idle", "eio", "donesync", "dead"}
        BY <1>0 DEF CtxShape, Ctx
      <3> DEFINE x == [NoCtx EXCEPT !.ab = ctx[p].then = "donesync"]
      <3>3. ctx' = [ctx EXCEPT ![p] = x]
        BY <2>1 DEF Resume
      <3>4. x.got = <<>>
        BY DEF NoCtx
      <3> HIDE DEF x
      <3>5. ctx'[p].got = <<>>
        BY <1>0, <3>3, <3>4 DEF CtxShape
      <3> QED BY <2>1, <3>1, <3>2, <3>5 DEF InOrder
    <2>2. CASE r.at # None
      <3>1. r.at \in Iclogs /\ r.st[r.at] # "IOERROR"
        BY <1>1, <2>2 DEF Written
      <3>2. pc'[p] = "lastsync"
        BY <1>0, <2>2, <3>1 DEF Resume, ThreadShape
      <3>3. ctx' = [ctx EXCEPT ![p].cur = r.at, ![p].left = r.left, ![p].err = err \/ r.st[r.at] = "IOERROR"]
        BY <2>2 DEF Resume
      <3>4. ctx'[p].cur = r.at /\ ctx'[p].got = ctx[p].got
        BY <1>0, <3>3 DEF CtxShape, Ctx
      <3> QED BY <3>1, <3>2, <3>4 DEF InOrder
    <2> QED BY <2>1, <2>2
  <1>5. /\ UNCHANGED <<Calls, Committed>> /\ \A q \in Procs : ctx'[q].got = ctx[q].got
        /\ \A j \in Iclogs, u \in Txs : Waiting(u, j)' <=> Waiting(u, j)
    BY <1>3, <1>4 DEF Calls, Committed, Waiting
  <1>6. \A q \in Procs, u \in Txs : /\ Running(u, q)' <=> Running(u, q)
                                    /\ Running(u, q) => q # p /\ pc[q] = "cbrun"
    BY <1>4, <1>5, EmptyIs DEF Running, InOrder
  <1>7. Noted'
    <2> SUFFICES ASSUME NEW u \in Txs, pc'[u] = "notify" \/ (pc'[u] = "wantsync" /\ phase'[u] = "commit")
                 PROVE  clsn'[u] = lsn'[ic'[u]]
      BY DEF Noted
    <2>1. u # p /\ u \in Procs
      BY <1>4, ProcsAre
    <2>2. pc[u] = pc'[u] /\ ic'[u] = ic[u] /\ pc[u] \in Held
      BY <1>3, <2>1 DEF Held
    <2> QED BY <2>1, <2>2 DEF InOrder, Noted
  <1>8. \A q \in Procs : pc'[q] \in InLoop => Oldest(ctx[q].cur)'
    <2> SUFFICES ASSUME NEW q \in Procs, pc'[q] \in InLoop PROVE Oldest(ctx[q].cur)'
      OBVIOUS
    <2>1. CASE q = p
      <3>1. r.at \in Iclogs /\ ctx'[p].cur = r.at
        BY <1>4, <2>1 DEF InLoop
      <3> QED BY <1>1, <1>2, <2>1, <3>1, IclogAssumption DEF Oldest
    <2>2. CASE q # p
      <3>1. ctx[q].cur \in Iclogs /\ Oldest(ctx[q].cur) /\ pc[q] \in InLoop /\ ctx'[q] = ctx[q]
        BY <1>3, <2>2 DEF InOrder, Base, Threads
      <3>2. \A i \in Iclogs : st'[i] \notin Loose => s[i] \notin Loose
        BY <1>1, <1>2 DEF Written, Loose
      <3> QED BY <2>2, <3>1, <3>2 DEF Oldest
    <2> QED BY <2>1, <2>2
  <1>9. \A i \in Iclogs : cbs'[i] # <<>> => lsn'[i] # 0 /\ st'[i] # "DIRTY"
    BY <1>1, <1>2 DEF InOrder, Written
  <1>10. \A q \in Procs : ctx'[q].got # <<>> => pc'[q] = "cbrun"
    BY <1>3, <1>4, <1>5 DEF InOrder
  <1>11. \A i \in Iclogs, u \in Txs : Waiting(u, i)' => clsn'[u] = lsn'[i]
    <2>1. \A i \in Iclogs, u \in Txs : Waiting(u, i) => cbs[i] # <<>>
      BY EmptyIs DEF Waiting
    <2> QED BY <1>5, <2>1 DEF InOrder
  <1>12. \A q \in Procs, u \in Txs : Running(u, q)' => clsn'[u] = lsn'[ctx'[q].cur]
    BY <1>3, <1>6 DEF InOrder, InLoop
  <1>13. \A u \in Committed' : \/ u \in Calls' \/ \E i \in Iclogs : Waiting(u, i)'
                               \/ \E q \in Procs : Running(u, q)'
    BY <1>5, <1>6 DEF InOrder, Committed
  <1> QED BY <1>7, <1>8, <1>9, <1>10, <1>11, <1>12, <1>13 DEF InOrder

\* xlog_state_do_callback begins its scan.
LEMMA CbStartOrder ==
  ASSUME Base, Base', Core, OnePlace, InOrder, ~Dead, NEW p \in Procs, CbStart(p)
  PROVE  InOrder'
  <1>0. /\ RingShape /\ CtxShape /\ st \in [Iclogs -> States]
        /\ \A i \in Iclogs : st[i] # "IOERROR"
    BY DEF Base, Shape, RingShape, AllDead, Dead
  <1>1. /\ pc[p] = "cbstart" /\ UNCHANGED <<lsn, head, curr, cbs, called, phase, clsn>>
    BY DEF CbStart, txv
  <1> PICK r : r = Scan(ctx[p].ci, st, lsn, head, N, FALSE, FALSE)
    OBVIOUS
  <1>2. Resume(p, r, FALSE, {})
    BY DEF CbStart
  <1>3. Scanned(st, lsn, r)
    <2>1. ctx[p].ci \in Iclogs \cup {None} /\ N \in Nat
      BY <1>0, IclogAssumption DEF CtxShape, Ctx
    <2> QED BY <1>0, <2>1, ScanEffect DEF RingShape
  <1>s. PICK s \in [Iclogs -> States] : s = st
    BY <1>0
  <1>4. Scanned(s, lsn', r)
    BY <1>1, <1>3, <1>s
  <1> QED BY <1>0, <1>1, <1>2, <1>4, <1>s, ResumeOrder DEF InOrder

\* After xlog_state_do_callback has emptied iclog i, s are the iclog states: i is
\* DIRTY, and DIRTY iclogs may have become ACTIVE.
Emptied(s, i) ==
  \A j \in Iclogs :
    \/ s[j] = st[j] /\ j # i /\ lsn'[j] = lsn[j]
    \/ s[j] = "DIRTY" /\ j = i /\ lsn'[j] = lsn[j]
    \/ s[j] = "ACTIVE" /\ st[j] \in {"DIRTY", "CALLBACK"} /\ (j = i \/ st[j] = "DIRTY")

\* xlog_state_do_callback goes on with the scan from there.
LEMMA FinishScan ==
  ASSUME Base, Base', Core, ~Dead, NEW p \in Procs, CbFinish(p)
  PROVE  \E r : \E s \in [Iclogs -> States], err \in BOOLEAN :
           /\ Scanned(s, lsn', r) /\ Resume(p, r, err, ForceWaiters(ctx[p].cur))
           /\ Emptied(s, ctx[p].cur)
  <1>0. /\ RingShape /\ CtxShape /\ RingShape' /\ st \in [Iclogs -> States] /\ head \in Iclogs
        /\ \A i \in Iclogs : st[i] # "IOERROR"
    BY DEF Base, Shape, RingShape, AllDead, Dead
  <1> DEFINE i == ctx[p].cur
             s0 == IF st[i] = "IOERROR" THEN st ELSE [st EXCEPT ![i] = "DIRTY"]
             fresh == Cleaned(s0)
             s1 == [j \in Iclogs |-> IF j \in fresh THEN "ACTIVE" ELSE s0[j]]
  <1>1. /\ pc[p] = "cbgrab"
        /\ lsn' = [j \in Iclogs |-> IF j \in fresh THEN 0 ELSE lsn[j]]
    BY DEF CbFinish
  <1> PICK r : r = Scan(ctx[p].ci, s1, lsn', Succ(i), ctx[p].left, TRUE, ctx[p].err)
    OBVIOUS
  <1>2. Resume(p, r, ctx[p].err, ForceWaiters(i)) /\ ctx[p].err \in BOOLEAN
    BY <1>0 DEF CbFinish, CtxShape, Ctx
  <1>i. i \in Iclogs /\ st[i] = "CALLBACK"
    BY <1>1, <1>0 DEF Base, Threads, Core, LoopOK, InLoop
  <1>s. s1 \in [Iclogs -> States]
    BY <1>0 DEF States
  <1>3. Scanned(s1, lsn', r)
    <2>1. ctx[p].ci \in Iclogs \cup {None} /\ ctx[p].left \in Nat /\ Succ(i) \in Iclogs
      BY <1>0, <1>i, SuccIs DEF CtxShape, Ctx
    <2>2. PICK l \in [Iclogs -> Nat] : l = lsn'
      BY <1>0 DEF RingShape
    <2> HIDE DEF s1
    <2>3. Scanned(s1, l, Scan(ctx[p].ci, s1, l, Succ(i), ctx[p].left, TRUE, ctx[p].err))
      BY <1>0, <1>s, <2>1, ScanEffect
    <2> QED BY <2>2, <2>3
  <1>4. \A j \in fresh : j \in Iclogs /\ s0[j] = "DIRTY"
    BY DEF Cleaned
  <1>5. s0[i] = "DIRTY" /\ \A j \in Iclogs \ {i} : s0[j] = st[j]
    BY <1>0, <1>i
  <1>6. \A j \in Iclogs :
          \/ s1[j] = st[j] /\ j # i /\ lsn'[j] = lsn[j]
          \/ s1[j] = "DIRTY" /\ j = i /\ lsn'[j] = lsn[j]
          \/ s1[j] = "ACTIVE" /\ st[j] \in {"DIRTY", "CALLBACK"} /\ (j = i \/ st[j] = "DIRTY")
    BY <1>1, <1>4, <1>5, <1>i
  <1> HIDE DEF s1, s0, fresh
  <1> QED BY <1>2, <1>3, <1>6, <1>s DEF Emptied

\* xlog_state_do_callback is done with an iclog and scans on.
LEMMA CbFinishOrder ==
  ASSUME Base, Base', Core, OnePlace, InOrder, ~Dead, NEW p \in Procs, CbFinish(p)
  PROVE  InOrder'
  <1>0. \A j \in Iclogs : st[j] # "IOERROR"
    BY DEF Base, Shape, RingShape, AllDead, Dead
  <1> PICK i : i = ctx[p].cur
    OBVIOUS
  <1> PICK up : up = ForceWaiters(i)
    OBVIOUS
  <1> PICK r : \E s \in [Iclogs -> States], err \in BOOLEAN :
             /\ Scanned(s, lsn', r) /\ Resume(p, r, err, up)
             /\ Emptied(s, i)
    BY FinishScan
  <1> PICK s \in [Iclogs -> States], err \in BOOLEAN :
             /\ Scanned(s, lsn', r) /\ Resume(p, r, err, up)
             /\ Emptied(s, i)
    OBVIOUS
  <1>1. /\ pc[p] = "cbgrab" /\ cbs[i] = <<>>
        /\ UNCHANGED <<head, curr, cbs, called, phase, clsn>>
    BY DEF CbFinish, txv
  <1>i. i \in Iclogs /\ st[i] = "CALLBACK"
    BY <1>1, LoopIs DEF InLoop
  <1>7. /\ \A j \in Iclogs : s[j] # "IOERROR"
        /\ \A j \in Iclogs : s[j] \notin Loose => st[j] \notin Loose /\ lsn'[j] = lsn[j]
    BY <1>0 DEF Loose, Emptied
  <1>8. \A j \in Iclogs : cbs[j] # <<>> => lsn'[j] = lsn[j] /\ s[j] # "DIRTY"
    BY <1>1 DEF InOrder, Emptied
  <1>9. \A q \in Procs \ {p} : pc[q] \in InLoop => lsn'[ctx[q].cur] = lsn[ctx[q].cur]
    <2> SUFFICES ASSUME NEW q \in Procs \ {p}, pc[q] \in InLoop PROVE lsn'[ctx[q].cur] = lsn[ctx[q].cur]
      OBVIOUS
    <2>1. ctx[q].cur \in Iclogs /\ st[ctx[q].cur] = "CALLBACK" /\ ctx[q].cur # i
      BY <1>1, LoopIs DEF InLoop
    <2> QED BY <2>1 DEF Emptied
  <1>10. \A q \in Procs : pc[q] \in Held => lsn'[ic[q]] = lsn[ic[q]]
    <2> SUFFICES ASSUME NEW q \in Procs, pc[q] \in Held PROVE lsn'[ic[q]] = lsn[ic[q]]
      OBVIOUS
    <2>1. ic[q] \in Iclogs /\ q \in Holders(ic[q])
      BY DEF Base, Threads, Holders
    <2>2. st[ic[q]] \in {"ACTIVE", "WANT_SYNC"}
      BY <2>1 DEF Core, Alive, RingOK
    <2> QED BY <1>i, <2>1, <2>2 DEF Emptied
  <1> QED BY <1>1, <1>7, <1>8, <1>9, <1>10, ResumeOrder

\* Every step keeps the order of the callbacks, or kills the log.
LEMMA NextOrder ==
  ASSUME Base, Base', Core, OnePlace, Dead \/ InOrder, [Next]_vars
  PROVE  Dead' \/ InOrder'
  <1>1. CASE Dead
    BY <1>1, DeadStays
  <1>2. CASE ~Dead /\ ~Dead' /\ Next
    <2>1. (\E p \in Procs : Plain(p)) \/ Callbacks
      BY <1>2, PlainIs DEF InOrder
    <2> QED BY <1>2, <2>1, PlainOrder, NotifyOrder, CbGrabOrder, CbRunOrder, CbStartOrder, CbFinishOrder
            DEF Callbacks
  <1>3. CASE UNCHANGED vars
    <2>1. InOrder => InOrder'
      BY <1>3 DEF vars, ring, txv, InOrder, Noted, Oldest, Waiting, Running, Committed, Calls
    <2> QED BY <1>3, <2>1 DEF vars, ring, Dead
  <1> QED BY <1>1, <1>2, <1>3

\* There is nothing to order at mount.
LEMMA InitOrder == ASSUME Init PROVE InOrder
  <1>1. /\ \A p \in Procs : pc[p] = "idle" /\ ctx[p].got = <<>>
        /\ \A i \in Iclogs : cbs[i] = <<>>
        /\ Committed = {}
    BY DEF Init, NoCtx, Committed
  <1> QED BY <1>1, ProcsAre, EmptyIs DEF InOrder, Noted, InLoop, Waiting, Running

\* The refinement mapping of Order, named.
Reg == [t \in Txs |-> IF phase[t] = "notified" THEN clsn[t] ELSE 0]
Done == {called[k].tx : k \in {j \in DOMAIN called : ~called[j].ab}}

\* A step that writes no record, attaches no callback and runs none.
Silent == /\ UNCHANGED <<disk, called>>
          /\ \A t \in Txs : \/ UNCHANGED <<clsn[t], phase[t]>>
                            \/ t \notin Committed \cup Committed'

\* The steps XfsLogOrder can see are xfs_log_notify, a callback and a write.
LEMMA SilentIs ==
  ASSUME Base, [Next]_vars
  PROVE  \/ Silent \/ (\E t \in Txs : Notify(t)) \/ (\E p \in Procs : CbRun(p))
         \/ \E c \in Cpus, i \in Iclogs : IodoneOk(c, i)
  <1>0. TxShape /\ TxOK
    BY DEF Base, Shape
  <1> USE DEF Silent, io, txv
  <1>1. ASSUME NEW t \in Txs, Start(t) \/ TxStep(t), ~Notify(t) PROVE Silent
    <2>1. UNCHANGED <<disk, called>>
      BY <1>1 DEF TxStep, Start, GetSpaceFails, GetSpaceWaits, GetSpaceNoRoom, GetSpace, FinishCopy,
                  WantSync, TxReleased, TxError, FlushWake
    <2>2. CASE GetSpace(t)
      <3>1. phase[t] # "notified" /\ UNCHANGED phase /\ \A u \in Txs \ {t} : clsn'[u] = clsn[u]
        BY <1>0, <2>2 DEF GetSpace, TxOK, TxShape
      <3> QED BY <2>1, <3>1 DEF Committed
    <2>3. CASE Start(t) \/ TxReleased(t) \/ TxError(t)
      <3>1. UNCHANGED clsn
        BY <2>3 DEF Start, TxReleased, TxError
      <3>2. /\ \A u \in Txs \ {t} : phase'[u] = phase[u]
            /\ phase'[t] = phase[t] \/ (phase[t] # "notified" /\ phase'[t] # "notified")
        BY <1>0, <2>3 DEF TxShape, Start, TxReleased, TxError
      <3> QED BY <2>1, <3>1, <3>2 DEF Committed
    <2> QED BY <1>1, <2>1, <2>2, <2>3
            DEF TxStep, GetSpaceFails, GetSpaceWaits, GetSpaceNoRoom, FinishCopy, WantSync, FlushWake
  <1>2. ASSUME NEW p \in Txs \cup Syncers, Release(p) \/ Sync(p) PROVE Silent
    BY <1>2 DEF Release, Sync
  <1>3. ASSUME NEW p \in Procs, CallbackStep(p), ~CbRun(p) PROVE Silent
    BY <1>3 DEF CallbackStep, DoneSyncing, CbStart, CbLastSync, CbGrab, CbFinish
  <1>4. ASSUME NEW c \in Cpus, NEW i \in Iclogs, IodoneError(c, i) PROVE Silent
    BY <1>4 DEF IodoneError
  <1>5. ASSUME NEW f \in Syncers, ForceStep(f) PROVE Silent
    BY <1>5 DEF ForceStep, SyncAll, SyncOne, ForceReleased, WriteWake, ForceWake
  <1>6. ASSUME NEW f \in Forcers, ForceReturns(f) \/ \E l \in Data, s \in BOOLEAN : LogForce(f, l, s)
        PROVE  Silent
    BY <1>6 DEF ForceReturns, LogForce
  <1>7. ASSUME ForceUmountLogError \/ ForceUmount \/ ForceUmountSeal PROVE Silent
    BY <1>7 DEF ForceUmountLogError, ForceUmount, ForceUmountSeal
  <1>8. ASSUME UNCHANGED vars PROVE Silent
    BY <1>8 DEF vars
  <1> QED BY <1>1, <1>2, <1>3, <1>4, <1>5, <1>6, <1>7, <1>8 DEF Next

\* Steps that Order does not see while the log lives.
LEMMA OrderSilent ==
  ASSUME ~Dead, Silent
  PROVE  [Order!Next]_(Order!vars)
  <1>1. Reg' = Reg /\ Done' = Done /\ disk' = disk
    BY DEF Silent, Reg, Done, Committed
  <1>2. CASE Dead'
    <2>1. Order!Fail
      BY <1>1, <1>2 DEF Order!Fail, Reg, Done
    <2> QED BY <2>1 DEF Order!Next
  <1>3. CASE ~Dead'
    <2>1. Dead' = Dead
      BY <1>3 DEF Dead
    <2> QED BY <1>1, <2>1 DEF Order!vars, Reg, Done
  <1> QED BY <1>2, <1>3

\* xfs_log_notify is Attach.
LEMMA OrderAttach ==
  ASSUME Base, Base', Core, OnePlace, InOrder, ~Dead, NEW t \in Txs, Notify(t)
  PROVE  Order!Next
  <1>1. /\ lsn[ic[t]] \notin disk /\ clsn[t] = lsn[ic[t]] /\ lsn[ic[t]] > 0 /\ t \notin Committed
    BY NotifyOrder
  <1>2. /\ phase' = [phase EXCEPT ![t] = "notified"] /\ st[ic[t]] # "IOERROR"
        /\ UNCHANGED <<disk, called, clsn, st, head>>
    <2>1. ic[t] \in Iclogs
      BY ProcsAre DEF Base, Threads, Notify, Held
    <2> QED BY <2>1 DEF Notify, io, ring, Base, AllDead, Dead, Shape, RingShape
  <1>3. Reg[t] = 0 /\ Reg' = [Reg EXCEPT ![t] = clsn[t]] /\ Reg'[t] = clsn[t]
    BY <1>1, <1>2 DEF Reg, Committed, Base, Shape, TxShape
  <1>4. Done' = Done /\ Dead' = Dead
    BY <1>2, Zenon DEF Notify, Done, Dead
  <1>5. Order!Attach(t, Reg'[t])
    BY <1>1, <1>2, <1>3, <1>4 DEF Order!Attach, Reg, Done
  <1> QED BY <1>5 DEF Order!Next, Reg

\* A write that ends is Write.
LEMMA OrderWrite ==
  ASSUME Base, Core, ~Dead, NEW c \in Cpus, NEW i \in Iclogs, IodoneOk(c, i)
  PROVE  [Order!Next]_(Order!vars)
  <1>1. /\ Reg' = Reg /\ Done' = Done /\ Dead' = Dead
    BY DEF IodoneOk, Reg, Done, Dead, ring, txv
  <1>2. disk' = disk \/ disk' = disk \cup {lsn[i]}
    BY DEF IodoneOk
  <1>3. CASE disk' = disk
    BY <1>1, <1>3 DEF Order!vars, Reg, Done
  <1>4. CASE disk' = disk \cup {lsn[i]} /\ lsn[i] \notin disk
    <2>1. Order!Write(lsn[i]) /\ lsn[i] \in disk'
      BY <1>1, <1>4 DEF Order!Write, Reg, Done
    <2> QED BY <2>1 DEF Order!Next
  <1> QED BY <1>2, <1>3, <1>4

\* A callback run on a live log is Complete: the records up to its own are on disk,
\* and the callbacks of earlier records have run.
LEMMA OrderComplete ==
  ASSUME Base, Core, OnePlace, InOrder, ~Dead, NEW p \in Procs, CbRun(p)
  PROVE  Order!Next
  <1>0. CallShape /\ CtxShape /\ RingOK /\ IoOK /\ TxShape
        /\ lsn \in [Iclogs -> Nat] /\ curr \in Nat /\ head \in Iclogs
    BY DEF Core, Alive, Base, Shape, RingShape
  <1> PICK j : j = ctx[p].cur
    OBVIOUS
  <1>1. /\ j \in Iclogs /\ st[j] = "CALLBACK" /\ lsn[j] \in 1 .. curr - 1 /\ Oldest(j) /\ pc[p] = "cbrun"
    BY LoopIs DEF InLoop, CbRun, InOrder
  <1> PICK t : t = Head(ctx[p].got)
    OBVIOUS
  <1>2. t \in Txs /\ Running(t, p)
    <2>1. ctx[p].got \in Seq(Txs) /\ ctx[p].got # <<>>
      BY <1>0, <1>1 DEF CtxShape, Ctx, Base, Threads
    <2> QED BY <2>1, Taken DEF OnePlace, Running
  <1>3. t \in Committed /\ t \notin Calls /\ clsn[t] = lsn[j] /\ Reg[t] = lsn[j]
    BY <1>1, <1>2 DEF OnePlace, Running, InOrder, Reg, Committed
  <1>4. /\ called' = Append(called, [tx |-> t, ab |-> ctx[p].ab]) /\ ~ctx[p].ab
        /\ Reg' = Reg /\ Dead' = Dead /\ disk' = disk
    BY DEF CbRun, ring, txv, io, Reg, Dead, Base, AllDead
  <1>5. Done' = Done \cup {t} /\ Done = Calls
    <2> DEFINE e == [tx |-> t, ab |-> ctx[p].ab]
    <2>1. called \in Seq([tx : Txs, ab : BOOLEAN]) /\ called' = Append(called, e) /\ e.tx = t /\ ~e.ab
      BY <1>0, <1>4 DEF CallShape
    <2> HIDE DEF e
    <2>2. /\ DOMAIN called' = DOMAIN called \cup {Len(called) + 1} /\ called'[Len(called) + 1] = e
          /\ \A k \in DOMAIN called : called'[k] = called[k]
      BY <2>1
    <2>3. \A k \in DOMAIN called : ~called[k].ab
      BY DEF Base, AllDead
    <2> QED BY <2>1, <2>2, <2>3 DEF Done, Calls
  <1>6. 1 .. Reg[t] \subseteq disk
    <2>1. Durable(lsn[j])
      <3> PICK s : s = st
        OBVIOUS
      <3> PICK l \in [Iclogs -> Nat] : l = lsn
        BY <1>0
      <3> PICK o : o = off
        OBVIOUS
      <3>1. RingIn(s, l, o) /\ IoIn(s, l)
        BY AliveIs DEF Core
      <3> QED BY <1>0, <1>1, <3>1, OldestDurable DEF Oldest, Written
    <2> QED BY <1>3, <2>1 DEF Durable
  <1>7. \A u \in Txs : Reg[u] \in 1 .. Reg[t] - 1 => u \in Done
    <2> SUFFICES ASSUME NEW u \in Txs, Reg[u] \in 1 .. lsn[j] - 1, u \notin Calls PROVE FALSE
      BY <1>3, <1>5
    <2>1. u \in Committed /\ clsn[u] < lsn[j] /\ clsn[u] > 0
      BY <1>0, <1>1 DEF Reg, Committed
    <2>2. CASE \E i \in Iclogs : Waiting(u, i)
      <3> PICK i \in Iclogs : Waiting(u, i)
        BY <2>2
      <3>1. clsn[u] = lsn[i] /\ lsn[i] # 0 /\ st[i] # "DIRTY"
        BY EmptyIs DEF InOrder, Waiting
      <3>2. CASE st[i] = "ACTIVE"
        <4>1. lsn[i] = curr
          BY <1>0, <3>1, <3>2 DEF RingOK
        <4> QED BY <1>0, <1>1, <2>1, <3>1, <4>1
      <3>3. CASE st[i] # "ACTIVE"
        <4>1. lsn[j] <= lsn[i]
          BY <1>1, <3>1, <3>3 DEF Oldest, Loose
        <4> QED BY <1>0, <1>1, <2>1, <3>1, <4>1
      <3> QED BY <3>2, <3>3
    <2>3. CASE \E q \in Procs : Running(u, q)
      <3> PICK q \in Procs : Running(u, q)
        BY <2>3
      <3>1. pc[q] \in InLoop /\ clsn[u] = lsn[ctx[q].cur]
        BY EmptyIs DEF InOrder, Running, InLoop
      <3>2. st[ctx[q].cur] = "CALLBACK" /\ ctx[q].cur \in Iclogs
        BY <3>1, LoopIs
      <3>3. lsn[j] <= lsn[ctx[q].cur]
        BY <1>1, <3>2 DEF Oldest, Loose
      <3> QED BY <1>0, <1>1, <2>1, <3>1, <3>2, <3>3
    <2> QED BY <2>1, <2>2, <2>3 DEF InOrder
  <1>8. Order!Complete(t)
    <2>1. ~Dead /\ Reg[t] > 0 /\ t \notin Done
      BY <1>0, <1>1, <1>3, <1>5
    <2> QED BY <1>4, <1>5, <1>6, <1>7, <2>1 DEF Order!Complete, Reg, Done
  <1> QED BY <1>2, <1>8 DEF Order!Next

\* Every step of the iclogs is a step of the order promised, or none.
LEMMA OrderStep ==
  ASSUME Base, Base', Core, OnePlace, Dead \/ InOrder, [Next]_vars
  PROVE  [Order!Next]_(Order!vars)
  <1>1. CASE Dead
    <2>1. Dead'
      BY <1>1, DeadStays
    <2>2. Order!Dead
      BY <1>1, <2>1 DEF Order!Dead
    <2> QED BY <2>2 DEF Order!Next
  <1>2. CASE ~Dead
    BY <1>2, SilentIs, OrderSilent, OrderAttach, OrderWrite, OrderComplete
  <1> QED BY <1>1, <1>2

\* A mounted log starts as XfsLogOrder does.
LEMMA OrderInit == ASSUME Init PROVE Order!Init
  <1>1. Reg = [t \in Txs |-> 0] /\ Done = {} /\ disk = {}
    BY DEF Init, Reg, Done
  <1>2. Dead = FALSE
    BY IclogAssumption DEF Init, Dead, Iclogs
  <1> QED BY <1>1, <1>2 DEF Order!Init, Reg, Done

\* While the log lives, its callbacks wait in the order of its records.
THEOREM OrderHolds == Spec => [](Dead \/ InOrder)
  <1>1. Init => Dead \/ InOrder
    BY InitOrder
  <1>2. Base /\ Base' /\ Core /\ OnePlace /\ (Dead \/ InOrder) /\ [Next]_vars => (Dead \/ InOrder)'
    BY NextOrder
  <1> QED BY <1>1, <1>2, BaseHolds, RingCorrect, PlacesHold, PTL DEF Spec

\* The ring of iclogs implements XfsLogOrder: whatever the order in which the writes
\* end and the threads scan the ring, commit callbacks run in the order of the log,
\* each once, and only when the log is on disk up to their record.
THEOREM CallbacksRefineTheOrder == Spec => CallbacksFollowTheLog
  <1>1. Init => Order!Init
    BY OrderInit
  <1>2. Base /\ Base' /\ Core /\ OnePlace /\ (Dead \/ InOrder) /\ [Next]_vars => [Order!Next]_(Order!vars)
    BY OrderStep
  <1> QED BY <1>1, <1>2, BaseHolds, RingCorrect, PlacesHold, OrderHolds, PTL
          DEF Spec, CallbacksFollowTheLog, Order!Spec

\* all a log force of record l waits for
Forced(l) == Durable(l) /\ \A t \in Committed : clsn[t] <= l => t \in Calls

\* l is a record that is closed, or the one being filled
Reached(l) == l < curr \/ (l = curr /\ st[head] = "ACTIVE" /\ lsn[head] = curr)

\* iclog i is on its way to disk with record l, or has callbacks to run
Pending(i, l) == lsn[i] = l /\ st[i] \notin Loose

\* What has been forced stays so: a later callback belongs to a later record.
LEMMA ForcedStays ==
  ASSUME Base, Base', Core, OnePlace, Dead \/ InOrder, [Next]_vars, NEW l \in Nat, Forced(l)
  PROVE  Forced(l)'
  <1>0. TxShape /\ CallShape
    BY DEF Base, Shape
  <1>1. CASE Silent
    BY <1>1 DEF Silent, Forced, Durable, Committed, Calls
  <1>2. CASE \E p \in Procs : CbRun(p)
    <2> PICK p \in Procs : CbRun(p)
      BY <1>2
    <2>1. PICK e : called' = Append(called, e)
      BY DEF CbRun
    <2>2. Calls \subseteq Calls'
      <3>1. called \in Seq([tx : Txs, ab : BOOLEAN])
        BY <1>0 DEF CallShape
      <3>2. DOMAIN called \subseteq DOMAIN called' /\ \A k \in DOMAIN called : called'[k] = called[k]
        BY <2>1, <3>1
      <3> QED BY <3>2 DEF Calls
    <2>3. UNCHANGED <<disk, clsn, Committed>>
      BY DEF CbRun, io, txv, Committed
    <2> QED BY <2>2, <2>3 DEF Forced, Durable
  <1>3. CASE \E c \in Cpus, i \in Iclogs : IodoneOk(c, i)
    <2>1. disk \subseteq disk' /\ UNCHANGED <<clsn, Committed, Calls>>
      BY <1>3 DEF IodoneOk, txv, Committed, Calls
    <2> QED BY <2>1 DEF Forced, Durable
  <1>4. CASE \E t \in Txs : Notify(t)
    <2> PICK t \in Txs : Notify(t)
      BY <1>4
    <2>1. /\ UNCHANGED <<disk, clsn>> /\ Committed' = Committed \cup {t}
      BY <1>0 DEF Notify, io, TxShape, Committed
    <2>2. CASE Dead
      <3>1. ic[t] \in Iclogs
        BY ProcsAre DEF Base, Threads, Notify, Held
      <3>2. called' = Append(called, [tx |-> t, ab |-> TRUE])
        BY <2>2, <3>1 DEF Notify, Base, AllDead, Dead, Shape, RingShape
      <3> DEFINE e == [tx |-> t, ab |-> TRUE]
      <3>3. called \in Seq([tx : Txs, ab : BOOLEAN]) /\ called' = Append(called, e) /\ e.tx = t
        BY <1>0, <3>2 DEF CallShape
      <3> HIDE DEF e
      <3>4. /\ DOMAIN called' = DOMAIN called \cup {Len(called) + 1} /\ called'[Len(called) + 1] = e
            /\ \A k \in DOMAIN called : called'[k] = called[k]
        BY <3>3
      <3>5. Calls' = Calls \cup {t}
        BY <3>3, <3>4 DEF Calls
      <3> QED BY <2>1, <3>5 DEF Forced, Durable
    <2>3. CASE ~Dead
      <3>1. /\ clsn[t] \notin disk /\ clsn[t] > 0
        BY <2>3, NotifyOrder
      <3>2. clsn[t] \in Nat
        BY <1>0 DEF TxShape
      <3>3. ~(clsn[t] <= l)
        BY <3>1, <3>2 DEF Forced, Durable
      <3>4. UNCHANGED Calls
        <4>1. ic[t] \in Iclogs
          BY ProcsAre DEF Base, Threads, Notify, Held
        <4>2. st[ic[t]] # "IOERROR"
          BY <2>3, <4>1 DEF Base, AllDead, Dead, Shape, RingShape
        <4>3. called' = called
          BY <4>2 DEF Notify
        <4> QED BY <4>3 DEF Calls
      <3> QED BY <2>1, <3>3, <3>4 DEF Forced, Durable
    <2> QED BY <2>2, <2>3
  <1> QED BY <1>1, <1>2, <1>3, <1>4, SilentIs

\* When the callbacks of the oldest iclog have run, its record is forced.
LEMMA FinishedForced ==
  ASSUME Base, Core, OnePlace, InOrder, ~Dead, NEW p \in Procs, pc[p] = "cbgrab", cbs[ctx[p].cur] = <<>>
  PROVE  Forced(lsn[ctx[p].cur])
  <1>0. CallShape /\ CtxShape /\ RingOK /\ TxShape
        /\ lsn \in [Iclogs -> Nat] /\ curr \in Nat /\ head \in Iclogs
    BY DEF Core, Alive, Base, Shape, RingShape
  <1> PICK j : j = ctx[p].cur
    OBVIOUS
  <1>1. j \in Iclogs /\ st[j] = "CALLBACK" /\ lsn[j] \in 1 .. curr - 1 /\ Oldest(j)
    BY LoopIs DEF InLoop, InOrder
  <1>2. Durable(lsn[j])
    <2> PICK s : s = st
      OBVIOUS
    <2> PICK l \in [Iclogs -> Nat] : l = lsn
      BY <1>0
    <2> PICK o : o = off
      OBVIOUS
    <2>1. RingIn(s, l, o) /\ IoIn(s, l)
      BY AliveIs DEF Core
    <2> QED BY <1>0, <1>1, <2>1, OldestDurable DEF Oldest, Written
  <1>3. ASSUME NEW t \in Committed, clsn[t] <= lsn[j], t \notin Calls PROVE FALSE
    <2>0. t \in Txs /\ clsn[t] \in Nat /\ lsn[j] \in Nat
      BY <1>0, <1>1 DEF Committed, TxShape
    <2>1. CASE \E i \in Iclogs : Waiting(t, i)
      <3> PICK i \in Iclogs : Waiting(t, i)
        BY <2>1
      <3>1. clsn[t] = lsn[i] /\ lsn[i] # 0 /\ st[i] # "DIRTY" /\ i # j
        BY <2>0, EmptyIs DEF InOrder, Waiting
      <3>2. CASE st[i] = "ACTIVE"
        <4>1. lsn[i] = curr
          BY <1>0, <3>1, <3>2 DEF RingOK
        <4> QED BY <1>0, <1>1, <1>3, <3>1, <4>1
      <3>3. CASE st[i] # "ACTIVE"
        <4>1. lsn[j] <= lsn[i]
          BY <1>1, <3>1, <3>3 DEF Oldest, Loose
        <4>2. lsn[j] = lsn[i]
          BY <1>3, <2>0, <3>1, <4>1
        <4> QED BY <1>0, <1>1, <3>1, <4>2 DEF RingOK
      <3> QED BY <3>2, <3>3
    <2>2. CASE \E q \in Procs : Running(t, q)
      <3> PICK q \in Procs : Running(t, q)
        BY <2>2
      <3>1. pc[q] = "cbrun" /\ clsn[t] = lsn[ctx[q].cur]
        BY <2>0, EmptyIs DEF InOrder, Running
      <3>2. /\ ctx[q].cur \in Iclogs /\ st[ctx[q].cur] = "CALLBACK" /\ ctx[q].cur # j
        BY <3>1, LoopIs DEF InLoop
      <3>3. lsn[j] <= lsn[ctx[q].cur]
        BY <1>1, <3>2 DEF Oldest, Loose
      <3>4. lsn[j] = lsn[ctx[q].cur]
        BY <1>3, <2>0, <3>1, <3>3
      <3> QED BY <1>0, <1>1, <3>2, <3>4 DEF RingOK
    <2> QED BY <1>3, <2>1, <2>2 DEF InOrder
  <1> QED BY <1>2, <1>3 DEF Forced

\* What the records of a live ring do in a step: none is reached no more, and one
\* that was on its way to disk still is unless all a force waits for has been done.
Moves ==
  /\ \A l \in Nat : Reached(l) => Reached(l)'
  /\ \A i \in Iclogs, l \in Nat : Pending(i, l) => Pending(i, l)' \/ Forced(l)
  /\ \/ UNCHANGED curr
     \/ curr' = curr + 1 /\ \E i \in Iclogs : lsn'[i] = curr /\ st'[i] \notin Loose
  /\ \A t \in Txs : clsn'[t] = clsn[t] \/ Reached(clsn[t])'

\* What a plain step does to the records on the ring.
LEMMA PlainMoves ==
  ASSUME Base, Core, ~Dead, NEW p \in Procs, Plain(p)
  PROVE  Moves
  <1>0. head \in Iclogs /\ curr \in Nat \ {0}
    BY DEF Base, Shape, RingShape
  <1>1. \A i \in Iclogs : st[i] \notin Loose => lsn'[i] = lsn[i] /\ st'[i] \notin Loose
    BY <1>0 DEF Plain, Loose
  <1>2. CASE UNCHANGED <<head, curr>>
    <2>1. st[head] = "ACTIVE" /\ lsn[head] = curr => st'[head] = "ACTIVE" /\ lsn'[head] = curr
      BY <1>0, <1>2 DEF Plain, Loose
    <2>2. \A t \in Txs : clsn'[t] = clsn[t] \/ Reached(clsn[t])'
      BY <1>0, <1>2 DEF Plain, Reached, Loose
    <2> QED BY <1>1, <1>2, <2>1, <2>2 DEF Moves, Reached, Pending
  <1>3. CASE curr' = curr + 1 /\ st'[head] \notin Loose /\ lsn'[head] = curr
    <2>1. \A l \in Nat : Reached(l) => l < curr'
      BY <1>0, <1>3 DEF Reached
    <2>2. \A t \in Txs : clsn'[t] = clsn[t] \/ Reached(clsn[t])'
      BY <1>0, <1>3 DEF Plain, Reached
    <2> QED BY <1>0, <1>1, <1>3, <2>1, <2>2 DEF Moves, Reached, Pending
  <1> QED BY <1>2, <1>3 DEF Plain

\* A scan of xlog_state_do_callback drops no record that is not forced.
LEMMA ScanMoves ==
  ASSUME NEW s \in [Iclogs -> States], \A i \in Iclogs : s[i] # "IOERROR", lsn' \in [Iclogs -> Nat],
         NEW r, Scanned(s, lsn', r), st' = r.st, UNCHANGED <<head, curr, clsn>>, head \in Iclogs,
         \A i \in Iclogs : \/ s[i] = st[i] /\ lsn'[i] = lsn[i]
                           \/ st[i] = "DIRTY"
                           \/ st[i] = "CALLBACK" /\ Forced(lsn[i])
  PROVE  Moves
  <1>1. \A i \in Iclogs : r.st[i] = s[i] \/ (s[i] \in Written /\ r.st[i] \in Written)
    <2> PICK l \in [Iclogs -> Nat] : l = lsn'
      OBVIOUS
    <2>1. Scanned(s, l, r)
      OBVIOUS
    <2> QED BY <2>1, ScanOldest
  <1>2. \A i \in Iclogs : s[i] \notin Loose => st'[i] \notin Loose
    BY <1>1 DEF Written, Loose
  <1>3. \A l \in Nat : Reached(l) => Reached(l)'
    BY <1>1 DEF Reached, Written
  <1>4. \A i \in Iclogs, l \in Nat : Pending(i, l) => Pending(i, l)' \/ Forced(l)
    BY <1>2 DEF Pending, Loose
  <1> QED BY <1>3, <1>4 DEF Moves

\* What the steps that handle callbacks do to the records on the ring.
LEMMA CallbackMoves ==
  ASSUME Base, Base', Core, OnePlace, InOrder, ~Dead, Callbacks
  PROVE  Moves
  <1>0. /\ CtxShape /\ st \in [Iclogs -> States] /\ lsn \in [Iclogs -> Nat] /\ lsn' \in [Iclogs -> Nat]
        /\ head \in Iclogs /\ \A i \in Iclogs : st[i] # "IOERROR"
    BY DEF Base, Shape, RingShape, AllDead, Dead
  <1>1. CASE UNCHANGED <<st, lsn, head, curr, clsn>>
    BY <1>1 DEF Moves, Reached, Pending
  <1>2. ASSUME NEW p \in Procs, CbStart(p) PROVE Moves
    <2> PICK r : r = Scan(ctx[p].ci, st, lsn, head, N, FALSE, FALSE)
      OBVIOUS
    <2>1. st' = r.st /\ UNCHANGED <<lsn, head, curr, clsn>>
      BY <1>2 DEF CbStart, Resume, txv
    <2>2. Scanned(st, lsn, r)
      <3>1. ctx[p].ci \in Iclogs \cup {None} /\ N \in Nat
        BY <1>0, IclogAssumption DEF CtxShape, Ctx
      <3> QED BY <1>0, <3>1, ScanEffect
    <2> PICK s \in [Iclogs -> States] : s = st
      BY <1>0
    <2>3. Scanned(s, lsn', r)
      BY <2>1, <2>2
    <2> QED BY <1>0, <2>1, <2>3, ScanMoves
  <1>3. ASSUME NEW p \in Procs, CbFinish(p) PROVE Moves
    <2> PICK i : i = ctx[p].cur
      OBVIOUS
    <2> PICK up : up = ForceWaiters(i)
      OBVIOUS
    <2> PICK r : \E s \in [Iclogs -> States], err \in BOOLEAN :
               /\ Scanned(s, lsn', r) /\ Resume(p, r, err, up)
               /\ Emptied(s, i)
      BY <1>3, FinishScan
    <2> PICK s \in [Iclogs -> States], err \in BOOLEAN :
               /\ Scanned(s, lsn', r) /\ Resume(p, r, err, up)
               /\ Emptied(s, i)
      OBVIOUS
    <2>1. pc[p] = "cbgrab" /\ cbs[i] = <<>> /\ UNCHANGED <<head, curr, clsn>>
      BY <1>3 DEF CbFinish, txv
    <2>2. Forced(lsn[i]) /\ st[i] = "CALLBACK"
      BY <2>1, FinishedForced, LoopIs DEF InLoop
    <2>3. /\ \A j \in Iclogs : s[j] # "IOERROR"
          /\ \A j \in Iclogs : \/ s[j] = st[j] /\ lsn'[j] = lsn[j]
                               \/ st[j] = "DIRTY"
                               \/ st[j] = "CALLBACK" /\ Forced(lsn[j])
      BY <1>0, <2>2 DEF Emptied
    <2>4. st' = r.st
      BY DEF Resume
    <2> QED BY <1>0, <2>1, <2>3, <2>4, ScanMoves
  <1> QED BY <1>1, <1>2, <1>3 DEF Callbacks, Notify, CbGrab, CbRun, ring, txv

\* On a live ring records come one at a time and leave only when they are forced.
LEMMA NextMoves ==
  ASSUME Base, Base', Core, OnePlace, InOrder, ~Dead, ~Dead', [Next]_vars
  PROVE  Moves
  <1>1. CASE Next
    BY <1>1, PlainIs, PlainMoves, CallbackMoves DEF InOrder
  <1>2. CASE UNCHANGED vars
    BY <1>2 DEF vars, ring, txv, Moves, Reached, Pending
  <1> QED BY <1>1, <1>2

\* what a thread in _xfs_log_force keeps in mind, whatever happens to the ring
Sane(f) ==
  /\ pc[f] = "syncall" => want[f] = 0
  /\ want[f] # 0 => goal[f] = want[f]
  /\ f \in awake => pc[f] \in {"forcewait", "writewait"}

\* the record it wants exists; the iclog it holds or sleeps on has that record
\* until all it waits for is done, and it is not woken before
Seeks(f) ==
  want[f] # 0 =>
    /\ Reached(want[f])
    /\ pc[f] \in {"release", "sync", "released", "forcewait"} =>
         Forced(want[f]) \/ Pending(ic[f], want[f])
    /\ pc[f] = "forcewait" /\ f \in awake => Forced(want[f])

Answered(f) == pc[f] = "ok" /\ sync[f] /\ want[f] # 0 => Forced(goal[f])

\* no record is lost: a closed one is on its way to disk, or all is done
Tracked ==
  /\ \A t \in Txs : Reached(clsn[t])
  /\ \A n \in 1 .. curr - 1 : Forced(n) \/ \E i \in Iclogs : Pending(i, n)

Forces(f) == Sane(f) /\ Answered(f) /\ (Dead \/ Seeks(f))

Forcing == (Dead \/ Tracked) /\ \A f \in Forcers : Forces(f)

\* The sequence number a committed transaction holds is one the log has reached.
LEMMA TrackedStep ==
  ASSUME Base, Base', Core, OnePlace, InOrder, ~Dead, ~Dead', [Next]_vars, Tracked
  PROVE  Tracked'
  <1>0. /\ curr \in Nat \ {0} /\ curr' \in Nat
        /\ \A t \in Txs : clsn[t] \in Nat
    BY DEF Base, Shape, RingShape, TxShape
  <1>1. Moves
    BY NextMoves
  <1>2. \A l \in Nat : Forced(l) => Forced(l)'
    BY ForcedStays
  <1>3. \A t \in Txs : Reached(clsn[t])'
    <2> SUFFICES ASSUME NEW t \in Txs, clsn'[t] = clsn[t] PROVE Reached(clsn[t])'
      BY <1>1 DEF Moves
    <2> PICK l \in Nat : l = clsn[t]
      BY <1>0
    <2>1. Reached(l)'
      BY <1>1 DEF Moves, Tracked
    <2> QED BY <2>1 DEF Reached
  <1>4. ASSUME NEW n \in 1 .. curr' - 1 PROVE Forced(n)' \/ \E i \in Iclogs : Pending(i, n)'
    <2>1. CASE n \in 1 .. curr - 1
      BY <1>1, <1>2, <2>1 DEF Moves, Tracked
    <2>2. CASE n \notin 1 .. curr - 1
      <3>1. n = curr /\ \E i \in Iclogs : lsn'[i] = curr /\ st'[i] \notin Loose
        BY <1>0, <1>1, <2>2 DEF Moves
      <3> QED BY <3>1 DEF Pending
    <2> QED BY <2>1, <2>2
  <1> QED BY <1>3, <1>4 DEF Tracked

\* The step of another thread, as a thread f in _xfs_log_force sees it.
Still(f) ==
  /\ UNCHANGED <<pc[f], ic[f], want[f], goal[f], sync[f]>>
  /\ f \in awake' =>
       \/ f \in awake \/ pc[f] = "writewait"
       \/ pc[f] = "forcewait" /\ \E p \in Procs : CbFinish(p) /\ ctx[p].cur = ic[f]

\* Whatever the system does next, a thread in xfs_log_force stays where it is, is
\* woken, or takes a step of its own.
LEMMA ForcerMoves ==
  ASSUME Base, [Next]_vars, NEW f \in Forcers
  PROVE  \/ Still(f) \/ Release(f) \/ Sync(f) \/ CallbackStep(f) \/ ForceStep(f)
         \/ ForceReturns(f) \/ \E l \in Data, s \in BOOLEAN : LogForce(f, l, s)
  <1>0. /\ ThreadShape /\ f \in Procs /\ f \in Syncers /\ f \notin Txs /\ f \notin Cpus /\ f # Killer
        /\ want \in [Syncers -> Nat] /\ goal \in [Syncers -> Nat] /\ sync \in [Syncers -> BOOLEAN]
    BY ProcsAre, IclogAssumption DEF Base, Shape, ForceShape
  <1> USE DEF Goto, force, ThreadShape
  <1>1. ASSUME NEW t \in Txs, Start(t) \/ TxStep(t) PROVE Still(f)
    <2>1. /\ UNCHANGED <<want, goal, sync>> /\ awake' \subseteq awake
          /\ UNCHANGED <<pc[f], ic[f]>>
      BY <1>0, <1>1, ProcsAre DEF TxStep, Start, GetSpaceFails, GetSpaceWaits, GetSpaceNoRoom,
         GetSpace, FinishCopy,
                  WantSync, Notify, TxReleased, TxError, FlushWake
    <2> QED BY <2>1 DEF Still
  <1>2. ASSUME NEW p \in Txs \cup Syncers, Release(p) \/ Sync(p), p # f PROVE Still(f)
    BY <1>0, <1>2, ProcsAre DEF Still, Release, Sync
  <1>3. ASSUME NEW p \in Procs, CallbackStep(p), p # f PROVE Still(f)
    <2>1. UNCHANGED <<want, goal, sync>>
      BY <1>3 DEF CallbackStep, DoneSyncing, CbStart, CbLastSync, CbGrab, CbRun, CbFinish
    <2>2. CASE DoneSyncing(p)
      BY <1>0, <1>3, <2>1, <2>2 DEF Still, DoneSyncing, WriteWaiters
    <2>3. CASE CbStart(p)
      <3> PICK r : Resume(p, r, FALSE, {})
        BY <2>3 DEF CbStart
      <3> QED BY <1>0, <1>3, <2>1 DEF Still, Resume, FlushWaiters
    <2>4. CASE CbLastSync(p) \/ CbGrab(p) \/ CbRun(p)
      BY <1>0, <1>3, <2>1, <2>4 DEF Still, CbLastSync, CbGrab, CbRun
    <2>5. CASE CbFinish(p)
      <3> PICK i : i = ctx[p].cur
        OBVIOUS
      <3> PICK r : Resume(p, r, ctx[p].err, ForceWaiters(i))
        BY <2>5 DEF CbFinish
      <3>1. UNCHANGED <<pc[f], ic[f]>> /\ (f \in awake' => f \in awake \/ f \in ForceWaiters(i))
        BY <1>0, <1>3 DEF Resume, FlushWaiters
      <3> QED BY <2>1, <2>5, <3>1 DEF Still, ForceWaiters
    <2> QED BY <1>3, <2>2, <2>3, <2>4, <2>5 DEF CallbackStep
  <1>4. ASSUME NEW c \in Cpus, NEW i \in Iclogs, IodoneOk(c, i) \/ IodoneError(c, i) PROVE Still(f)
    BY <1>0, <1>4, ProcsAre DEF Still, IodoneOk, IodoneError
  <1>5. ASSUME NEW g \in Forcers, g # f, ForceReturns(g) \/ \E l \in Data, s \in BOOLEAN : LogForce(g, l, s)
        PROVE  Still(f)
    BY <1>0, <1>5, ProcsAre DEF Still, ForceReturns, LogForce
  <1>6. ASSUME NEW g \in Syncers, g # f, ForceStep(g) PROVE Still(f)
    BY <1>0, <1>6, ProcsAre
       DEF Still, ForceStep, SyncAll, SyncOne, ForceReleased, WriteWake, ForceWake, SleepOn, CloseAndRelease
  <1>7. ASSUME ForceUmountLogError \/ ForceUmount \/ ForceUmountSeal PROVE Still(f)
    BY <1>0, <1>7, ProcsAre DEF Still, ForceUmountLogError, ForceUmount, ForceUmountSeal
  <1>8. ASSUME UNCHANGED vars PROVE Still(f)
    BY <1>8 DEF Still, vars
  <1> QED BY <1>1, <1>2, <1>3, <1>4, <1>5, <1>6, <1>7, <1>8 DEF Next

\* What a force knows of its record outlives every step on a live ring.
LEMMA Carries ==
  ASSUME Base, Base', Core, OnePlace, InOrder, ~Dead, ~Dead', [Next]_vars
  PROVE  /\ \A l \in Nat : (Reached(l) => Reached(l)') /\ (Forced(l) => Forced(l)')
         /\ \A i \in Iclogs, l \in Nat : Forced(l) \/ Pending(i, l) => Forced(l)' \/ Pending(i, l)'
  <1>1. Moves
    BY NextMoves
  <1>2. \A l \in Nat : Forced(l) => Forced(l)'
    BY ForcedStays
  <1> QED BY <1>1, <1>2 DEF Moves

\* A force keeps what it knows while others move.
LEMMA StillStep ==
  ASSUME Base, Base', Core, OnePlace, Dead \/ InOrder, [Next]_vars, NEW f \in Forcers, Forces(f), Still(f)
  PROVE  Forces(f)'
  <1>0. want[f] \in Nat /\ goal[f] \in Nat /\ f \in Procs /\ sync[f] \in BOOLEAN
    BY ProcsAre DEF Base, Shape, ForceShape
  <1>1. Sane(f)'
    BY DEF Still, Sane, Forces
  <1>2. Answered(f)'
    <2> PICK n \in Nat : n = goal[f]
      BY <1>0
    <2>1. Forced(n) => Forced(n)'
      BY ForcedStays
    <2>2. goal'[f] = n
      BY DEF Still
    <2> QED BY <2>1, <2>2 DEF Still, Answered, Forces
  <1>3. ASSUME ~Dead' PROVE Seeks(f)'
    <2>0. ~Dead /\ InOrder
      BY <1>3, DeadStays
    <2> PICK n \in Nat : n = want[f]
      BY <1>0
    <2> PICK i : i = ic[f]
      OBVIOUS
    <2>1. UNCHANGED <<pc[f], ic[f], want[f]>>
      BY DEF Still
    <2>2. /\ Reached(n) => Reached(n)'
          /\ Forced(n) => Forced(n)'
          /\ i \in Iclogs /\ (Forced(n) \/ Pending(i, n)) => Forced(n)' \/ Pending(i, n)'
      BY <1>3, <2>0, Carries
    <2>3. pc[f] \in {"release", "sync", "released", "forcewait"} => i \in Iclogs
      BY <1>0 DEF Base, Threads, Held
    <2>4. ASSUME n # 0, pc[f] = "forcewait", f \in awake' PROVE Forced(n)
      <3>1. CASE f \in awake
        BY <2>0, <2>4, <3>1 DEF Seeks, Forces
      <3>2. CASE \E p \in Procs : CbFinish(p) /\ ctx[p].cur = i
        <4> PICK p \in Procs : CbFinish(p) /\ ctx[p].cur = i
          BY <3>2
        <4>1. pc[p] = "cbgrab" /\ cbs[ctx[p].cur] = <<>>
          BY DEF CbFinish
        <4>2. Forced(lsn[i])
          BY <2>0, <4>1, FinishedForced
        <4>3. Forced(n) \/ lsn[i] = n
          BY <2>0, <2>4 DEF Seeks, Pending, Forces
        <4> QED BY <4>2, <4>3
      <3> QED BY <2>4, <3>1, <3>2 DEF Still
    <2>5. n # 0 => /\ Reached(n)'
                   /\ pc[f] \in {"release", "sync", "released", "forcewait"} => Forced(n)' \/ Pending(i, n)'
                   /\ pc[f] = "forcewait" /\ f \in awake' => Forced(n)'
      BY <2>0, <2>2, <2>3, <2>4 DEF Seeks, Forces
    <2>6. want'[f] = n /\ ic'[f] = i /\ pc'[f] = pc[f]
      BY <2>1
    <2> QED BY <2>5, <2>6 DEF Seeks
  <1> QED BY <1>1, <1>2, <1>3 DEF Forces

\* f releases the iclog, writes it or goes through xlog_state_do_callback: it
\* keeps what it knows, and does not return.
LEMMA BusyStep ==
  ASSUME Base, Base', Core, OnePlace, Dead \/ InOrder, [Next]_vars, NEW f \in Forcers, Forces(f),
         Release(f) \/ Sync(f) \/ CallbackStep(f)
  PROVE  Forces(f)'
  <1>0. want[f] \in Nat /\ goal[f] \in Nat /\ f \in Procs /\ ThreadShape /\ CtxShape
    BY ProcsAre DEF Base, Shape, ForceShape
  <1>1. UNCHANGED <<want, goal, sync>>
    BY DEF Release, Sync, CallbackStep, DoneSyncing, CbStart, CbLastSync, CbGrab, CbRun, CbFinish, force
  <1>2. CASE Release(f) \/ Sync(f)
    <2>1. /\ pc[f] \in {"release", "sync"} /\ pc'[f] \in {"released", "sync", "eio", "donesync"}
          /\ UNCHANGED <<ic, awake>>
      BY <1>0, <1>2 DEF ThreadShape, Release, Sync, Goto
    <2>2. Sane(f)' /\ Answered(f)'
      BY <1>1, <2>1 DEF Sane, Answered, Forces
    <2>3. ASSUME ~Dead' PROVE Seeks(f)'
      <3>0. ~Dead /\ InOrder
        BY <2>3, DeadStays
      <3> PICK n \in Nat : n = want[f]
        BY <1>0
      <3> PICK i : i = ic[f]
        OBVIOUS
      <3>1. i \in Iclogs
        BY <1>0, <2>1 DEF Base, Threads, Held
      <3>2. n # 0 => Reached(n)' /\ (Forced(n)' \/ Pending(i, n)')
        BY <2>1, <2>3, <3>0, <3>1, Carries DEF Seeks, Forces
      <3>3. want'[f] = n /\ ic'[f] = i
        BY <1>1, <2>1
      <3> QED BY <2>1, <3>2, <3>3 DEF Seeks
    <2> QED BY <2>2, <2>3 DEF Forces
  <1>3. CASE CallbackStep(f)
    <2>1. pc[f] \in {"donesync", "cbstart", "lastsync", "cbgrab", "cbrun"}
      BY <1>3 DEF CallbackStep, DoneSyncing, CbStart, CbLastSync, CbGrab, CbRun, CbFinish
    <2>2. f \notin awake
      BY <2>1 DEF Sane, Forces
    <2>3. /\ pc'[f] \in {"idle", "eio", "donesync", "dead", "cbstart", "lastsync", "cbgrab", "cbrun"}
          /\ f \notin awake'
      <3>1. CASE DoneSyncing(f)
        BY <1>0, <2>2, <3>1 DEF ThreadShape, DoneSyncing, WriteWaiters, Goto
      <3>2. CASE CbLastSync(f) \/ CbGrab(f) \/ CbRun(f)
        BY <1>0, <2>2, <3>2 DEF ThreadShape, CbLastSync, CbGrab, CbRun, Goto
      <3>3. ASSUME NEW r, NEW err, NEW up, Resume(f, r, err, up), f \notin up PROVE <2>3
        <4>1. ctx[f].then \in {"idle", "eio", "donesync", "dead"}
          BY <1>0 DEF CtxShape, Ctx
        <4>2. f \notin FlushWaiters(r.st)
          BY <2>1 DEF FlushWaiters
        <4> QED BY <1>0, <2>2, <3>3, <4>1, <4>2 DEF ThreadShape, Resume
      <3>4. CASE CbStart(f)
        BY <3>3, <3>4 DEF CbStart
      <3>5. CASE CbFinish(f)
        <4> PICK i : i = ctx[f].cur
          OBVIOUS
        <4> PICK r : Resume(f, r, ctx[f].err, ForceWaiters(i))
          BY <3>5 DEF CbFinish
        <4>1. f \notin ForceWaiters(i)
          BY <2>1 DEF ForceWaiters
        <4> QED BY <3>3, <4>1
      <3> QED BY <1>3, <3>1, <3>2, <3>4, <3>5 DEF CallbackStep
    <2>4. Sane(f)' /\ Answered(f)'
      BY <1>1, <2>3 DEF Sane, Answered, Forces
    <2>5. ASSUME ~Dead', want[f] # 0 PROVE Reached(want[f])'
      <3> PICK n \in Nat : n = want[f]
        BY <1>0
      <3>1. ~Dead /\ InOrder
        BY <2>5, DeadStays
      <3>2. Reached(n)'
        BY <2>5, <3>1, Carries DEF Seeks, Forces
      <3>3. want'[f] = n
        BY <1>1
      <3> QED BY <3>2, <3>3
    <2> QED BY <1>1, <2>3, <2>4, <2>5 DEF Seeks, Forces
  <1> QED BY <1>2, <1>3

\* xlog_state_sync on a ring that is not dead: the record is forced if it returns
\* at once, and else the iclog it closes or sleeps on is the one with the record.
LEMMA SyncOneIs ==
  ASSUME Base, Core, ~Dead, Tracked, NEW f \in Forcers, Seeks(f), SyncOne(f)
  PROVE  /\ pc[f] = "syncone" /\ want[f] \in Nat \ {0}
         /\ pc'[f] = "ok" /\ sync[f] => Forced(want[f])
         /\ pc'[f] \in {"release", "forcewait"} =>
              ic'[f] \in Iclogs /\ lsn'[ic'[f]] = want[f] /\ st'[ic'[f]] \notin Loose
         /\ pc'[f] \in {"ok", "eio", "release", "forcewait", "writewait"}
         /\ UNCHANGED <<want, goal, sync, awake>>
  <1>0. /\ ThreadShape /\ RingShape /\ RingOK /\ f \in Procs /\ want[f] \in Nat /\ sync[f] \in BOOLEAN
        /\ head \in Iclogs /\ \A i \in Iclogs : st[i] # "IOERROR"
    BY ProcsAre DEF Base, Shape, ForceShape, RingShape, AllDead, Dead, Core, Alive
  <1>1. pc[f] = "syncone" /\ want[f] # 0
    BY ProcsAre DEF SyncOne, Base, Wants
  <1>2. UNCHANGED <<want, goal, sync, awake, lsn>>
    BY DEF SyncOne, force
  <1>3. Reached(want[f])
    BY <1>1 DEF Seeks
  <1> USE DEF Goto, ThreadShape
  <1>4. CASE /\ \A i \in Iclogs : lsn[i] = want[f] => st[i] = "DIRTY"
             /\ pc'[f] = "ok"
    <2>1. want[f] \in 1 .. curr - 1
      BY <1>0, <1>1, <1>3, <1>4 DEF Reached, RingShape
    <2>2. Forced(want[f])
      BY <1>4, <2>1 DEF Tracked, Pending, Loose
    <2> QED BY <1>0, <1>1, <1>2, <1>4, <2>2
  <1>5. ASSUME NEW i \in Iclogs, lsn[i] = want[f], st[i] \notin Loose, SleepOn(f, i), UNCHANGED st
        PROVE  \/ pc'[f] = "ok" /\ ~sync[f]
               \/ pc'[f] = "forcewait" /\ ic'[f] = i /\ st'[i] \notin Loose
    BY <1>0, <1>5 DEF SleepOn
  <1>6. ASSUME NEW i \in Iclogs, lsn[i] = want[f], st[i] = "ACTIVE", CloseAndRelease(f)
        PROVE  pc'[f] = "release" /\ ic'[f] = i /\ st'[i] \notin Loose
    <2>1. i = head
      BY <1>0, <1>1, <1>6 DEF RingOK
    <2> QED BY <1>0, <1>6, <2>1 DEF CloseAndRelease, SwitchIclogs, RingShape, Loose
  <1>7. \/ /\ \A i \in Iclogs : lsn[i] = want[f] => st[i] = "DIRTY"
           /\ pc'[f] = "ok"
        \/ pc'[f] = "writewait"
        \/ \E i \in Iclogs : lsn[i] = want[f] /\ st[i] \notin Loose /\ SleepOn(f, i) /\ UNCHANGED st
        \/ \E i \in Iclogs : lsn[i] = want[f] /\ st[i] = "ACTIVE" /\ CloseAndRelease(f)
    BY <1>0 DEF SyncOne, Loose
  <1>8. CASE \E i \in Iclogs : lsn[i] = want[f] /\ st[i] \notin Loose /\ SleepOn(f, i) /\ UNCHANGED st
    BY <1>0, <1>1, <1>2, <1>5, <1>8
  <1>9. CASE \E i \in Iclogs : lsn[i] = want[f] /\ st[i] = "ACTIVE" /\ CloseAndRelease(f)
    BY <1>0, <1>1, <1>2, <1>6, <1>9
  <1> QED BY <1>0, <1>1, <1>2, <1>4, <1>7, <1>8, <1>9

\* xlog_state_sync keeps to the record it was asked for.
LEMMA SyncOneStep ==
  ASSUME Base, Base', Core, OnePlace, Dead \/ InOrder, [Next]_vars, Dead \/ Tracked,
         NEW f \in Forcers, Forces(f), SyncOne(f)
  PROVE  Forces(f)'
  <1>0. ThreadShape /\ RingShape /\ head \in Iclogs /\ f \in Procs
        /\ want[f] \in Nat /\ goal[f] \in Nat /\ sync[f] \in BOOLEAN
    BY ProcsAre DEF Base, Shape, ForceShape, RingShape
  <1>1. CASE Dead
    <2>1. \A i \in Iclogs : st[i] = "IOERROR"
      BY <1>0, <1>1 DEF Base, AllDead, Dead
    <2>2. pc'[f] = "eio" /\ pc[f] = "syncone" /\ UNCHANGED <<want, goal, sync, awake>>
      BY <1>0, <1>1, <2>1 DEF SyncOne, Dead, ThreadShape, Goto, force
    <2>3. Dead'
      BY <1>1, DeadStays
    <2> QED BY <2>2, <2>3 DEF Forces, Sane, Answered
  <1>2. CASE ~Dead
    <2>0. Tracked /\ Seeks(f) /\ InOrder
      BY <1>2 DEF Forces
    <2> PICK n \in Nat : n = want[f]
      BY <1>0
    <2> PICK i : i = ic'[f]
      OBVIOUS
    <2>1. /\ pc[f] = "syncone" /\ n # 0
          /\ pc'[f] = "ok" /\ sync[f] => Forced(n)
          /\ pc'[f] \in {"release", "forcewait"} => i \in Iclogs /\ Pending(i, n)'
          /\ pc'[f] \in {"ok", "eio", "release", "forcewait", "writewait"}
          /\ UNCHANGED <<want, goal, sync, awake>>
      BY <1>2, <2>0, SyncOneIs DEF Pending
    <2>2. f \notin awake /\ goal[f] = n
      BY <2>1 DEF Forces, Sane
    <2>3. Forced(n) => Forced(n)'
      BY ForcedStays
    <2>4. ~Dead' => Reached(n)'
      BY <1>2, <2>0, <2>1, Carries DEF Seeks
    <2>5. want'[f] = n /\ goal'[f] = n /\ sync'[f] = sync[f] /\ f \notin awake' /\ ic'[f] = i
      BY <2>1, <2>2
    <2>6. Answered(f)'
      BY <2>1, <2>3, <2>5 DEF Answered
    <2> QED BY <2>1, <2>4, <2>5, <2>6 DEF Forces, Sane, Seeks
  <1> QED BY <1>1, <1>2

\* xlog_state_sync_all, and the return of a force, ask for no record.
LEMMA ForceAllStep ==
  ASSUME Base, NEW f \in Forcers, Forces(f), SyncAll(f) \/ ForceReturns(f)
  PROVE  Forces(f)'
  <1>0. ThreadShape /\ ForceShape /\ f \in Procs /\ f \in Syncers
    BY ProcsAre DEF Base, Shape
  <1>1. pc[f] \in {"syncall", "ok", "eio"} /\ f \notin awake' /\ want'[f] = 0
    BY <1>0 DEF Forces, Sane, SyncAll, ForceReturns, ForceShape
  <1>2. pc'[f] # "syncall" \/ want'[f] = 0
    BY <1>1
  <1> QED BY <1>1, <1>2 DEF Forces, Sane, Answered, Seeks

\* After the release xlog_state_sync sleeps on the iclog, or finds it reused: then
\* the record is forced.
LEMMA ForceReleasedStep ==
  ASSUME Base, Base', Core, OnePlace, Dead \/ InOrder, [Next]_vars, Dead \/ Tracked,
         NEW f \in Forcers, Forces(f), ForceReleased(f)
  PROVE  Forces(f)'
  <1>0. /\ ThreadShape /\ RingShape /\ head \in Iclogs /\ f \in Procs
        /\ want[f] \in Nat /\ goal[f] \in Nat /\ sync[f] \in BOOLEAN
    BY ProcsAre DEF Base, Shape, ForceShape, RingShape
  <1> PICK n \in Nat : n = want[f]
    BY <1>0
  <1> PICK i \in Iclogs : i = ic[f]
    BY <1>0 DEF Base, Threads, ForceReleased
  <1>1. /\ pc[f] = "released" /\ UNCHANGED <<want, goal, sync, awake, st, lsn>> /\ f \notin awake
        /\ pc'[f] \in {"ok", "eio", "forcewait"}
    BY <1>0 DEF Forces, Sane, ForceReleased, SleepOn, Goto, ThreadShape, ring, force
  <1>2. CASE n = 0
    BY <1>1, <1>2 DEF Forces, Sane, Answered, Seeks
  <1>3. CASE n # 0 /\ Dead
    <2>1. st[i] = "IOERROR"
      BY <1>0, <1>3 DEF Base, AllDead, Dead
    <2>2. pc'[f] = "eio" \/ (pc'[f] = "ok" /\ ~sync[f])
      BY <1>0, <1>3, <2>1 DEF ForceReleased, SleepOn, Goto, ThreadShape
    <2>3. Dead'
      BY <1>3, DeadStays
    <2> QED BY <1>1, <2>2, <2>3 DEF Forces, Sane, Answered
  <1>4. CASE n # 0 /\ ~Dead
    <2>0. InOrder /\ Seeks(f) /\ st[i] # "IOERROR" /\ goal[f] = n
      BY <1>0, <1>4 DEF Forces, Sane, Base, AllDead, Dead
    <2>1. Forced(n) \/ Pending(i, n)
      BY <1>1, <1>4, <2>0 DEF Seeks
    <2>2. \/ pc'[f] = "ok" /\ ~sync[f]
          \/ pc'[f] = "ok" /\ st[i] \in Loose
          \/ pc'[f] = "forcewait" /\ ic'[f] = i
      BY <1>0, <1>4, <2>0 DEF ForceReleased, SleepOn, Goto, ThreadShape, Loose
    <2>3. pc'[f] = "ok" /\ sync[f] => Forced(n)
      BY <2>1, <2>2 DEF Pending
    <2>4. Forced(n) => Forced(n)'
      BY ForcedStays
    <2>5. ~Dead' => Reached(n)' /\ (Forced(n)' \/ Pending(i, n)')
      BY <1>1, <1>4, <2>0, <2>1, Carries DEF Seeks
    <2>6. want'[f] = n /\ goal'[f] = n /\ sync'[f] = sync[f] /\ f \notin awake'
      BY <1>1, <2>0
    <2>7. Answered(f)'
      BY <2>3, <2>4, <2>6 DEF Answered
    <2>8. ~Dead' => Seeks(f)'
      BY <1>1, <2>2, <2>5, <2>6 DEF Seeks
    <2> QED BY <1>1, <2>6, <2>7, <2>8 DEF Forces, Sane
  <1> QED BY <1>2, <1>3, <1>4

\* A force woken from ic_forcesema, or from ic_writesema, goes on.
LEMMA WakeStep ==
  ASSUME Base, Base', Core, OnePlace, Dead \/ InOrder, [Next]_vars,
         NEW f \in Forcers, Forces(f), WriteWake(f) \/ ForceWake(f)
  PROVE  Forces(f)'
  <1>0. /\ ThreadShape /\ RingShape /\ head \in Iclogs /\ f \in Procs
        /\ want[f] \in Nat /\ goal[f] \in Nat /\ sync[f] \in BOOLEAN
    BY ProcsAre DEF Base, Shape, ForceShape, RingShape
  <1> PICK n \in Nat : n = want[f]
    BY <1>0
  <1>1. /\ UNCHANGED <<want, goal, sync>> /\ awake' = awake \ {f} /\ f \in awake
        /\ pc'[f] \in {"syncone", "ok", "eio"}
        /\ pc'[f] = "ok" => pc[f] = "forcewait" /\ st[ic[f]] # "IOERROR"
    BY <1>0 DEF WriteWake, ForceWake, Goto, ThreadShape, force
  <1>2. ~Dead' => Seeks(f)'
    <2> SUFFICES ASSUME ~Dead', n # 0 PROVE Reached(n)'
      BY <1>1 DEF Seeks
    <2>1. ~Dead /\ InOrder
      BY DeadStays
    <2> QED BY <2>1, Carries DEF Forces, Seeks
  <1>3. Answered(f)'
    <2> SUFFICES ASSUME pc'[f] = "ok", n # 0 PROVE Forced(n)' /\ goal'[f] = n
      BY <1>1 DEF Answered
    <2>1. ~Dead
      <3>1. pc[f] = "forcewait" /\ st[ic[f]] # "IOERROR" /\ ic[f] \in Iclogs
        BY <1>0, <1>1 DEF Base, Threads
      <3> QED BY <1>0, <3>1 DEF Base, AllDead, Dead
    <2>2. Forced(n) /\ goal[f] = n
      BY <1>1, <2>1 DEF Forces, Sane, Seeks
    <2>3. Forced(n)'
      BY <2>2, ForcedStays
    <2> QED BY <1>1, <2>2, <2>3
  <1> QED BY <1>1, <1>2, <1>3 DEF Forces, Sane

\* xfs_log_force is asked for a sequence number that the log has reached.
LEMMA LogForceStep ==
  ASSUME Base, Base', Core, OnePlace, Dead \/ InOrder, [Next]_vars, Dead \/ Tracked,
         NEW f \in Forcers, Forces(f), NEW l \in Data, NEW s \in BOOLEAN, LogForce(f, l, s)
  PROVE  Forces(f)'
  <1>0. /\ ThreadShape /\ ForceShape /\ TxShape /\ f \in Procs /\ f \in Syncers /\ curr \in Nat \ {0}
        /\ shut \in BOOLEAN
    BY ProcsAre DEF Base, Shape, RingShape, DiskShape
  <1>1. l \in Nat /\ (l = 0 \/ \E t \in Txs : l = clsn[t])
    BY <1>0 DEF Data, Committed, TxShape
  <1>2. /\ want'[f] = l /\ (l # 0 => goal'[f] = l) /\ f \notin awake'
        /\ pc'[f] \in {"eio", "syncall", "syncone"} /\ (pc'[f] = "syncall" => l = 0)
    BY <1>0 DEF LogForce, Forces, Sane, Goto, ThreadShape, ForceShape
  <1>3. ~Dead' => Reached(l)'
    <2> SUFFICES ASSUME ~Dead' PROVE Reached(l)'
      OBVIOUS
    <2>1. ~Dead /\ InOrder
      BY DeadStays
    <2>2. Reached(l)
      BY <1>0, <1>1, <2>1 DEF Tracked, Reached
    <2> QED BY <1>1, <2>1, <2>2, Carries
  <1> QED BY <1>2, <1>3 DEF Forces, Sane, Answered, Seeks

\* Every step keeps what the forces know.
LEMMA ForcingStep ==
  ASSUME Base, Base', Core, OnePlace, Dead \/ InOrder, [Next]_vars, Forcing
  PROVE  Forcing'
  <1>1. Dead' \/ Tracked'
    BY DeadStays, TrackedStep DEF Forcing
  <1>2. ASSUME NEW f \in Forcers PROVE Forces(f)'
    <2>1. Forces(f) /\ (Dead \/ Tracked)
      BY DEF Forcing
    <2> QED BY <2>1, ForcerMoves, StillStep, BusyStep, ForceAllStep, SyncOneStep, ForceReleasedStep,
               WakeStep, LogForceStep DEF ForceStep
  <1> QED BY <1>1, <1>2 DEF Forcing

\* Nobody forces at mount.
LEMMA ForcingInit == ASSUME Init PROVE Forcing
  <1>1. /\ \A f \in Forcers : pc[f] = "idle" /\ want[f] = 0
        /\ \A t \in Txs : clsn[t] = 0
        /\ curr = 1 /\ awake = {}
    BY ProcsAre DEF Init
  <1>2. Tracked
    BY <1>1 DEF Tracked, Reached
  <1> QED BY <1>1, <1>2 DEF Forcing, Forces, Sane, Seeks, Answered

\* The callbacks of an answered force have been run.
LEMMA ForcingIs == ASSUME Forcing PROVE ForceIsDurable
  <1>1. \A t : t \in Calls => CalledBack(t)
    BY DEF Calls, CalledBack
  <1> QED BY <1>1 DEF Forcing, Forces, Answered, Forced, ForceIsDurable

\* A synchronous xfs_log_force of a record that returns without an error has the log
\* on disk up to that record, and the callbacks of what it commits run.
THEOREM ForcesAreDurable == Spec => []ForceIsDurable
  <1>1. Init => Forcing
    BY ForcingInit
  <1>2. Base /\ Base' /\ Core /\ OnePlace /\ (Dead \/ InOrder) /\ [Next]_vars /\ Forcing => Forcing'
    BY ForcingStep
  <1>3. Forcing => ForceIsDurable
    BY ForcingIs
  <1> QED BY <1>1, <1>2, <1>3, BaseHolds, RingCorrect, PlacesHold, OrderHolds, PTL DEF Spec
=============================================================================
