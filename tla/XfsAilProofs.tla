----------------------------- MODULE XfsAilProofs -----------------------------
(***************************************************************************)
(* Proofs about XfsAil. Base, the shapes of the variables and the order of *)
(* the list, is inductive by itself. On top of it: who holds the lock of   *)
(* an item and who pins it (LockOK, PinOK); while the filesystem is not    *)
(* shut down, what of an inode is logged, flushed and on disk (ValueOK,    *)
(* AheadOK) and the log history of each item (HistoryOK); and what a walk  *)
(* has before it (WalkOK).                                                 *)
(***************************************************************************)
EXTENDS XfsAil, TLAPS, FiniteSetTheorems, SequenceTheorems, WellFoundedInduction

Steps == {"idle", "held", "writing", "logged", "committed", "done"}
Results == {"SUCCESS", "PUSHBUF", "PINNED", "LOCKED", NULL}
TxRec == [pc : Steps, item : Items \cup {NULL}, mod : SUBSET Fields, lsn : Nat, clsn : Nat,
          set : SUBSET Fields, val : Values]

\* a is in front of b on the list, or is b
Upfront(s, a, b) == Place(s, a) <= Place(s, b)
SortedBy(s, l) == \A a, b \in ToSet(s) : Upfront(s, a, b) => l[a] <= l[b]

\* the shapes of the variables
TxShape == /\ tx \in [Txs -> TxRec]
           /\ \A t \in Txs : tx[t].pc # "idle" => tx[t].item \in Items
ItemShape == /\ lock \in [Items -> Txs \cup {Push, NULL}] /\ pin \in [Items -> Int]
             /\ flushing \in [Items -> BOOLEAN] /\ flushLsn \in [Items -> Nat]
             /\ fields \in [Items -> SUBSET Fields] /\ last \in [Items -> SUBSET Fields]
             /\ val \in [Items -> Values] /\ sent \in [Items -> Values] /\ disk \in [Items -> Values]
PushRec == [pc : {"idle", "try", "push", "next", "end"}, lip : Items \cup {NULL}, lsn : Nat,
            target : Nat, pushed : Nat, result : Results, stuck : Nat, count : Nat,
            flush_log : BOOLEAN]
PushShape == /\ last_lsn \in Nat /\ aild \in PushRec
             /\ aild.pc \in {"try", "push"} => aild.lip \in Items
LogShape == curr \in Nat \ {0} /\ target \in Nat /\ shut \in BOOLEAN
ListShape == /\ ail \in Seq(Items) /\ IsInjective(ail)
             /\ li \in [Items -> Nat] /\ InAil = {i \in Items : li[i] # 0}
CursorShape == /\ cursor \in [Cursors -> Items \cup {NULL, Invalid}]
               /\ \A c \in Cursors : cursor[c] \in InAil \cup {NULL, Invalid}
WalkRec == [pc : {"idle", "walking", "end", "done"}, seen : SUBSET Items, must : SUBSET Items]
WalkShape == walk \in [Travs -> WalkRec]

Base == /\ LogShape /\ TxShape /\ ItemShape /\ PushShape /\ ListShape /\ AilSorted
        /\ CursorShape /\ WalkShape

\* the lock and the pins of an item
Pinned == {"writing", "logged", "committed"}
Pinners(i) == {t \in Txs : tx[t].item = i /\ tx[t].pc \in Pinned}

\* xfsaild holds the flush lock of i and has not handed it to its buffer
Held(i) == aild.pc = "push" /\ aild.lip = i /\ aild.result = "SUCCESS"
InFlight(i) == flushing[i] /\ ~Held(i)

LockOK == /\ \A t \in Txs : tx[t].pc \in {"held", "writing"} => lock[tx[t].item] = t
          /\ aild.pc = "push" => lock[aild.lip] = Push /\ aild.result \in {"SUCCESS", "PUSHBUF"}
          /\ \A i \in Items : Held(i) => flushing[i]
PinOK == \A i \in Items : /\ IsFiniteSet(Pinners(i)) /\ pin[i] = Cardinality(Pinners(i))
                          /\ Held(i) => Pinners(i) = {}

\* pointwise
Upto(v, w) == \A f \in Fields : v[f] <= w[f]

\* what is not logged as changed is in the buffer, and what is not in the buffer's
\* flush is on disk
ValueOf(i) ==
  /\ Upto(disk[i], sent[i]) /\ Upto(sent[i], val[i])
  /\ \A f \in Fields : f \notin fields[i] => sent[i][f] = val[i][f]
  /\ \A f \in Fields : f \notin last[i] => disk[i][f] = sent[i][f]
  /\ ~InFlight(i) => last[i] = {}
ValueOK == \A i \in Items : ValueOf(i)

\* what a transaction changed is not in the buffer before the record is on disk
AheadFor(t) ==
  LET i == tx[t].item IN
    /\ tx[t].pc \in {"held", "writing"} =>
         /\ \A f \in tx[t].mod : sent[i][f] < val[i][f]
         /\ \A f \in Fields : disk[i][f] < val[i][f] => f \in fields[i]
    /\ tx[t].pc = "writing" => tx[t].val = val[i] /\ tx[t].set = fields[i]
    /\ tx[t].pc = "logged" => \A f \in tx[t].mod : sent[i][f] < tx[t].val[f]
AheadOK == \A t \in Txs : AheadFor(t)

Logged == {"writing", "logged", "committed", "done"}
Over == {"committed", "done"}
LoggedFor(i) == {t \in Txs : tx[t].item = i /\ tx[t].pc \in Logged}
OverFor(i) == {t \in Txs : tx[t].item = i /\ tx[t].pc \in Over}

\* t was logged before u: u logs again what of t is not on disk
Before(t, u) ==
  /\ Upto(tx[t].val, tx[u].val) /\ tx[t].lsn <= tx[u].lsn
  /\ \A f \in tx[t].set : disk[tx[t].item][f] < tx[t].val[f] => f \in tx[u].set

\* the lsns of i and of its transactions are those of records written so far
Numbered(i) ==
  /\ flushLsn[i] < curr
  /\ \A t \in LoggedFor(i) : /\ tx[t].lsn \in 1 .. curr /\ Upto(tx[t].val, val[i])
                             /\ tx[t].pc # "writing" => tx[t].lsn <= tx[t].clsn
                             /\ tx[t].pc \in Over => tx[t].clsn < curr
Ordered(i) == \A t, u \in LoggedFor(i) : Before(t, u) \/ Before(u, t)

\* the lsn the AIL has for i is that of a transaction whose record is on disk
Backed(i) == li[i] # 0 => \E t \in OverFor(i) : tx[t].lsn = li[i]

\* a flush under way takes a change along, or the change was logged after it started
Newer(i) == InFlight(i) => \A t \in LoggedFor(i) :
                             \/ Upto(tx[t].val, sent[i])
                             \/ tx[t].lsn > flushLsn[i] /\ (tx[t].pc \in Over => li[i] > flushLsn[i])

\* what of t's change is not on disk yet, a record the AIL still holds the log for has
Covered(t, f) ==
  LET i == tx[t].item IN
    \/ disk[i][f] >= tx[t].val[f]
    \/ li[i] # 0 /\ \E u \in OverFor(i) : /\ f \in tx[u].set /\ tx[u].val[f] >= tx[t].val[f]
                                          /\ tx[u].lsn >= li[i]
Recoverable(i) == \A t \in OverFor(i) : \A f \in tx[t].set : Covered(t, f)

History(i) == Numbered(i) /\ Ordered(i) /\ Backed(i) /\ Newer(i) /\ Recoverable(i)
HistoryOK == \A i \in Items : History(i)

\* a walker still has before it what it has to see
AheadOf(w) == \A i \in walk[w].must \ walk[w].seen :
                 cursor[w] \in Items => Upfront(ail, cursor[w], i)
WalkOK ==
  \A w \in Travs : walk[w].pc \in {"walking", "end"} =>
    /\ walk[w].must \subseteq InAil
    /\ cursor[w] = NULL \/ walk[w].pc = "end" => walk[w].must \subseteq walk[w].seen
    /\ walk[w].pc = "walking" => AheadOf(w)

\* On a list that holds each item once an item is where it is found.
LEMMA PlaceIs ==
  ASSUME NEW s, IsInjective(s), NEW k \in DOMAIN s
  PROVE  Place(s, s[k]) = k
  BY DEF Place, IsInjective

\* An item of the list has a place.
LEMMA PlaceOf ==
  ASSUME NEW s, NEW i \in ToSet(s)
  PROVE  Place(s, i) \in DOMAIN s /\ s[Place(s, i)] = i
  BY DEF Place, ToSet

\* What a concatenation is.
LEMMA Concat ==
  ASSUME NEW T, NEW a \in Seq(T), NEW b \in Seq(T), NEW r, r = a \o b
  PROVE  /\ r \in Seq(T) /\ Len(r) = Len(a) + Len(b)
         /\ \A k \in 1 .. Len(a) + Len(b) : r[k] = IF k <= Len(a) THEN a[k] ELSE b[k - Len(a)]
  BY ConcatProperties, Zenon

\* Two lists with the same order.
LEMMA UnlinkAt ==
  ASSUME NEW T, NEW s \in Seq(T), NEW p \in DOMAIN s, NEW r, r = RemoveAt(s, p)
  PROVE  /\ r \in Seq(T) /\ Len(r) = Len(s) - 1
         /\ \A k \in DOMAIN r : r[k] = IF k < p THEN s[k] ELSE s[k + 1]
  <1>0. Len(s) \in Nat /\ DOMAIN s = 1 .. Len(s) /\ p \in 1 .. Len(s)
    OBVIOUS
  <1> DEFINE a == SubSeq(s, 1, p - 1)
             b == SubSeq(s, p + 1, Len(s))
  <1>1. a \in Seq(T) /\ Len(a) = p - 1 /\ \A k \in 1 .. p - 1 : a[k] = s[k]
    BY <1>0, SubSeqProperties
  <1>2. b \in Seq(T) /\ Len(b) = Len(s) - p /\ \A k \in 1 .. Len(s) - p : b[k] = s[k + p]
    BY <1>0, SubSeqProperties
  <1>3. r = a \o b
    BY DEF RemoveAt
  <1> HIDE DEF a, b
  <1>4. /\ r \in Seq(T) /\ Len(r) = Len(s) - 1
        /\ \A k \in 1 .. Len(s) - 1 : r[k] = IF k <= p - 1 THEN a[k] ELSE b[k - (p - 1)]
    <2>1. /\ r \in Seq(T) /\ Len(r) = Len(a) + Len(b)
          /\ \A k \in 1 .. Len(a) + Len(b) : r[k] = IF k <= Len(a) THEN a[k] ELSE b[k - Len(a)]
      <3>1. a \in Seq(T) /\ b \in Seq(T)
        BY <1>1, <1>2, <1>3
      <3> QED BY <1>3, <3>1, Concat
    <2>2. Len(a) = p - 1 /\ Len(a) + Len(b) = Len(s) - 1
      BY <1>0, <1>1, <1>2
    <2> QED BY <2>1, <2>2
  <1>5. \A k \in 1 .. Len(s) - 1 : r[k] = IF k < p THEN s[k] ELSE s[k + 1]
    <2> SUFFICES ASSUME NEW k \in 1 .. Len(s) - 1 PROVE r[k] = IF k < p THEN s[k] ELSE s[k + 1]
      OBVIOUS
    <2>1. CASE k < p
      BY <1>0, <1>1, <1>4, <2>1
    <2>2. CASE k >= p
      <3>1. k - (p - 1) \in 1 .. Len(s) - p /\ k - (p - 1) + p = k + 1
        BY <1>0, <2>2
      <3>2. b[k - (p - 1)] = s[k + 1]
        BY <1>2, <3>1
      <3>3. ~(k <= p - 1) /\ ~(k < p)
        BY <1>0, <2>2
      <3> QED BY <1>4, <3>2, <3>3
    <2> QED BY <1>0, <2>1, <2>2
  <1>6. DOMAIN r = 1 .. Len(s) - 1
    BY <1>4
  <1> QED BY <1>4, <1>5, <1>6

\* What InsertAt does.
LEMMA InsertedAt ==
  ASSUME NEW T, NEW s \in Seq(T), NEW p \in 1 .. Len(s) + 1, NEW e \in T, NEW r, r = InsertAt(s, p, e)
  PROVE  /\ r \in Seq(T) /\ Len(r) = Len(s) + 1
         /\ \A k \in DOMAIN r : r[k] = IF k < p THEN s[k] ELSE IF k = p THEN e ELSE s[k - 1]
  <1>0. Len(s) \in Nat /\ DOMAIN s = 1 .. Len(s) /\ p \in Nat
    OBVIOUS
  <1> DEFINE a == SubSeq(s, 1, p - 1)
             b == SubSeq(s, p, Len(s))
             c == a \o <<e>>
  <1>1. a \in Seq(T) /\ Len(a) = p - 1 /\ \A k \in 1 .. p - 1 : a[k] = s[k]
    BY <1>0, SubSeqProperties
  <1>2. b \in Seq(T) /\ Len(b) = Len(s) - p + 1 /\ \A k \in 1 .. Len(s) - p + 1 : b[k] = s[k + p - 1]
    BY <1>0, SubSeqProperties
  <1>3. r = c \o b
    BY DEF InsertAt
  <1>4. <<e>> \in Seq(T) /\ Len(<<e>>) = 1 /\ <<e>>[1] = e
    OBVIOUS
  <1> HIDE DEF a, b
  <1>5. /\ c \in Seq(T) /\ Len(c) = p
        /\ \A k \in 1 .. p : c[k] = IF k <= p - 1 THEN a[k] ELSE <<e>>[k - (p - 1)]
    BY <1>0, <1>1, <1>4, Concat
  <1> HIDE DEF c
  <1>6. /\ r \in Seq(T) /\ Len(r) = Len(s) + 1
        /\ \A k \in 1 .. Len(s) + 1 : r[k] = IF k <= p THEN c[k] ELSE b[k - p]
    <2>1. /\ r \in Seq(T) /\ Len(r) = Len(c) + Len(b)
          /\ \A k \in 1 .. Len(c) + Len(b) : r[k] = IF k <= Len(c) THEN c[k] ELSE b[k - Len(c)]
      <3>1. c \in Seq(T) /\ b \in Seq(T)
        BY <1>2, <1>5
      <3> QED BY <1>3, <3>1, Concat
    <2>2. Len(c) = p /\ Len(c) + Len(b) = Len(s) + 1
      BY <1>0, <1>2, <1>5
    <2> QED BY <2>1, <2>2
  <1>7. \A k \in 1 .. Len(s) + 1 : r[k] = IF k < p THEN s[k] ELSE IF k = p THEN e ELSE s[k - 1]
    <2> SUFFICES ASSUME NEW k \in 1 .. Len(s) + 1
                 PROVE  r[k] = IF k < p THEN s[k] ELSE IF k = p THEN e ELSE s[k - 1]
      OBVIOUS
    <2>1. CASE k < p
      <3>1. k \in 1 .. p - 1 /\ k <= p
        BY <1>0, <2>1
      <3>2. c[k] = a[k]
        BY <1>5, <3>1
      <3> QED BY <1>1, <1>6, <2>1, <3>1, <3>2
    <2>2. CASE k = p
      BY <1>0, <1>4, <1>5, <1>6, <2>2
    <2>3. CASE k > p
      <3>1. k - p \in 1 .. Len(s) - p + 1 /\ (k - p) + p - 1 = k - 1
        BY <1>0, <2>3
      <3>2. b[k - p] = s[k - 1]
        BY <1>2, <3>1
      <3>3. ~(k <= p) /\ ~(k < p) /\ k # p
        BY <1>0, <2>3
      <3> QED BY <1>6, <3>2, <3>3
    <2> QED BY <1>0, <2>1, <2>2, <2>3
  <1>8. DOMAIN r = 1 .. Len(s) + 1
    BY <1>6
  <1> QED BY <1>6, <1>7, <1>8

\* A set of naturals that is not empty has a minimum.
LEMMA MinExists ==
  ASSUME NEW S, S \subseteq Nat, S # {}
  PROVE  Min(S) \in S /\ \A y \in S : Min(S) <= y
  <1> DEFINE R == OpToRel(<, Nat)
  <1>1. IsWellFoundedOn(R, Nat)
    BY NatLessThanWellFounded
  <1>2. \E x \in S : \A y \in S : <<y, x>> \notin R
    <2> HIDE DEF R
    <2> QED BY <1>1, WFMin
  <1>3. \E x \in S : \A y \in S : x <= y
    <2>1. R = {ss \in Nat \X Nat : ss[1] < ss[2]}
      BY Zenon DEF OpToRel
    <2>2. ASSUME NEW x \in S, NEW y \in S, <<y, x>> \notin R PROVE x <= y
      <3> HIDE DEF R
      <3> QED BY <2>1, <2>2, SMT
    <2> HIDE DEF R
    <2> QED BY <1>2, <2>2
  <1> QED BY <1>3 DEF Min

\* A bounded set of naturals that is not empty has a maximum.
LEMMA MaxExists ==
  ASSUME NEW S, S \subseteq Nat, S # {}, NEW b \in Nat, \A y \in S : y <= b
  PROVE  Max(S) \in S /\ \A y \in S : Max(S) >= y
  <1> DEFINE T == {x \in 0 .. b : b - x \in S}
  <1>1. PICK y \in S : TRUE
    OBVIOUS
  <1>2. b - y \in 0 .. b /\ b - (b - y) = y /\ y \in Nat
    BY <1>1
  <1>3. b - y \in T
    OBVIOUS
  <1>4. T \subseteq Nat /\ T # {}
    <2>1. T \subseteq 0 .. b /\ 0 .. b \subseteq Nat
      OBVIOUS
    <2> HIDE DEF T
    <2> QED BY <1>3, <2>1
  <1>5. Min(T) \in T /\ \A x \in T : Min(T) <= x
    <2> HIDE DEF T
    <2> QED BY <1>4, MinExists
  <1>6. \A z \in S : b - z \in T
    <2> SUFFICES ASSUME NEW z \in S PROVE b - z \in T
      OBVIOUS
    <2>1. z \in Nat /\ z <= b
      OBVIOUS
    <2>2. b - (b - z) = z /\ b - z \in 0 .. b
      OBVIOUS
    <2> QED OBVIOUS
  <1>7. b - Min(T) \in S /\ \A z \in S : b - Min(T) >= z
    <2>1. b - Min(T) \in S /\ Min(T) \in 0 .. b
      BY <1>5
    <2>2. ASSUME NEW z \in S PROVE b - Min(T) >= z
      <3>1. Min(T) <= b - z /\ z \in Nat
        BY <1>5
      <3> HIDE DEF T
      <3> QED BY <3>1, <2>1
    <2> QED BY <2>1, <2>2
  <1>8. \E m \in S : \A z \in S : m >= z
    BY <1>7
  <1> QED BY <1>8 DEF Max

\* A list is sorted by lsn in terms of its items as it is in terms of its places.
LEMMA SortedIs ==
  ASSUME NEW s \in Seq(Items), IsInjective(s), NEW l \in [Items -> Nat]
  PROVE  SortedBy(s, l) <=> \A j, k \in DOMAIN s : j < k => l[s[j]] <= l[s[k]]
  <1>0. DOMAIN s \subseteq Nat /\ \A k \in DOMAIN s : s[k] \in Items /\ s[k] \in ToSet(s)
    BY DEF ToSet
  <1>1. \A k \in DOMAIN s : Place(s, s[k]) = k
    BY PlaceIs
  <1>2. \A a \in ToSet(s) : Place(s, a) \in DOMAIN s /\ s[Place(s, a)] = a
    BY PlaceOf
  <1>3. ASSUME SortedBy(s, l), NEW j \in DOMAIN s, NEW k \in DOMAIN s, j < k
        PROVE  l[s[j]] <= l[s[k]]
    BY <1>0, <1>1, <1>3 DEF SortedBy, Upfront
  <1>4. ASSUME \A j, k \in DOMAIN s : j < k => l[s[j]] <= l[s[k]], NEW a \in ToSet(s), NEW b \in ToSet(s),
               Upfront(s, a, b)
        PROVE  l[a] <= l[b]
    <2>1. CASE Place(s, a) = Place(s, b)
      <3>1. a = b /\ a \in Items
        BY <1>0, <1>2, <2>1
      <3> QED BY <3>1
    <2>2. CASE Place(s, a) < Place(s, b)
      BY <1>2, <1>4, <2>2
    <2> QED BY <1>0, <1>2, <1>4, <2>1, <2>2 DEF Upfront
  <1> QED BY <1>3, <1>4 DEF SortedBy

\* xfs_ail_delete leaves the other items in their order.
LEMMA Unlinked ==
  ASSUME NEW s \in Seq(Items), IsInjective(s), NEW i \in ToSet(s), NEW r, r = Unlink(s, i)
  PROVE  /\ r \in Seq(Items) /\ IsInjective(r) /\ ToSet(r) = ToSet(s) \ {i}
         /\ \A a, b \in ToSet(r) : Upfront(r, a, b) <=> Upfront(s, a, b)
  <1> DEFINE p == Place(s, i)
  <1>1. p \in DOMAIN s /\ s[p] = i
    BY PlaceOf
  <1>2. /\ r \in Seq(Items) /\ Len(r) = Len(s) - 1
        /\ \A k \in DOMAIN r : r[k] = IF k < p THEN s[k] ELSE s[k + 1]
    BY <1>1, UnlinkAt DEF Unlink
  <1>3. DOMAIN s = 1 .. Len(s) /\ DOMAIN r = 1 .. Len(s) - 1 /\ Len(s) \in Nat
    BY <1>2
  <1> HIDE DEF p
  <1>4. \A j, k \in DOMAIN s : s[j] = s[k] => j = k
    BY DEF IsInjective
  <1> DEFINE old(k) == IF k < p THEN k ELSE k + 1
  <1>5. \A k \in DOMAIN r : old(k) \in DOMAIN s \ {p} /\ r[k] = s[old(k)]
    BY <1>1, <1>2, <1>3
  <1>6. \A j, k \in DOMAIN r : (old(j) <= old(k) <=> j <= k) /\ (old(j) = old(k) => j = k)
    BY <1>1, <1>3
  <1>7. \A k \in DOMAIN s \ {p} : \E j \in DOMAIN r : old(j) = k
    <2> SUFFICES ASSUME NEW k \in DOMAIN s \ {p} PROVE \E j \in DOMAIN r : old(j) = k
      OBVIOUS
    <2>1. CASE k < p
      BY <1>1, <1>3, <2>1
    <2>2. CASE k > p
      <3>1. k - 1 \in DOMAIN r /\ old(k - 1) = k
        BY <1>1, <1>3, <2>2
      <3> QED BY <3>1
    <2> QED BY <1>1, <1>3, <2>1, <2>2
  <1> HIDE DEF old
  <1>8. IsInjective(r)
    BY <1>4, <1>5, <1>6 DEF IsInjective
  <1>9. ToSet(r) = ToSet(s) \ {i}
    <2>1. ToSet(r) \subseteq ToSet(s) \ {i}
      BY <1>1, <1>4, <1>5 DEF ToSet
    <2>2. ASSUME NEW a \in ToSet(s) \ {i} PROVE a \in ToSet(r)
      <3>1. PICK k \in DOMAIN s : s[k] = a
        BY DEF ToSet
      <3>2. k # p
        BY <1>1, <3>1
      <3>3. PICK j \in DOMAIN r : old(j) = k
        BY <1>7, <3>2
      <3>4. r[j] = a
        BY <1>5, <3>1, <3>3
      <3> QED BY <3>4 DEF ToSet
    <2> QED BY <2>1, <2>2
  <1>10. ASSUME NEW a \in ToSet(r), NEW b \in ToSet(r) PROVE Upfront(r, a, b) <=> Upfront(s, a, b)
    <2>1. PICK j \in DOMAIN r, k \in DOMAIN r : r[j] = a /\ r[k] = b
      BY DEF ToSet
    <2>2. Place(r, a) = j /\ Place(r, b) = k
      BY <1>8, <2>1, PlaceIs
    <2>3. Place(s, a) = old(j) /\ Place(s, b) = old(k)
      BY <1>5, <2>1, PlaceIs
    <2> QED BY <1>6, <2>2, <2>3 DEF Upfront
  <1> QED BY <1>2, <1>8, <1>9, <1>10

\* An item inserted at a place is in front of those from that place on.
LEMMA Inserted ==
  ASSUME NEW s \in Seq(Items), IsInjective(s), NEW i \in Items \ ToSet(s),
         NEW p \in 1 .. Len(s) + 1, NEW r, r = InsertAt(s, p, i)
  PROVE  /\ r \in Seq(Items) /\ IsInjective(r) /\ ToSet(r) = ToSet(s) \cup {i}
         /\ \A a, b \in ToSet(s) : Upfront(r, a, b) <=> Upfront(s, a, b)
         /\ \A a \in ToSet(s) : /\ Upfront(r, a, i) <=> Place(s, a) < p
                                /\ Upfront(r, i, a) <=> ~(Place(s, a) < p)
  <1>2. /\ r \in Seq(Items) /\ Len(r) = Len(s) + 1
        /\ \A k \in DOMAIN r : r[k] = IF k < p THEN s[k] ELSE IF k = p THEN i ELSE s[k - 1]
    BY InsertedAt
  <1>3. DOMAIN s = 1 .. Len(s) /\ DOMAIN r = 1 .. Len(s) + 1 /\ Len(s) \in Nat /\ p \in Nat
    BY <1>2
  <1>4. \A j, k \in DOMAIN s : s[j] = s[k] => j = k
    BY DEF IsInjective
  <1>t. \A k \in DOMAIN s : s[k] # i
    BY DEF ToSet
  <1> DEFINE new(k) == IF k < p THEN k ELSE k + 1
  <1>5. /\ p \in DOMAIN r /\ r[p] = i
        /\ \A k \in DOMAIN s : new(k) \in DOMAIN r \ {p} /\ r[new(k)] = s[k]
    <2>1. p \in DOMAIN r /\ r[p] = i
      BY <1>2, <1>3
    <2>2. ASSUME NEW k \in DOMAIN s PROVE new(k) \in DOMAIN r \ {p} /\ r[new(k)] = s[k]
      <3>1. CASE k < p
        BY <1>2, <1>3, <3>1
      <3>2. CASE k >= p
        <4>1. new(k) = k + 1 /\ k + 1 \in DOMAIN r /\ k + 1 > p /\ (k + 1) - 1 = k
          BY <1>3, <3>2
        <4> QED BY <1>2, <1>3, <4>1
      <3> QED BY <1>3, <3>1, <3>2
    <2> QED BY <2>1, <2>2
  <1>6. /\ \A j, k \in DOMAIN s : new(j) <= new(k) <=> j <= k
        /\ \A k \in DOMAIN s : /\ new(k) <= p <=> k < p
                               /\ p <= new(k) <=> ~(k < p)
    BY <1>3
  <1>7. \A k \in DOMAIN r \ {p} : \E j \in DOMAIN s : new(j) = k
    <2> SUFFICES ASSUME NEW k \in DOMAIN r \ {p} PROVE \E j \in DOMAIN s : new(j) = k
      OBVIOUS
    <2>1. CASE k < p
      BY <1>3, <2>1
    <2>2. CASE k > p
      <3>1. k - 1 \in DOMAIN s /\ new(k - 1) = k
        BY <1>3, <2>2
      <3> QED BY <3>1
    <2> QED BY <1>3, <2>1, <2>2
  <1> HIDE DEF new
  <1>8. \A k \in DOMAIN r : k = p \/ \E j \in DOMAIN s : k = new(j) /\ r[k] = s[j]
    BY <1>5, <1>7
  <1>9. IsInjective(r)
    <2> SUFFICES ASSUME NEW j \in DOMAIN r, NEW k \in DOMAIN r, r[j] = r[k] PROVE j = k
      BY DEF IsInjective
    <2> QED BY <1>4, <1>5, <1>8, <1>t
  <1>10. ToSet(r) = ToSet(s) \cup {i}
    <2>1. ToSet(r) \subseteq ToSet(s) \cup {i}
      BY <1>5, <1>8 DEF ToSet
    <2>2. ToSet(s) \cup {i} \subseteq ToSet(r)
      BY <1>5 DEF ToSet
    <2> QED BY <2>1, <2>2
  <1>11. \A k \in DOMAIN s : Place(r, s[k]) = new(k) /\ Place(s, s[k]) = k
    BY <1>5, <1>9, PlaceIs
  <1>12. Place(r, i) = p
    BY <1>5, <1>9, PlaceIs
  <1>13. \A a \in ToSet(s) : \E k \in DOMAIN s : s[k] = a
    BY DEF ToSet
  <1>14. \A a, b \in ToSet(s) : Upfront(r, a, b) <=> Upfront(s, a, b)
    BY <1>6, <1>11, <1>13 DEF Upfront
  <1>15. \A a \in ToSet(s) : /\ Upfront(r, a, i) <=> Place(s, a) < p
                             /\ Upfront(r, i, a) <=> ~(Place(s, a) < p)
    BY <1>6, <1>11, <1>12, <1>13 DEF Upfront
  <1> QED BY <1>2, <1>9, <1>10, <1>14, <1>15

\* xfs_ail_insert into a sorted list: behind all items with an lsn up to n.
LEMMA InsertIs ==
  ASSUME NEW s \in Seq(Items), IsInjective(s), NEW l \in [Items -> Nat], SortedBy(s, l),
         NEW i \in Items \ ToSet(s), NEW n \in Nat, NEW r, r = AilInsert(s, l, i, n)
  PROVE  /\ r \in Seq(Items) /\ IsInjective(r) /\ ToSet(r) = ToSet(s) \cup {i}
         /\ \A a, b \in ToSet(s) : Upfront(r, a, b) <=> Upfront(s, a, b)
         /\ \A a \in ToSet(s) : /\ Upfront(r, a, i) <=> l[a] <= n
                                /\ Upfront(r, i, a) <=> l[a] > n
  <1> DEFINE below == {j \in DOMAIN s : l[s[j]] <= n}
             m == Max(below \cup {0})
  <1>0. DOMAIN s = 1 .. Len(s) /\ Len(s) \in Nat /\ \A k \in DOMAIN s : s[k] \in Items
    OBVIOUS
  <1>1. m \in below \cup {0} /\ \A k \in below \cup {0} : m >= k
    <2> DEFINE S == below \cup {0}
    <2>1. S \subseteq Nat /\ S # {} /\ \A y \in S : y <= Len(s)
      BY <1>0
    <2> HIDE DEF S
    <2>2. Max(S) \in S /\ \A y \in S : Max(S) >= y
      BY <1>0, <2>1, MaxExists
    <2> QED BY <2>2 DEF S
  <1>2. r = InsertAt(s, m + 1, i)
    BY DEF AilInsert
  <1>3. m \in 0 .. Len(s)
    BY <1>0, <1>1
  <1>4. \A a \in ToSet(s) : Place(s, a) < m + 1 <=> l[a] <= n
    <2> SUFFICES ASSUME NEW a \in ToSet(s) PROVE Place(s, a) < m + 1 <=> l[a] <= n
      OBVIOUS
    <2> PICK k : k = Place(s, a)
      OBVIOUS
    <2>1. k \in DOMAIN s /\ s[k] = a
      BY PlaceOf
    <2>2. \A j, h \in DOMAIN s : j < h => l[s[j]] <= l[s[h]]
      BY SortedIs
    <2>3. l[a] <= n => k <= m
      BY <1>0, <1>1, <2>1
    <2>4. ASSUME k <= m PROVE l[a] <= n
      <3>1. m \in DOMAIN s /\ l[s[m]] <= n
        BY <1>0, <1>1, <2>1, <2>4
      <3>2. CASE k = m
        BY <2>1, <3>1, <3>2
      <3>3. CASE k < m
        <4>1. l[s[k]] <= l[s[m]] /\ l[s[k]] \in Nat /\ l[s[m]] \in Nat
          BY <1>0, <2>1, <2>2, <3>1, <3>3
        <4> QED BY <2>1, <3>1, <4>1
      <3> QED BY <1>0, <1>3, <2>1, <2>4, <3>2, <3>3
    <2> QED BY <1>0, <1>3, <2>1, <2>3, <2>4
  <1>5. m + 1 \in 1 .. Len(s) + 1
    BY <1>0, <1>3
  <1> HIDE DEF below, m
  <1>6. /\ r \in Seq(Items) /\ IsInjective(r) /\ ToSet(r) = ToSet(s) \cup {i}
        /\ \A a, b \in ToSet(s) : Upfront(r, a, b) <=> Upfront(s, a, b)
        /\ \A a \in ToSet(s) : /\ Upfront(r, a, i) <=> Place(s, a) < m + 1
                               /\ Upfront(r, i, a) <=> ~(Place(s, a) < m + 1)
    BY <1>2, <1>5, Inserted
  <1>7. \A a \in ToSet(s) : l[a] \in Nat
    BY DEF ToSet
  <1> QED BY <1>4, <1>6, <1>7

\* xfs_trans_ail_update moves an item up: the list stays sorted, the others keep
\* their order, and what was in front of the item still is.
LEMMA UpdateIs ==
  ASSUME ListShape, AilSorted, NEW i \in Items, NEW n \in Nat, n > li[i], AilUpdate(i, n)
  PROVE  /\ ListShape' /\ AilSorted' /\ li' = [li EXCEPT ![i] = n] /\ InAil' = InAil \cup {i}
         /\ \A a, b \in InAil \ {i} : Upfront(ail, a, b)' <=> Upfront(ail, a, b)
         /\ i \in InAil => \A a \in InAil : Upfront(ail, a, i) => Upfront(ail, a, i)'
  <1> DEFINE s == IF li[i] # 0 THEN Unlink(ail, i) ELSE ail
  <1>1. /\ li \in [Items -> Nat] /\ li' = [li EXCEPT ![i] = n] /\ li[i] \in Nat /\ n # 0
        /\ ail' = AilInsert(s, li, i, n)
        /\ ail \in Seq(Items) /\ IsInjective(ail) /\ InAil = {j \in Items : li[j] # 0}
    BY DEF ListShape, AilUpdate
  <1>2. SortedBy(ail, li)
    BY <1>1, SortedIs DEF AilSorted
  <1>3. /\ s \in Seq(Items) /\ IsInjective(s) /\ ToSet(s) = InAil \ {i}
        /\ \A a, b \in ToSet(s) : Upfront(s, a, b) <=> Upfront(ail, a, b)
    <2>1. CASE li[i] # 0
      <3>1. i \in ToSet(ail)
        BY <1>1, <2>1 DEF InAil
      <3> QED BY <1>1, <2>1, <3>1, Unlinked DEF InAil
    <2>2. CASE li[i] = 0
      <3>1. i \notin ToSet(ail) /\ s = ail
        BY <1>1, <2>2 DEF InAil
      <3> QED BY <1>1, <3>1 DEF InAil
    <2> QED BY <2>1, <2>2
  <1>4. SortedBy(s, li)
    BY <1>2, <1>3 DEF SortedBy, InAil
  <1> HIDE DEF s
  <1> PICK r : r = ail'
    OBVIOUS
  <1> PICK l : l = li'
    OBVIOUS
  <1>5. /\ r \in Seq(Items) /\ IsInjective(r) /\ ToSet(r) = ToSet(s) \cup {i}
        /\ \A a, b \in ToSet(s) : Upfront(r, a, b) <=> Upfront(s, a, b)
        /\ \A a \in ToSet(s) : /\ Upfront(r, a, i) <=> li[a] <= n
                               /\ Upfront(r, i, a) <=> li[a] > n
    <2>1. i \in Items \ ToSet(s) /\ r = AilInsert(s, li, i, n)
      BY <1>1, <1>3
    <2> QED BY <1>1, <1>3, <1>4, <2>1, InsertIs
  <1>6. /\ l \in [Items -> Nat] /\ l[i] = n /\ \A a \in Items \ {i} : l[a] = li[a]
        /\ ToSet(s) \subseteq Items \ {i}
    BY <1>1, <1>3
  <1>7. SortedBy(r, l)
    <2> SUFFICES ASSUME NEW a \in ToSet(r), NEW b \in ToSet(r), Upfront(r, a, b) PROVE l[a] <= l[b]
      BY DEF SortedBy
    <2>1. CASE a # i /\ b # i
      BY <1>4, <1>5, <1>6, <2>1 DEF SortedBy
    <2>2. CASE a = i /\ b # i
      <3>1. li[b] > n /\ l[b] = li[b] /\ li[b] \in Nat
        <4>1. b \in ToSet(s) /\ Upfront(r, i, b)
          BY <1>5, <2>2
        <4>2. li[b] > n
          <5>1. Upfront(r, i, b) <=> li[b] > n
            BY <1>5, <4>1
          <5> QED BY <4>1, <5>1
        <4>3. b \in Items \ {i}
          BY <1>6, <4>1
        <4> QED BY <1>1, <1>6, <4>2, <4>3
      <3> QED BY <1>6, <2>2, <3>1
    <2>3. CASE a # i /\ b = i
      BY <1>5, <1>6, <2>3
    <2>4. CASE a = i /\ b = i
      BY <1>6, <2>4
    <2> QED BY <2>1, <2>2, <2>3, <2>4
  <1>8. \A j, k \in DOMAIN r : j < k => l[r[j]] <= l[r[k]]
    BY <1>5, <1>6, <1>7, SortedIs
  <1>9. ToSet(r) = {j \in Items : l[j] # 0}
    BY <1>1, <1>3, <1>5, <1>6
  <1>10. ListShape' /\ AilSorted' /\ InAil' = InAil \cup {i}
    BY <1>3, <1>5, <1>6, <1>8, <1>9 DEF ListShape, AilSorted, InAil
  <1>11. ASSUME i \in InAil, NEW a \in InAil, Upfront(ail, a, i) PROVE Upfront(r, a, i)
    <2>1. CASE a = i
      BY <1>5, <2>1, PlaceOf DEF Upfront
    <2>2. CASE a # i
      <3>1. li[a] <= li[i] /\ li[a] \in Nat
        BY <1>1, <1>2, <1>11 DEF SortedBy, InAil
      <3>2. li[a] <= n
        BY <1>1, <3>1
      <3>3. a \in ToSet(s)
        BY <1>3, <2>2
      <3>4. Upfront(r, a, i) <=> li[a] <= n
        BY <1>5, <3>3
      <3> QED BY <3>2, <3>4
    <2> QED BY <2>1, <2>2
  <1>12. \A a, b \in InAil \ {i} : Upfront(r, a, b) <=> Upfront(ail, a, b)
    BY <1>3, <1>5
  <1>13. \A a, b : Upfront(ail, a, b)' <=> Upfront(r, a, b)
    BY DEF Upfront, Place
  <1> QED BY <1>1, <1>10, <1>11, <1>12, <1>13

\* xfs_trans_ail_delete leaves the list sorted and the other items in their order.
LEMMA DeleteIs ==
  ASSUME ListShape, AilSorted, NEW i \in InAil, AilDelete(i)
  PROVE  /\ ListShape' /\ AilSorted' /\ li' = [li EXCEPT ![i] = 0] /\ InAil' = InAil \ {i}
         /\ \A a, b \in InAil \ {i} : Upfront(ail, a, b)' <=> Upfront(ail, a, b)
  <1>1. /\ li \in [Items -> Nat] /\ li' = [li EXCEPT ![i] = 0] /\ ail' = Unlink(ail, i)
        /\ ail \in Seq(Items) /\ IsInjective(ail) /\ InAil = {j \in Items : li[j] # 0}
        /\ i \in ToSet(ail) /\ i \in Items
    BY DEF ListShape, AilDelete, InAil
  <1> PICK r : r = ail'
    OBVIOUS
  <1> PICK l : l = li'
    OBVIOUS
  <1>2. /\ r \in Seq(Items) /\ IsInjective(r) /\ ToSet(r) = ToSet(ail) \ {i}
        /\ \A a, b \in ToSet(r) : Upfront(r, a, b) <=> Upfront(ail, a, b)
    BY <1>1, Unlinked
  <1>3. SortedBy(ail, li)
    BY <1>1, SortedIs DEF AilSorted
  <1>4. l \in [Items -> Nat] /\ \A a \in Items \ {i} : l[a] = li[a]
    BY <1>1
  <1>5. ToSet(r) = {j \in Items : l[j] # 0}
    BY <1>1, <1>2, <1>4 DEF InAil
  <1>6. SortedBy(r, l)
    <2>1. ToSet(r) \subseteq Items \ {i}
      BY <1>2, <1>5
    <2> QED BY <1>2, <1>3, <1>4, <2>1 DEF SortedBy
  <1>7. \A j, k \in DOMAIN r : j < k => l[r[j]] <= l[r[k]]
    BY <1>2, <1>4, <1>6, SortedIs
  <1>8. ListShape' /\ AilSorted' /\ InAil' = InAil \ {i}
    BY <1>2, <1>4, <1>5, <1>7 DEF ListShape, AilSorted, InAil
  <1>9. \A a, b : Upfront(ail, a, b)' <=> Upfront(r, a, b)
    BY DEF Upfront, Place
  <1> QED BY <1>1, <1>2, <1>8, <1>9 DEF InAil

\* xfs_ail_next is on the list.
LEMMA NextIs ==
  ASSUME ListShape, NEW i \in InAil
  PROVE  AilNext(ail, i) \in InAil \cup {NULL}
  <1>1. DOMAIN ail = 1 .. Len(ail) /\ Len(ail) \in Nat
    BY DEF ListShape
  <1>2. Place(ail, i) \in DOMAIN ail
    BY PlaceOf DEF InAil
  <1>3. CASE Place(ail, i) = Len(ail)
    BY <1>3 DEF AilNext
  <1>4. CASE Place(ail, i) # Len(ail)
    <2>1. Place(ail, i) + 1 \in DOMAIN ail
      BY <1>1, <1>2, <1>4
    <2>2. ail[Place(ail, i) + 1] \in InAil
      BY <2>1 DEF InAil, ToSet
    <2> QED BY <1>4, <2>2 DEF AilNext
  <1> QED BY <1>3, <1>4

\* xfs_ail_min is on the list.
LEMMA MinIs ==
  ASSUME ListShape
  PROVE  AilMin(ail) \in InAil \cup {NULL} /\ (AilMin(ail) = NULL => ail = <<>>)
  <1>1. CASE ail = <<>>
    BY <1>1 DEF AilMin
  <1>2. CASE ail # <<>>
    <2>1. 1 \in DOMAIN ail /\ Head(ail) = ail[1] /\ ail[1] \in Items
      BY <1>2 DEF ListShape
    <2> QED BY <1>2, <2>1, AilAssumption DEF AilMin, InAil, ToSet
  <1> QED BY <1>1, <1>2

\* xfs_trans_ail_cursor_first is on the list.
LEMMA FirstIs ==
  ASSUME ListShape, NEW n \in Nat
  PROVE  AilFirst(n) \in InAil \cup {NULL}
  <1> DEFINE from == {k \in DOMAIN ail : li[ail[k]] >= n}
  <1>1. from \subseteq Nat
    BY DEF ListShape
  <1>2. CASE from = {}
    BY <1>2 DEF AilFirst
  <1>3. CASE from # {}
    <2> HIDE DEF from
    <2>1. Min(from) \in from
      BY <1>1, <1>3, MinExists
    <2>2. Min(from) \in DOMAIN ail
      BY <2>1 DEF from
    <2> QED BY <1>3, <2>2 DEF from, AilFirst, InAil, ToSet
  <1> QED BY <1>2, <1>3

\* xfs_trans_ail_cursor_next returns an item of the list, or none.
LEMMA CursorIs ==
  ASSUME Base, NEW c \in Cursors
  PROVE  CursorItem(c) \in InAil \cup {NULL}
  BY MinIs DEF Base, CursorShape, CursorItem

\* Whose the cursors are.
LEMMA CursorsAre == Push \in Cursors /\ Travs \subseteq Cursors /\ NULL \notin Items /\ Invalid \notin Items
  BY AilAssumption DEF Cursors

\* Who changes the list.
LEMMA ListIs ==
  ASSUME [Next]_vars
  PROVE  \/ UNCHANGED list
         \/ \E t \in Txs : Committed(t) /\ MovesUp(t) /\ AilUpdate(tx[t].item, tx[t].lsn)
         \/ \E i \in Items : IflushDone(i) /\ FlushedAsIs(i) /\ AilDelete(i)
  BY DEF Next, vars, LogInode, Commit, CommitRecord, Committed, Unpin, CloseRecord, Shutdown, SyncInode,
         IflushDone, AilPush, Aild, PushFirst, PushTry, PushItem, PushNext, PushEnd, WalkFirst, WalkNext,
         WalkDone, list

\* An item that moves up gets an lsn larger than its own.
LEMMA MovesIs ==
  ASSUME Base, NEW t \in Txs, Committed(t), MovesUp(t)
  PROVE  tx[t].item \in Items /\ tx[t].lsn \in Nat /\ tx[t].lsn > li[tx[t].item]
  BY DEF Base, TxShape, TxRec, Committed, MovesUp

\* An item deleted because it is flushed is on the list.
LEMMA DeletesIs ==
  ASSUME Base, NEW i \in Items, FlushedAsIs(i)
  PROVE  i \in InAil
  BY DEF Base, ListShape, FlushedAsIs

\* Every step keeps the list sorted, and no item moves back.
LEMMA ListStep ==
  ASSUME Base, [Next]_vars
  PROVE  /\ ListShape' /\ AilSorted'
         /\ \A i \in Items : li[i] # 0 /\ li'[i] # 0 => li'[i] >= li[i]
  <1>0. ListShape /\ AilSorted /\ li \in [Items -> Nat]
    BY DEF Base, ListShape
  <1>1. CASE UNCHANGED list
    BY <1>0, <1>1 DEF list, ListShape, AilSorted, InAil
  <1>2. ASSUME NEW t \in Txs, Committed(t), MovesUp(t), AilUpdate(tx[t].item, tx[t].lsn)
        PROVE  /\ ListShape' /\ AilSorted'
               /\ \A i \in Items : li[i] # 0 /\ li'[i] # 0 => li'[i] >= li[i]
    <2> PICK j, n : j = tx[t].item /\ n = tx[t].lsn
      OBVIOUS
    <2>1. j \in Items /\ n \in Nat /\ n > li[j] /\ AilUpdate(j, n)
      BY <1>2, MovesIs
    <2>2. ListShape' /\ AilSorted' /\ li' = [li EXCEPT ![j] = n]
      BY <1>0, <2>1, UpdateIs
    <2> QED BY <1>0, <2>1, <2>2
  <1>3. ASSUME NEW i \in Items, FlushedAsIs(i), AilDelete(i)
        PROVE  /\ ListShape' /\ AilSorted'
               /\ \A j \in Items : li[j] # 0 /\ li'[j] # 0 => li'[j] >= li[j]
    <2>1. ListShape' /\ AilSorted' /\ li' = [li EXCEPT ![i] = 0]
      BY <1>0, <1>3, DeletesIs, DeleteIs
    <2> QED BY <1>0, <2>1
  <1> QED BY <1>1, <1>2, <1>3, ListIs

\* The log goes on record by record, and a shutdown is for good.
LEMMA LogStep ==
  ASSUME Base, [Next]_vars
  PROVE  LogShape' /\ curr' \in {curr, curr + 1} /\ (shut => shut')
  <1>0. LogShape
    BY DEF Base
  <1>1. ASSUME NEW n \in 1 .. curr, AilPush(n) PROVE LogShape' /\ curr' = curr /\ shut' = shut
    BY <1>0, <1>1 DEF AilPush, LogShape
  <1>2. CASE CloseRecord \/ Shutdown \/ PushEnd
    <2>1. /\ curr' \in {curr, curr + 1} /\ target' = target
          /\ shut' = shut \/ shut' = TRUE
      BY <1>2 DEF CloseRecord, Shutdown, PushEnd
    <2>2. shut' \in BOOLEAN
      BY <1>0, <2>1 DEF LogShape
    <2>3. shut => shut'
      BY <2>1
    <2> QED BY <1>0, <2>1, <2>2, <2>3 DEF LogShape
  <1>3. (\E n \in 1 .. curr : AilPush(n)) \/ CloseRecord \/ Shutdown \/ PushEnd \/ UNCHANGED logv
    BY DEF Next, vars, LogInode, Commit, CommitRecord, Committed, Unpin, SyncInode, IflushDone, Aild,
           PushFirst, PushTry, PushItem, PushNext, WalkFirst, WalkNext, WalkDone
  <1> QED BY <1>0, <1>1, <1>2, <1>3 DEF logv, LogShape

\* What a transaction's step does to its record.
LEMMA TxIs ==
  ASSUME Base, [Next]_vars
  PROVE  \/ UNCHANGED tx
         \/ \E t \in Txs, i \in Items : \E F \in SUBSET Fields \ {{}} : LogInode(t, i, F)
         \/ \E t \in Txs : Commit(t) \/ CommitRecord(t) \/ Committed(t) \/ Unpin(t)
  BY DEF Next, vars, CloseRecord, Shutdown, SyncInode, IflushDone, AilPush, Aild, PushFirst,
         PushTry, PushItem, PushNext, PushEnd, WalkFirst, WalkNext, WalkDone

\* Every step keeps the shape of the transactions.
LEMMA TxStep ==
  ASSUME Base, [Next]_vars
  PROVE  TxShape'
  <1>0. TxShape /\ curr \in Nat
    BY DEF Base, LogShape
  <1>1. CASE UNCHANGED tx
    BY <1>0, <1>1 DEF TxShape
  <1>2. ASSUME NEW t \in Txs, NEW i \in Items, NEW F \in SUBSET Fields, LogInode(t, i, F)
        PROVE  TxShape'
    <2> DEFINE r == [NoTx EXCEPT !.pc = "held", !.item = i, !.mod = F]
    <2>0. tx' = [tx EXCEPT ![t] = r]
      BY <1>2 DEF LogInode
    <2>1. r \in TxRec /\ r.item = i
      BY DEF NoTx, TxRec, Steps, Values
    <2> HIDE DEF r
    <2> QED BY <1>0, <2>0, <2>1 DEF TxShape
  <1>3. ASSUME NEW t \in Txs, Commit(t) \/ CommitRecord(t) \/ Committed(t) \/ Unpin(t)
        PROVE  TxShape'
    <2>0. tx[t] \in TxRec /\ tx[t].pc # "idle" /\ tx[t].item \in Items
      BY <1>0, <1>3 DEF TxShape, Commit, CommitRecord, Committed, Unpin
    <2> PICK r : r = tx[t]
      OBVIOUS
    <2>1. CASE Commit(t)
      <3>1. fields[r.item] \in SUBSET Fields /\ val[r.item] \in Values
        BY <2>0 DEF Base, ItemShape
      <3> PICK S, v : S = fields[r.item] /\ v = val[r.item]
        OBVIOUS
      <3> DEFINE q == [r EXCEPT !.pc = "writing", !.lsn = curr, !.set = S, !.val = v]
      <3>2. q \in TxRec /\ q.item = r.item
        BY <1>0, <2>0, <3>1 DEF TxRec, Steps
      <3>3. tx' = [tx EXCEPT ![t] = q]
        BY <1>0, <2>0, <2>1 DEF Commit, TxShape
      <3> HIDE DEF q
      <3> QED BY <1>0, <2>0, <3>2, <3>3 DEF TxShape
    <2>2. CASE CommitRecord(t)
      <3> DEFINE q == [r EXCEPT !.pc = "logged", !.clsn = curr]
      <3>2. q \in TxRec /\ q.item = r.item
        BY <1>0, <2>0 DEF TxRec, Steps
      <3>3. tx' = [tx EXCEPT ![t] = q]
        BY <1>0, <2>0, <2>2 DEF CommitRecord, TxShape
      <3> HIDE DEF q
      <3> QED BY <1>0, <2>0, <3>2, <3>3 DEF TxShape
    <2>3. ASSUME NEW h \in {"committed", "done"}, tx' = [tx EXCEPT ![t].pc = h] PROVE TxShape'
      <3> DEFINE q == [r EXCEPT !.pc = h]
      <3>2. q \in TxRec /\ q.item = r.item
        BY <2>0 DEF TxRec, Steps
      <3>3. tx' = [tx EXCEPT ![t] = q]
        BY <1>0, <2>0, <2>3 DEF TxShape
      <3> HIDE DEF q
      <3> QED BY <1>0, <2>0, <3>2, <3>3 DEF TxShape
    <2> QED BY <1>3, <2>1, <2>2, <2>3 DEF Committed, Unpin
  <1> QED BY <1>1, <1>2, <1>3, TxIs

\* Who changes the items.
LEMMA ItemIs ==
  ASSUME [Next]_vars
  PROVE  \/ UNCHANGED item
         \/ \E t \in Txs, i \in Items : \E F \in SUBSET Fields \ {{}} : LogInode(t, i, F)
         \/ \E t \in Txs : Commit(t) \/ CommitRecord(t) \/ Unpin(t)
         \/ \E i \in Items : SyncInode(i) \/ IflushDone(i)
         \/ PushTry \/ PushItem
  BY DEF Next, vars, CloseRecord, Shutdown, Committed, AilPush, Aild, PushFirst, PushNext, PushEnd,
         WalkFirst, WalkNext, WalkDone

\* The shapes of what xfs_iflush assigns.
LEMMA IflushShape ==
  ASSUME ItemShape, ListShape, NEW i \in Items, Iflush(i)
  PROVE  /\ flushing' \in [Items -> BOOLEAN] /\ flushLsn' \in [Items -> Nat]
         /\ fields' \in [Items -> SUBSET Fields] /\ last' \in [Items -> SUBSET Fields]
         /\ sent' \in [Items -> Values]
  BY DEF ItemShape, ListShape, Iflush

\* Every step keeps the shape of the items.
LEMMA ItemStep ==
  ASSUME Base, [Next]_vars
  PROVE  ItemShape'
  <1>0. ItemShape /\ ListShape /\ TxShape /\ PushShape
    BY DEF Base
  <1>1. CASE UNCHANGED item
    BY <1>0, <1>1 DEF ItemShape, item
  <1>2. ASSUME NEW t \in Txs, NEW i \in Items, NEW F \in SUBSET Fields, LogInode(t, i, F)
        PROVE  ItemShape'
    <2>1. /\ lock' \in [Items -> Txs \cup {Push, NULL}]
          /\ UNCHANGED <<pin, flushing, flushLsn, last, sent, disk>>
      BY <1>0, <1>2 DEF LogInode, ItemShape
    <2> DEFINE v == [f \in Fields |-> val[i][f] + IF f \in F THEN 1 ELSE 0]
    <2>2. v \in Values /\ val' = [val EXCEPT ![i] = v]
      BY <1>0, <1>2 DEF LogInode, ItemShape, Values
    <2>3. Relogged(i, F) \in SUBSET Fields /\ fields' = [fields EXCEPT ![i] = Relogged(i, F)]
      BY <1>0, <1>2 DEF LogInode, ItemShape, Relogged
    <2> HIDE DEF v
    <2> QED BY <1>0, <2>1, <2>2, <2>3 DEF ItemShape
  <1>3. ASSUME NEW t \in Txs, Commit(t) \/ CommitRecord(t)
        PROVE  ItemShape'
    <2>1. tx[t].item \in Items
      BY <1>0, <1>3 DEF TxShape, Commit, CommitRecord
    <2>2. lock' \in [Items -> Txs \cup {Push, NULL}] /\ pin' \in [Items -> Int]
      BY <1>0, <1>3, <2>1 DEF Commit, CommitRecord, ItemShape
    <2>3. UNCHANGED <<flushing, flushLsn, fields, last, val, sent, disk>>
      BY <1>3 DEF Commit, CommitRecord
    <2> QED BY <1>0, <2>2, <2>3 DEF ItemShape
  <1>4. ASSUME NEW i \in Items, SyncInode(i) PROVE ItemShape'
    <2>1. Iflush(i) /\ UNCHANGED <<lock, pin, val, disk>>
      BY <1>4 DEF SyncInode
    <2> QED BY <1>0, <2>1, IflushShape DEF ItemShape
  <1>5. ASSUME NEW i \in Items, IflushDone(i) PROVE ItemShape'
    <2>1. /\ disk' = [disk EXCEPT ![i] = sent[i]] \/ disk' = disk
          /\ last' = [last EXCEPT ![i] = {}] /\ flushing' = [flushing EXCEPT ![i] = FALSE]
          /\ flushLsn' = [flushLsn EXCEPT ![i] = 0]
          /\ UNCHANGED <<lock, pin, fields, val, sent>>
      BY <1>5 DEF IflushDone
    <2> QED BY <1>0, <2>1 DEF ItemShape
  <1>6. CASE PushTry
    <2>1. lock' \in [Items -> Txs \cup {Push, NULL}] /\ flushing' \in [Items -> BOOLEAN]
      <3>1. aild.lip \in Items
        BY <1>0, <1>6 DEF PushShape, PushTry
      <3> PICK i : i = aild.lip
        OBVIOUS
      <3>2. \E x \in Txs \cup {Push, NULL} : lock' = [lock EXCEPT ![i] = x]
        BY <1>0, <1>6, <3>1 DEF PushTry, ItemShape
      <3>3. \E x \in BOOLEAN : flushing' = [flushing EXCEPT ![i] = x]
        BY <1>6 DEF PushTry
      <3>4. lock' \in [Items -> Txs \cup {Push, NULL}]
        BY <1>0, <3>2 DEF ItemShape
      <3>5. flushing' \in [Items -> BOOLEAN]
        BY <1>0, <3>3 DEF ItemShape
      <3> QED BY <3>4, <3>5
    <2>2. UNCHANGED <<pin, flushLsn, fields, last, val, sent, disk>>
      BY <1>6 DEF PushTry
    <2> QED BY <1>0, <2>1, <2>2 DEF ItemShape
  <1>7. CASE PushItem
    <2>0. aild.lip \in Items
      BY <1>0, <1>7 DEF PushShape, PushItem
    <2> PICK i : i = aild.lip
      OBVIOUS
    <2>1. lock' = [lock EXCEPT ![i] = NULL] /\ UNCHANGED <<pin, val, disk>>
      BY <1>7 DEF PushItem
    <2>2. CASE Iflush(i)
      <3>1. lock' \in [Items -> Txs \cup {Push, NULL}]
        BY <1>0, <2>1 DEF ItemShape
      <3> QED BY <1>0, <2>0, <2>1, <2>2, <3>1, IflushShape DEF ItemShape
    <2>3. CASE ~Iflush(i)
      <3>1. /\ \E x \in BOOLEAN : flushing' = [flushing EXCEPT ![i] = x]
            /\ \E x \in SUBSET Fields : fields' = [fields EXCEPT ![i] = x]
            /\ UNCHANGED <<flushLsn, last, sent>>
        <4>1. /\ flushing' = [flushing EXCEPT ![i] = flushing[i] /\ ~(aild.result = "SUCCESS")]
              /\ fields' = [fields EXCEPT ![i] = IF aild.result = "SUCCESS" THEN {} ELSE fields[i]]
              /\ UNCHANGED <<flushLsn, last, sent>>
          BY <1>0, <1>7, <2>0, <2>3 DEF PushItem, ItemShape
        <4> QED BY <1>0, <2>0, <4>1 DEF ItemShape
      <3>2. flushing' \in [Items -> BOOLEAN]
        BY <1>0, <3>1 DEF ItemShape
      <3>3. fields' \in [Items -> SUBSET Fields]
        BY <1>0, <3>1 DEF ItemShape
      <3>4. lock' \in [Items -> Txs \cup {Push, NULL}]
        BY <1>0, <2>1 DEF ItemShape
      <3> QED BY <1>0, <2>1, <3>1, <3>2, <3>3, <3>4 DEF ItemShape
    <2> QED BY <2>2, <2>3
  <1>8. ASSUME NEW t \in Txs, Unpin(t) PROVE ItemShape'
    <2>1. tx[t].item \in Items
      BY <1>0, <1>8 DEF TxShape, Unpin
    <2> QED BY <1>0, <1>8, <2>1 DEF Unpin, ItemShape
  <1> QED BY <1>1, <1>2, <1>3, <1>4, <1>5, <1>6, <1>7, <1>8, ItemIs

\* Who changes the locals of xfsaild_push.
LEMMA PushIs ==
  ASSUME [Next]_vars
  PROVE  UNCHANGED <<aild, last_lsn>> \/ Aild
  BY DEF Next, vars, LogInode, Commit, CommitRecord, Committed, Unpin, CloseRecord, Shutdown, SyncInode,
         IflushDone, AilPush, WalkFirst, WalkNext, WalkDone

\* Every step keeps the shape of the locals of xfsaild_push.
LEMMA PushStep ==
  ASSUME Base, [Next]_vars
  PROVE  PushShape'
  <1>0. /\ PushShape /\ ListShape /\ LogShape /\ last_lsn \in Nat /\ aild \in PushRec /\ target \in Nat
        /\ li \in [Items -> Nat]
    BY DEF Base, PushShape, LogShape, ListShape
  <1>n. NULL \notin Items /\ InAil \subseteq Items
    BY <1>0, CursorsAre DEF ListShape
  <1>1. CASE UNCHANGED <<aild, last_lsn>>
    BY <1>0, <1>1 DEF PushShape
  <1>2. CASE PushFirst
    <2>1. last_lsn' = last_lsn
      BY <1>2 DEF PushFirst
    <2> PICK i : i = AilFirst(last_lsn)
      OBVIOUS
    <2>2. CASE aild' = aild
      BY <1>0, <2>1, <2>2 DEF PushShape
    <2>3. ASSUME i # NULL, NEW h \in {"try", "end"},
                 aild' = [NoPush EXCEPT !.pc = h, !.lip = i, !.lsn = li[i], !.target = target,
                                        !.pushed = last_lsn]
          PROVE  PushShape'
      <3>1. i \in Items /\ li[i] \in Nat
        BY <1>0, <1>n, <2>3, FirstIs
      <3> DEFINE q == [NoPush EXCEPT !.pc = h, !.lip = i, !.lsn = li[i], !.target = target,
                                     !.pushed = last_lsn]
      <3>2. q \in PushRec /\ q.lip = i
        BY <1>0, <3>1 DEF PushRec, NoPush, Results
      <3>3. aild' = q
        BY <2>3
      <3> HIDE DEF q
      <3> QED BY <1>0, <2>1, <3>1, <3>2, <3>3 DEF PushShape
    <2>4. aild' = aild \/ (i # NULL /\ \E h \in {"try", "end"} :
                aild' = [NoPush EXCEPT !.pc = h, !.lip = i, !.lsn = li[i], !.target = target,
                                       !.pushed = last_lsn])
      BY <1>2 DEF PushFirst
    <2> QED BY <2>2, <2>3, <2>4
  <1>3. CASE PushTry
    <2>1. \E h \in {"push", "next"}, r \in Results : aild' = [aild EXCEPT !.pc = h, !.result = r]
      <3>1. Trylock(aild.lip) \in Results
        BY DEF Trylock, Results
      <3> QED BY <1>3, <3>1 DEF PushTry
    <2>2. last_lsn' = last_lsn /\ aild.lip \in Items
      BY <1>0, <1>3 DEF PushTry, PushShape
    <2> QED BY <1>0, <2>1, <2>2 DEF PushShape, PushRec
  <1>4. CASE PushItem
    BY <1>0, <1>4 DEF PushItem, PushShape, PushRec
  <1>5. CASE PushNext
    <2> PICK i : i = CursorItem(Push)
      OBVIOUS
    <2> DEFINE st == aild.stuck + IF aild.result \in {"PINNED", "LOCKED"} THEN 1 ELSE 0
               a == [aild EXCEPT !.count = IF shut THEN @ ELSE @ + 1, !.stuck = st, !.result = NULL,
                                 !.flush_log = @ \/ aild.result = "PINNED",
                                 !.pushed = IF aild.result = "PINNED" THEN @ ELSE aild.lsn]
    <2>1. a \in PushRec
      <3>1. st \in Nat /\ (IF shut THEN aild.count ELSE aild.count + 1) \in Nat
        BY <1>0 DEF PushRec
      <3>2. (aild.flush_log \/ aild.result = "PINNED") \in BOOLEAN
        OBVIOUS
      <3>3. (IF aild.result = "PINNED" THEN aild.pushed ELSE aild.lsn) \in Nat
        BY <1>0 DEF PushRec
      <3> QED BY <1>0, <3>1, <3>2, <3>3 DEF PushRec, Results
    <2>2. last_lsn' = last_lsn
      BY <1>5 DEF PushNext
    <2>3. \/ aild' = [a EXCEPT !.pc = "end"]
          \/ i # NULL /\ \E h \in {"try", "end"} : aild' = [a EXCEPT !.lip = i, !.lsn = li[i], !.pc = h]
      BY <1>5 DEF PushNext
    <2>4. i \in InAil \cup {NULL}
      BY CursorIs, CursorsAre
    <2> HIDE DEF a, st
    <2>5. CASE aild' = [a EXCEPT !.pc = "end"]
      BY <1>0, <2>1, <2>2, <2>5 DEF PushShape, PushRec
    <2>6. ASSUME i # NULL, NEW h \in {"try", "end"}, aild' = [a EXCEPT !.lip = i, !.lsn = li[i], !.pc = h]
          PROVE  PushShape'
      <3>1. i \in Items /\ li[i] \in Nat
        BY <1>0, <1>n, <2>4, <2>6
      <3> QED BY <1>0, <2>1, <2>2, <2>6, <3>1 DEF PushShape, PushRec
    <2> QED BY <2>3, <2>5, <2>6
  <1>6. CASE PushEnd
    <2>1. last_lsn' \in Nat /\ aild' = NoPush
      BY <1>0, <1>6 DEF PushEnd, PushRec
    <2> QED BY <2>1 DEF PushShape, PushRec, NoPush, Results
  <1> QED BY <1>1, <1>2, <1>3, <1>4, <1>5, <1>6, PushIs DEF Aild

\* What a step does to the cursors.
LEMMA CursorsMove ==
  ASSUME Base, [Next]_vars
  PROVE  \/ UNCHANGED <<list, cursor>>
         \/ UNCHANGED list /\ \E c \in Cursors, x \in InAil \cup {NULL} : cursor' = [cursor EXCEPT ![c] = x]
         \/ \E t \in Txs : Committed(t) /\ MovesUp(t) /\ AilUpdate(tx[t].item, tx[t].lsn)
         \/ \E i \in Items : IflushDone(i) /\ FlushedAsIs(i) /\ AilDelete(i)
  <1>0. ListShape /\ CursorShape /\ NULL \notin Items
    BY CursorsAre DEF Base
  <1>1. CASE PushFirst
    <2> PICK i : i = AilFirst(last_lsn)
      OBVIOUS
    <2>1. i \in InAil \cup {NULL}
      BY <1>0, FirstIs DEF Base, PushShape
    <2>2. CASE i = NULL \/ shut
      BY <1>1, <2>2 DEF PushFirst
    <2>3. CASE ~(i = NULL \/ shut)
      <3>1. i \in InAil /\ AilNext(ail, i) \in InAil \cup {NULL}
        BY <1>0, <2>1, <2>3, NextIs
      <3>2. cursor' = [cursor EXCEPT ![Push] = AilNext(ail, i)] /\ UNCHANGED list
        BY <1>1, <2>3 DEF PushFirst
      <3> QED BY <3>1, <3>2, CursorsAre
    <2> QED BY <2>2, <2>3
  <1>3. CASE PushNext
    <2> PICK i : i = CursorItem(Push)
      OBVIOUS
    <2>1. UNCHANGED list /\ (UNCHANGED cursor \/ (i # NULL /\ CursorSet(Push, i)))
      BY <1>3 DEF PushNext
    <2>2. i # NULL /\ CursorSet(Push, i) => cursor' = [cursor EXCEPT ![Push] = AilNext(ail, i)]
      BY DEF CursorSet
    <2>3. i # NULL => AilNext(ail, i) \in InAil \cup {NULL}
      BY <1>0, CursorIs, CursorsAre, NextIs
    <2> QED BY <2>1, <2>2, <2>3, CursorsAre
  <1>4. CASE PushEnd
    BY <1>4, CursorsAre DEF PushEnd
  <1>5. ASSUME NEW w \in Travs, WalkDone(w) \/ WalkFirst(w)
        PROVE  UNCHANGED list /\ \E x \in InAil \cup {NULL} : cursor' = [cursor EXCEPT ![w] = x]
    <2>1. UNCHANGED list /\ cursor' = [cursor EXCEPT ![w] = IF WalkDone(w) \/ ail = <<>> THEN NULL
                                                            ELSE AilNext(ail, Head(ail))]
      BY <1>5 DEF WalkDone, WalkFirst
    <2>2. ail # <<>> => Head(ail) \in InAil
      BY <1>0, MinIs, AilAssumption DEF AilMin, ListShape
    <2>3. ail # <<>> => AilNext(ail, Head(ail)) \in InAil \cup {NULL}
      BY <1>0, <2>2, NextIs
    <2> QED BY <2>1, <2>3
  <1>6. ASSUME NEW w \in Travs, WalkNext(w)
        PROVE  /\ UNCHANGED list
               /\ UNCHANGED cursor \/ \E x \in InAil \cup {NULL} : cursor' = [cursor EXCEPT ![w] = x]
    <2> PICK i : i = CursorItem(w)
      OBVIOUS
    <2>1. UNCHANGED list /\ CursorSet(w, i)
      BY <1>6 DEF WalkNext
    <2>2. CASE i = NULL
      BY <1>0, <2>1, <2>2, CursorsAre DEF CursorSet, CursorShape
    <2>3. CASE i # NULL
      BY <1>0, <2>1, <2>3, CursorIs, CursorsAre, NextIs DEF CursorSet
    <2> QED BY <2>1, <2>2, <2>3
  <1>7. ASSUME NEW t \in Txs, Committed(t)
        PROVE  UNCHANGED <<list, cursor>> \/ (MovesUp(t) /\ AilUpdate(tx[t].item, tx[t].lsn))
    BY <1>7 DEF Committed
  <1>8. ASSUME NEW i \in Items, IflushDone(i)
        PROVE  UNCHANGED <<list, cursor>> \/ (FlushedAsIs(i) /\ AilDelete(i))
    BY <1>8 DEF IflushDone
  <1>9. \/ UNCHANGED <<list, cursor>> \/ PushFirst \/ PushNext \/ PushEnd
        \/ (\E w \in Travs : WalkFirst(w) \/ WalkNext(w) \/ WalkDone(w))
        \/ (\E t \in Txs : Committed(t)) \/ (\E i \in Items : IflushDone(i))
    BY DEF Next, vars, LogInode, Commit, CommitRecord, Unpin, CloseRecord, Shutdown, SyncInode, AilPush,
           Aild, PushTry, PushItem
  <1> QED BY <1>1, <1>3, <1>4, <1>5, <1>6, <1>7, <1>8, <1>9, CursorsAre

\* xfs_trans_ail_cursor_clear takes the cursors off an item that leaves its place.
LEMMA ClearIs ==
  ASSUME CursorShape, ListShape', NEW i, CursorClear(i), InAil \ {i} \subseteq InAil'
  PROVE  CursorShape'
  <1>1. \A c \in Cursors : cursor'[c] \in (InAil \ {i}) \cup {NULL, Invalid}
    BY DEF CursorClear, CursorShape
  <1>2. InAil' \subseteq Items
    BY DEF ListShape
  <1>3. cursor' = [c \in Cursors |-> IF cursor[c] = i THEN Invalid ELSE cursor[c]]
    BY DEF CursorClear
  <1>4. cursor' \in [Cursors -> Items \cup {NULL, Invalid}]
    BY <1>3 DEF CursorShape
  <1> QED BY <1>1, <1>4 DEF CursorShape

\* Every step keeps the cursors on items of the list.
LEMMA CursorStep ==
  ASSUME Base, [Next]_vars
  PROVE  CursorShape'
  <1>0. CursorShape /\ ListShape /\ ListShape' /\ AilSorted
    BY ListStep DEF Base
  <1>1. CASE UNCHANGED <<list, cursor>>
    BY <1>0, <1>1 DEF list, CursorShape, InAil
  <1>2. ASSUME UNCHANGED list, NEW c \in Cursors, NEW x \in InAil \cup {NULL},
               cursor' = [cursor EXCEPT ![c] = x]
        PROVE  CursorShape'
    <2>1. InAil' = InAil /\ InAil \subseteq Items
      BY <1>0, <1>2 DEF list, InAil, ListShape
    <2> QED BY <1>0, <1>2, <2>1 DEF CursorShape
  <1>3. ASSUME NEW t \in Txs, Committed(t), MovesUp(t), AilUpdate(tx[t].item, tx[t].lsn)
        PROVE  CursorShape'
    <2> PICK j, n : j = tx[t].item /\ n = tx[t].lsn
      OBVIOUS
    <2>1. j \in Items /\ n \in Nat /\ n > li[j] /\ AilUpdate(j, n)
      BY <1>3, MovesIs
    <2>2. InAil' = InAil \cup {j}
      BY <1>0, <2>1, UpdateIs
    <2>3. CursorClear(j) \/ UNCHANGED cursor
      BY <2>1 DEF AilUpdate
    <2>4. CASE UNCHANGED cursor
      BY <1>0, <2>2, <2>4 DEF CursorShape
    <2>5. CASE CursorClear(j)
      <3>1. InAil \ {j} \subseteq InAil'
        BY <2>2
      <3> QED BY <1>0, <2>5, <3>1, ClearIs
    <2> QED BY <2>3, <2>4, <2>5
  <1>4. ASSUME NEW i \in Items, FlushedAsIs(i), AilDelete(i) PROVE CursorShape'
    <2>1. CursorClear(i)
      BY <1>4 DEF AilDelete
    <2>2. InAil' = InAil \ {i}
      BY <1>0, <1>4, DeletesIs, DeleteIs
    <2> QED BY <1>0, <2>1, <2>2, ClearIs
  <1> QED BY <1>1, <1>2, <1>3, <1>4, CursorsMove

\* Every step keeps the shape of the walks.
LEMMA WalkStep ==
  ASSUME Base, [Next]_vars
  PROVE  WalkShape'
  <1>0. WalkShape /\ ListShape /\ InAil \subseteq Items
    BY DEF Base, ListShape
  <1>1. CASE UNCHANGED walk
    BY <1>0, <1>1 DEF WalkShape
  <1>2. ASSUME NEW i \in Items, AilDelete(i) PROVE WalkShape'
    BY <1>0, <1>2 DEF AilDelete, WalkShape, WalkRec
  <1>3. ASSUME NEW w \in Travs, WalkFirst(w) PROVE WalkShape'
    BY <1>0, <1>3 DEF WalkFirst, WalkShape, WalkRec, InAil
  <1>4. ASSUME NEW w \in Travs, WalkNext(w) PROVE WalkShape'
    <2>1. CursorItem(w) \in Items \cup {NULL} /\ WalkReturns(w, CursorItem(w))
      BY <1>0, <1>4, CursorIs, CursorsAre DEF WalkNext
    <2> PICK i \in Items \cup {NULL} : i = CursorItem(w)
      BY <2>1
    <2> DEFINE q == [walk[w] EXCEPT !.seen = IF i = NULL THEN @ ELSE @ \cup {i},
                                    !.pc = IF i = NULL THEN "end" ELSE "walking"]
    <2>2. walk' = [walk EXCEPT ![w] = q]
      BY <1>0, <2>1 DEF WalkReturns, WalkShape, WalkRec
    <2>3. q \in WalkRec
      <3>1. walk[w] \in WalkRec
        BY <1>0 DEF WalkShape
      <3> QED BY <3>1 DEF WalkRec
    <2> HIDE DEF q
    <2> QED BY <1>0, <2>2, <2>3 DEF WalkShape
  <1>5. ASSUME NEW w \in Travs, WalkDone(w) PROVE WalkShape'
    BY <1>0, <1>5 DEF WalkDone, NoWalk, WalkShape, WalkRec
  <1>6. \/ UNCHANGED walk \/ (\E i \in Items : AilDelete(i))
        \/ \E w \in Travs : WalkFirst(w) \/ WalkNext(w) \/ WalkDone(w)
    BY DEF Next, vars, LogInode, Commit, CommitRecord, Committed, AilUpdate, Unpin, CloseRecord, Shutdown,
           SyncInode, IflushDone, AilPush, Aild, PushFirst, PushTry, PushItem, PushNext, PushEnd
  <1> QED BY <1>1, <1>2, <1>3, <1>4, <1>5, <1>6

\* The shapes hold at mount.
LEMMA BaseInit == ASSUME Init PROVE Base
  <1>1. ail = <<>> /\ li = [i \in Items |-> 0] /\ cursor = [c \in Cursors |-> NULL]
    BY DEF Init
  <1>2. ListShape /\ AilSorted
    <2>1. ail \in Seq(Items) /\ DOMAIN ail = {}
      BY <1>1
    <2>2. InAil = {}
      BY <2>1 DEF InAil, ToSet
    <2> QED BY <1>1, <2>1, <2>2 DEF ListShape, AilSorted, IsInjective
  <1>3. CursorShape
    BY <1>1 DEF CursorShape
  <1>4. LogShape /\ WalkShape
    <2>1. curr = 1 /\ target = 0
      BY DEF Init
    <2>5. shut \in BOOLEAN
      BY Zenon DEF Init
    <2>2. NoWalk \in WalkRec /\ walk = [w \in Travs |-> NoWalk]
      BY DEF Init, WalkRec, NoWalk
    <2>3. LogShape
      BY <2>1, <2>5 DEF LogShape
    <2>4. WalkShape
      BY <2>2 DEF WalkShape
    <2> QED BY <2>3, <2>4
  <1>5. PushShape
    BY DEF Init, PushShape, PushRec, NoPush, Results
  <1>6. TxShape
    <2>1. NoTx \in TxRec /\ NoTx.pc = "idle"
      BY DEF NoTx, TxRec, Steps, Values
    <2> HIDE DEF NoTx
    <2> QED BY <2>1 DEF Init, TxShape
  <1>7. ItemShape
    <2>1. [f \in Fields |-> 0] \in Values
      BY DEF Values
    <2> QED BY <2>1 DEF Init, ItemShape
  <1> QED BY <1>2, <1>3, <1>4, <1>5, <1>6, <1>7 DEF Base

\* Every step keeps the shapes.
LEMMA BaseStep == ASSUME Base, [Next]_vars PROVE Base'
  <1>1. LogShape' /\ TxShape' /\ ItemShape' /\ PushShape'
    BY LogStep, TxStep, ItemStep, PushStep
  <1>2. ListShape' /\ AilSorted' /\ CursorShape' /\ WalkShape'
    BY ListStep, CursorStep, WalkStep
  <1> QED BY <1>1, <1>2 DEF Base

\* Every variable has its shape, each thread holds the iclog its place in the code
\* requires, and IOERROR is a state of all iclogs or of none (xlog_state_ioerror),
\* in every state of every run, with failures and shutdowns.
THEOREM BaseHolds == Spec => []Base
  <1>1. Init => Base
    BY BaseInit
  <1>2. Base /\ [Next]_vars => Base'
    BY BaseStep
  <1> QED BY <1>1, <1>2, PTL DEF Spec

\* Items never move backwards in the AIL, and the list stays sorted
\* (xfs_trans_chunk_committed, xfs_ail_insert, xfs_ail_check).
THEOREM ListIsSorted == Spec => OldestIsFirst
  <1>1. Base /\ [Next]_vars =>
          [AilSorted' /\ \A i \in DOMAIN li : li[i] # 0 /\ li'[i] # 0 => li'[i] >= li[i]]_vars
    <2>1. Base => DOMAIN li = Items
      BY DEF Base, ListShape
    <2> QED BY <2>1, ListStep
  <1> QED BY <1>1, BaseHolds, PTL DEF Spec, OldestIsFirst

----------------------------------------------------------------------------

\* An item is unpinned when nobody pins it.
LEMMA PinIs ==
  ASSUME PinOK, NEW i \in Items
  PROVE  pin[i] \in Nat /\ (pin[i] = 0 <=> Pinners(i) = {})
  BY FS_CardinalityType, FS_EmptySet DEF PinOK

\* Every step leaves a lock with the one who took it.
LEMMA LockStep ==
  ASSUME Base, LockOK, PinOK, [Next]_vars
  PROVE  LockOK'
  <1>0. /\ TxShape /\ ItemShape /\ aild \in PushRec /\ (aild.pc \in {"try", "push"} => aild.lip \in Items)
        /\ \A t \in Txs : tx[t].pc \in {"held", "writing"} => lock[tx[t].item] = t /\ tx[t].item \in Items
        /\ aild.pc = "push" => lock[aild.lip] = Push /\ aild.result \in {"SUCCESS", "PUSHBUF"}
        /\ \A i \in Items : Held(i) => flushing[i]
        /\ Push \notin Txs /\ NULL \notin Txs
    BY AilAssumption DEF Base, PushShape, LockOK, TxShape
  <1>2. ASSUME NEW t \in Txs, NEW i \in Items, NEW F \in SUBSET Fields, LogInode(t, i, F)
        PROVE  LockOK'
    <2>1. /\ lock' = [lock EXCEPT ![i] = t] /\ lock[i] = NULL /\ UNCHANGED <<flushing, aild>>
          /\ \A u \in Txs \ {t} : tx'[u] = tx[u]
          /\ tx'[t].item = i
      BY <1>0, <1>2 DEF LogInode, TxShape, NoTx
    <2>2. /\ \A j \in Items : lock'[j] = IF j = i THEN t ELSE lock[j]
          /\ i # aild.lip \/ aild.pc # "push"
      BY <1>0, <2>1, AilAssumption DEF ItemShape
    <2>3. \A u \in Txs : tx'[u].pc \in {"held", "writing"} => lock'[tx'[u].item] = u
      BY <1>0, <2>1, <2>2
    <2>4. aild'.pc = "push" => lock'[aild'.lip] = Push /\ aild'.result \in {"SUCCESS", "PUSHBUF"}
      BY <1>0, <2>1, <2>2
    <2>5. \A j \in Items : Held(j)' => flushing'[j]
      BY <1>0, <2>1 DEF Held
    <2> QED BY <2>3, <2>4, <2>5 DEF LockOK
  <1>3. ASSUME NEW t \in Txs, CommitRecord(t) PROVE LockOK'
    <2> PICK i : i = tx[t].item
      OBVIOUS
    <2>1. /\ lock' = [lock EXCEPT ![i] = NULL] /\ lock[i] = t /\ UNCHANGED <<flushing, aild>>
          /\ \A u \in Txs \ {t} : tx'[u] = tx[u]
          /\ tx'[t].pc = "logged" /\ i \in Items
      BY <1>0, <1>3 DEF CommitRecord, TxShape, TxRec
    <2>2. \A j \in Items : lock'[j] = IF j = i THEN NULL ELSE lock[j]
      BY <1>0, <2>1 DEF ItemShape
    <2>3. \A u \in Txs : tx'[u].pc \in {"held", "writing"} => lock'[tx'[u].item] = u
      BY <1>0, <2>1, <2>2
    <2>4. aild'.pc = "push" => lock'[aild'.lip] = Push /\ aild'.result \in {"SUCCESS", "PUSHBUF"}
      BY <1>0, <2>1, <2>2
    <2>5. \A j \in Items : Held(j)' => flushing'[j]
      BY <1>0, <2>1 DEF Held
    <2> QED BY <2>3, <2>4, <2>5 DEF LockOK
  <1>4. ASSUME NEW i \in Items, SyncInode(i) PROVE LockOK'
    <2>1. UNCHANGED <<tx, lock, aild>> /\ \A j \in Items : flushing[j] => flushing'[j]
      BY <1>0, <1>4 DEF SyncInode, Iflush, ItemShape
    <2> QED BY <1>0, <2>1 DEF LockOK, Held
  <1>5. ASSUME NEW i \in Items, IflushDone(i) PROVE LockOK'
    <2>1. UNCHANGED <<tx, lock, aild>> /\ ~Held(i) /\ flushing' = [flushing EXCEPT ![i] = FALSE]
      BY <1>5 DEF IflushDone, Held
    <2> QED BY <1>0, <2>1 DEF LockOK, Held, ItemShape
  <1>6. CASE PushTry
    <2> PICK i : i = aild.lip
      OBVIOUS
    <2> PICK r : r = Trylock(i)
      OBVIOUS
    <2>1. i \in Items /\ UNCHANGED tx /\ r \in Results
      BY <1>0, <1>6 DEF PushTry, Trylock, Results
    <2>2. r \in {"SUCCESS", "PUSHBUF"} => lock[i] = NULL
      BY <2>1, PinIs DEF Trylock
    <2>3. CASE r \in {"SUCCESS", "PUSHBUF"}
      <3>1. /\ lock' = [lock EXCEPT ![i] = Push] /\ aild'.result = r /\ aild'.lip = i
            /\ flushing' = [flushing EXCEPT ![i] = flushing[i] \/ r = "SUCCESS"]
        BY <1>0, <1>6, <2>3 DEF PushTry, PushRec
      <3>2. \A u \in Txs : tx'[u].pc \in {"held", "writing"} => lock'[tx'[u].item] = u
        BY <1>0, <2>1, <2>2, <2>3, <3>1 DEF ItemShape
      <3>3. lock'[i] = Push
        BY <1>0, <2>1, <3>1 DEF ItemShape
      <3>4. r = "SUCCESS" => flushing'[i] = TRUE
        BY <1>0, <2>1, <3>1 DEF ItemShape
      <3> QED BY <2>3, <3>1, <3>2, <3>3, <3>4 DEF LockOK, Held
    <2>4. CASE r \notin {"SUCCESS", "PUSHBUF"}
      <3>1. lock' = lock /\ aild'.pc = "next"
        BY <1>0, <1>6, <2>1, <2>4 DEF PushTry, PushRec, ItemShape
      <3> QED BY <1>0, <2>1, <3>1 DEF LockOK, Held
    <2> QED BY <2>3, <2>4
  <1>7. CASE PushItem
    <2> PICK i : i = aild.lip
      OBVIOUS
    <2>1. i \in Items /\ lock[i] = Push /\ lock' = [lock EXCEPT ![i] = NULL] /\ aild'.pc = "next"
          /\ UNCHANGED tx
      BY <1>0, <1>7 DEF PushItem, PushRec
    <2>2. \A u \in Txs : tx'[u].pc \in {"held", "writing"} => lock'[tx'[u].item] = u
      BY <1>0, <2>1 DEF ItemShape
    <2> QED BY <2>1, <2>2 DEF LockOK, Held
  <1>8. CASE PushFirst \/ PushNext \/ PushEnd
    <2>1. UNCHANGED <<lock, tx, flushing>> /\ (aild' = aild \/ aild'.pc # "push")
      <3>1. CASE PushFirst
        BY <3>1 DEF PushFirst, NoPush, item
      <3>2. CASE PushNext
        BY <1>0, <3>2 DEF PushNext, PushRec, item
      <3>3. CASE PushEnd
        BY <3>3 DEF PushEnd, NoPush, item
      <3> QED BY <1>8, <3>1, <3>2, <3>3
    <2> QED BY <1>0, <2>1 DEF LockOK, Held
  <1>9. ASSUME NEW t \in Txs, Commit(t) \/ Committed(t) \/ Unpin(t) PROVE LockOK'
    <2>1. /\ UNCHANGED <<lock, flushing, aild>> /\ \A u \in Txs \ {t} : tx'[u] = tx[u]
          /\ tx'[t].item = tx[t].item
          /\ tx[t].pc = "held" \/ tx'[t].pc \notin {"held", "writing"}
      BY <1>0, <1>9 DEF Commit, Committed, Unpin, item, TxShape, TxRec
    <2> QED BY <1>0, <2>1 DEF LockOK, Held
  <1>10. \/ UNCHANGED <<lock, flushing, aild, tx>>
         \/ (\E t \in Txs, i \in Items : \E F \in SUBSET Fields \ {{}} : LogInode(t, i, F))
         \/ (\E t \in Txs : Commit(t) \/ CommitRecord(t) \/ Committed(t) \/ Unpin(t))
         \/ (\E i \in Items : SyncInode(i) \/ IflushDone(i)) \/ Aild
    BY DEF Next, vars, item, CloseRecord, Shutdown, AilPush, WalkFirst, WalkNext, WalkDone
  <1>11. UNCHANGED <<lock, flushing, aild, tx>> => LockOK'
    BY <1>0 DEF LockOK, Held
  <1> QED BY <1>2, <1>3, <1>4, <1>5, <1>6, <1>7, <1>8, <1>9, <1>10, <1>11 DEF Aild

\* Every step keeps the pin count.
LEMMA PinStep ==
  ASSUME Base, LockOK, PinOK, [Next]_vars
  PROVE  PinOK'
  <1>0. /\ TxShape /\ ItemShape /\ aild \in PushRec /\ (aild.pc \in {"try", "push"} => aild.lip \in Items)
        /\ \A i \in Items : /\ IsFiniteSet(Pinners(i)) /\ pin[i] = Cardinality(Pinners(i))
                            /\ Held(i) => Pinners(i) = {}
        /\ \A t \in Txs : tx[t].pc # "idle" => tx[t].item \in Items
        /\ \A t \in Txs : tx[t].pc \in {"held", "writing"} => lock[tx[t].item] = t
        /\ aild.pc = "push" => lock[aild.lip] = Push
        /\ Push \notin Txs
    BY AilAssumption DEF Base, PushShape, LockOK, PinOK, TxShape
  <1>s. ASSUME NEW t \in Txs, \A u \in Txs \ {t} : tx'[u] = tx[u], UNCHANGED pin,
               tx'[t].item = tx[t].item \/ tx[t].pc \notin Pinned,
               tx'[t].pc \in Pinned <=> tx[t].pc \in Pinned, \A i \in Items : Held(i)' => Held(i)
        PROVE  PinOK'
    <2>1. \A i : Pinners(i)' = Pinners(i)
      BY <1>s DEF Pinners
    <2> QED BY <1>0, <1>s, <2>1 DEF PinOK
  <1>1. ASSUME NEW t \in Txs, NEW i \in Items, NEW F \in SUBSET Fields, LogInode(t, i, F)
        PROVE  PinOK'
    <2>1. /\ UNCHANGED <<pin, aild>> /\ tx[t].pc = "idle" /\ tx'[t].pc = "held"
          /\ \A u \in Txs \ {t} : tx'[u] = tx[u]
      BY <1>0, <1>1 DEF LogInode, TxShape, NoTx
    <2> QED BY <1>s, <2>1 DEF Held, Pinned
  <1>2. ASSUME NEW t \in Txs, Commit(t) PROVE PinOK'
    <2> PICK i : i = tx[t].item
      OBVIOUS
    <2>1. /\ i \in Items /\ pin' = [pin EXCEPT ![i] = @ + 1] /\ aild' = aild
          /\ \A u \in Txs \ {t} : tx'[u] = tx[u]
          /\ tx'[t].item = i /\ tx'[t].pc = "writing" /\ tx[t].pc = "held"
      BY <1>0, <1>2 DEF Commit, TxShape, TxRec
    <2>2. \A j \in Items : Pinners(j)' = IF j = i THEN Pinners(j) \cup {t} ELSE Pinners(j)
      BY <2>1 DEF Pinners, Pinned
    <2>3. t \notin Pinners(i)
      BY <2>1 DEF Pinners, Pinned
    <2>4. IsFiniteSet(Pinners(i)') /\ Cardinality(Pinners(i)') = Cardinality(Pinners(i)) + 1
      BY <1>0, <2>1, <2>2, <2>3, FS_AddElement
    <2>5. ~Held(i) /\ \A j \in Items : Held(j)' = Held(j)
      BY <1>0, <2>1 DEF Held
    <2>6. \A j \in Items : pin'[j] = IF j = i THEN pin[j] + 1 ELSE pin[j]
      BY <1>0, <2>1 DEF ItemShape
    <2>7. ASSUME NEW j \in Items
          PROVE  /\ IsFiniteSet(Pinners(j)') /\ pin'[j] = Cardinality(Pinners(j)')
                 /\ Held(j)' => Pinners(j)' = {}
      <3>1. CASE j = i
        BY <1>0, <2>4, <2>5, <2>6, <3>1
      <3>2. CASE j # i
        BY <1>0, <2>2, <2>5, <2>6, <3>2
      <3> QED BY <3>1, <3>2
    <2> QED BY <2>7 DEF PinOK
  <1>3. ASSUME NEW t \in Txs, Unpin(t) PROVE PinOK'
    <2> PICK i : i = tx[t].item
      OBVIOUS
    <2>1. /\ i \in Items /\ pin' = [pin EXCEPT ![i] = @ - 1] /\ aild' = aild
          /\ \A u \in Txs \ {t} : tx'[u] = tx[u]
          /\ tx'[t].item = i /\ tx'[t].pc = "done" /\ tx[t].pc = "committed"
      BY <1>0, <1>3 DEF Unpin, TxShape, TxRec
    <2>2. \A j \in Items : Pinners(j)' = IF j = i THEN Pinners(j) \ {t} ELSE Pinners(j)
      BY <2>1 DEF Pinners, Pinned
    <2>3. t \in Pinners(i)
      BY <2>1 DEF Pinners, Pinned
    <2>4. IsFiniteSet(Pinners(i)') /\ Cardinality(Pinners(i)') = Cardinality(Pinners(i)) - 1
      BY <1>0, <2>1, <2>2, <2>3, FS_RemoveElement
    <2>5. \A j \in Items : Held(j)' = Held(j)
      BY <2>1 DEF Held
    <2>6. \A j \in Items : pin'[j] = IF j = i THEN pin[j] - 1 ELSE pin[j]
      BY <1>0, <2>1 DEF ItemShape
    <2>7. ASSUME NEW j \in Items
          PROVE  /\ IsFiniteSet(Pinners(j)') /\ pin'[j] = Cardinality(Pinners(j)')
                 /\ Held(j)' => Pinners(j)' = {}
      <3>1. CASE j = i
        BY <1>0, <2>2, <2>4, <2>5, <2>6, <3>1
      <3>2. CASE j # i
        BY <1>0, <2>2, <2>5, <2>6, <3>2
      <3> QED BY <3>1, <3>2
    <2> QED BY <2>7 DEF PinOK
  <1>4. ASSUME NEW t \in Txs, CommitRecord(t) \/ Committed(t) PROVE PinOK'
    <2>1. /\ UNCHANGED <<pin, aild>> /\ \A u \in Txs \ {t} : tx'[u] = tx[u]
          /\ tx'[t].item = tx[t].item /\ tx'[t].pc \in Pinned /\ tx[t].pc \in Pinned
      BY <1>0, <1>4 DEF CommitRecord, Committed, item, TxShape, TxRec, Pinned
    <2> QED BY <1>s, <2>1 DEF Held
  <1>5. CASE PushTry
    <2> PICK i : i = aild.lip
      OBVIOUS
    <2>1. /\ i \in Items /\ UNCHANGED <<tx, pin>>
          /\ aild'.result = Trylock(i) /\ aild'.lip = i
      BY <1>0, <1>5 DEF PushTry, PushRec
    <2>2. Trylock(i) = "SUCCESS" => pin[i] = 0
      BY <2>1, PinIs DEF Trylock
    <2>3. \A j : Pinners(j)' = Pinners(j)
      BY <2>1 DEF Pinners
    <2>4. \A j \in Items : Held(j)' => Pinners(j) = {}
      BY <2>1, <2>2, PinIs DEF Held
    <2> QED BY <1>0, <2>1, <2>3, <2>4 DEF PinOK
  <1>6. CASE UNCHANGED <<tx, pin>> /\ (aild' = aild \/ aild'.pc # "push")
    <2>1. \A j : Pinners(j)' = Pinners(j)
      BY <1>6 DEF Pinners
    <2>2. \A j \in Items : Held(j)' => Held(j)
      BY <1>6 DEF Held
    <2> QED BY <1>0, <1>6, <2>1, <2>2 DEF PinOK
  <1>7. CASE PushFirst \/ PushItem \/ PushNext \/ PushEnd
    <2>1. UNCHANGED <<tx, pin>> /\ (aild' = aild \/ aild'.pc # "push")
      <3>1. CASE PushFirst
        BY <3>1 DEF PushFirst, NoPush, item
      <3>2. CASE PushNext
        BY <1>0, <3>2 DEF PushNext, PushRec, item
      <3>3. CASE PushEnd
        BY <3>3 DEF PushEnd, NoPush, item
      <3>4. CASE PushItem
        BY <1>0, <3>4 DEF PushItem, PushRec
      <3> QED BY <1>7, <3>1, <3>2, <3>3, <3>4
    <2> QED BY <1>6, <2>1
  <1>8. \/ UNCHANGED <<tx, pin, aild>>
        \/ (\E t \in Txs, i \in Items : \E F \in SUBSET Fields \ {{}} : LogInode(t, i, F))
        \/ (\E t \in Txs : Commit(t) \/ CommitRecord(t) \/ Committed(t) \/ Unpin(t)) \/ Aild
    BY DEF Next, vars, item, CloseRecord, Shutdown, SyncInode, IflushDone, AilPush, WalkFirst,
       WalkNext, WalkDone
  <1> QED BY <1>1, <1>2, <1>3, <1>4, <1>5, <1>6, <1>7, <1>8 DEF Aild

\* Nobody has a lock or a pin at mount.
LEMMA LockInit == ASSUME Init PROVE LockOK /\ PinOK
  <1>1. /\ \A t \in Txs : tx[t].pc = "idle"
        /\ aild.pc = "idle" /\ pin = [i \in Items |-> 0]
    BY DEF Init, NoTx, NoPush
  <1>2. \A i : Pinners(i) = {}
    BY <1>1 DEF Pinners, Pinned
  <1> QED BY <1>1, <1>2, FS_EmptySet DEF LockOK, PinOK, Held

\* A transaction has its inode locked until it has written its commit record, xfsaild
\* has the inode and the flush lock it hands on, the pin count counts the transactions
\* whose callbacks have not run, and nobody flushes an inode somebody pins.
THEOREM LocksHold == Spec => [](LockOK /\ PinOK)
  <1>1. Init => LockOK /\ PinOK
    BY LockInit
  <1>2. Base /\ LockOK /\ PinOK /\ [Next]_vars => (LockOK /\ PinOK)'
    BY LockStep, PinStep
  <1> QED BY <1>1, <1>2, BaseHolds, PTL DEF Spec

\* Who hands an inode to its buffer: nobody pins it or has it locked.
FlushesNow(i) ==
  /\ Iflush(i) /\ ~InFlight(i) /\ InFlight(i)' /\ Pinners(i) = {} /\ lock[i] \in {NULL, Push}
  /\ fields[i] # {} /\ UNCHANGED <<val, disk, pin, tx, li, curr>>
  /\ \A j \in Items \ {i} : InFlight(j)' <=> InFlight(j)

\* Nothing happens to the contents of the items, but perhaps in a transaction.
ValuesStay ==
  /\ UNCHANGED <<val, sent, disk, fields, last, flushLsn>>
  /\ \A i \in Items : InFlight(i)' <=> InFlight(i)
Quiet == ValuesStay /\ UNCHANGED <<tx, li>>

\* A flush by xfsaild or by somebody else is a FlushesNow; a clean inode is given up.
LEMMA FlushIs ==
  ASSUME Base, LockOK, PinOK, ~shut, NEW i \in Items, SyncInode(i) \/ (PushItem /\ aild.lip = i)
  PROVE  \/ FlushesNow(i)
         \/ Quiet
  <1>0. /\ ItemShape /\ aild \in PushRec
        /\ aild.pc = "push" => lock[aild.lip] = Push /\ aild.result \in {"SUCCESS", "PUSHBUF"}
        /\ \A j \in Items : Held(j) => flushing[j]
        /\ \A j \in Items : Held(j) => Pinners(j) = {}
    BY DEF Base, PushShape, LockOK, PinOK
  <1>f. ASSUME Iflush(i) PROVE flushing'[i] = TRUE /\ \A j \in Items \ {i} : flushing'[j] = flushing[j]
    BY <1>0, <1>f DEF Iflush, ItemShape
  <1>1. CASE SyncInode(i)
    <2>1. /\ Iflush(i) /\ lock[i] = NULL /\ ~flushing[i] /\ pin[i] = 0 /\ fields[i] # {}
          /\ UNCHANGED <<val, disk, pin, tx, aild, li, curr>>
      BY <1>1 DEF SyncInode, logv, list
    <2>2. Pinners(i) = {} /\ ~Held(i)
      BY <1>0, <2>1, PinIs
    <2>3. \A j \in Items : Held(j)' = Held(j)
      BY <2>1 DEF Held
    <2> QED BY <1>f, <2>1, <2>2, <2>3 DEF FlushesNow, InFlight
  <1>2. CASE PushItem /\ aild.lip = i
    <2>1. /\ aild.pc = "push" /\ lock[i] = Push /\ aild'.pc = "next"
          /\ UNCHANGED <<val, disk, pin, tx, li, curr>>
      BY <1>0, <1>2 DEF PushItem, PushRec, logv, list
    <2>2. \A j \in Items : ~Held(j)' /\ (j # i => ~Held(j))
      BY <1>2, <2>1 DEF Held
    <2>3. CASE aild.result = "SUCCESS" /\ fields[i] # {}
      <3>1. Iflush(i) /\ Held(i)
        BY <1>2, <2>1, <2>3 DEF PushItem, Held
      <3> QED BY <1>0, <1>f, <2>1, <2>2, <2>3, <3>1 DEF FlushesNow, InFlight
    <2>4. CASE aild.result = "SUCCESS" /\ fields[i] = {}
      <3>1. /\ flushing' = [flushing EXCEPT ![i] = @ /\ FALSE] /\ fields' = [fields EXCEPT ![i] = {}]
            /\ UNCHANGED <<flushLsn, last, sent>>
        BY <1>2, <2>4 DEF PushItem
      <3>2. fields' = fields /\ flushing'[i] = FALSE /\ \A j \in Items \ {i} : flushing'[j] = flushing[j]
        BY <1>0, <2>4, <3>1 DEF ItemShape
      <3>3. Held(i)
        BY <1>2, <2>1, <2>4 DEF Held
      <3> QED BY <2>1, <2>2, <3>1, <3>2, <3>3 DEF InFlight, Quiet, ValuesStay
    <2>5. CASE aild.result # "SUCCESS"
      <3>1. UNCHANGED <<flushing, fields, flushLsn, last, sent>>
        BY <1>0, <1>2, <2>5 DEF PushItem, ItemShape
      <3>2. ~Held(i)
        BY <2>5 DEF Held
      <3> QED BY <2>1, <2>2, <3>1, <3>2 DEF InFlight, Quiet, ValuesStay
    <2> QED BY <2>3, <2>4, <2>5
  <1> QED BY <1>1, <1>2

\* What a step of a live filesystem does to the contents of the items.
LEMMA LiveIs ==
  ASSUME Base, LockOK, PinOK, ~shut, [Next]_vars
  PROVE  \/ \E t \in Txs, i \in Items : \E F \in SUBSET Fields \ {{}} : LogInode(t, i, F)
         \/ \E t \in Txs : (Commit(t) \/ CommitRecord(t) \/ Committed(t) \/ Unpin(t)) /\ ValuesStay
         \/ \E i \in Items : FlushesNow(i) \/ IflushDone(i)
         \/ Quiet
  <1>0. /\ ItemShape /\ aild \in PushRec
        /\ (aild.pc \in {"try", "push"} => aild.lip \in Items)
        /\ \A j \in Items : Held(j) => flushing[j]
    BY DEF Base, PushShape, LockOK
  <1>1. ASSUME NEW t \in Txs, Commit(t) \/ CommitRecord(t) \/ Committed(t) \/ Unpin(t) PROVE ValuesStay
    BY <1>1 DEF Commit, CommitRecord, Committed, Unpin, ValuesStay, InFlight, Held, item
  <1>2. CASE PushItem
    BY <1>0, <1>2, FlushIs DEF PushItem
  <1>3. CASE PushTry
    <2> PICK i : i = aild.lip
      OBVIOUS
    <2>1. /\ i \in Items /\ UNCHANGED <<val, sent, disk, fields, last, flushLsn, tx, li>>
          /\ flushing' = [flushing EXCEPT ![i] = @ \/ Trylock(i) = "SUCCESS"]
          /\ aild'.lip = i /\ aild'.result = Trylock(i) /\ aild.pc = "try"
          /\ aild'.pc = IF Trylock(i) \in {"SUCCESS", "PUSHBUF"} THEN "push" ELSE "next"
      BY <1>0, <1>3 DEF PushTry, PushRec, list
    <2>2. \A j \in Items \ {i} : (InFlight(j)' <=> InFlight(j))
      BY <1>0, <2>1 DEF InFlight, Held, ItemShape
    <2>3. CASE Trylock(i) = "SUCCESS"
      <3>1. ~flushing[i]
        BY <2>1, <2>3, PinIs DEF Trylock
      <3>2. ~InFlight(i) /\ ~InFlight(i)'
        BY <2>1, <2>3, <3>1 DEF InFlight, Held
      <3> QED BY <2>1, <2>2, <3>2 DEF Quiet, ValuesStay
    <2>4. CASE Trylock(i) # "SUCCESS"
      <3>1. flushing'[i] = flushing[i] /\ ~Held(i) /\ ~Held(i)'
        BY <1>0, <2>1, <2>4 DEF Held, ItemShape
      <3> QED BY <2>1, <2>2, <3>1 DEF Quiet, ValuesStay, InFlight
    <2> QED BY <2>3, <2>4
  <1>4. CASE PushFirst \/ PushNext \/ PushEnd
    <2>1. UNCHANGED <<item, tx, li>> /\ (aild' = aild \/ (aild.pc # "push" /\ aild'.pc # "push"))
      <3>1. CASE PushFirst
        BY <3>1 DEF PushFirst, NoPush, list
      <3>2. CASE PushNext
        BY <1>0, <3>2 DEF PushNext, PushRec, list
      <3>3. CASE PushEnd
        BY <3>3 DEF PushEnd, NoPush, list
      <3> QED BY <1>4, <3>1, <3>2, <3>3
    <2> QED BY <2>1 DEF Quiet, ValuesStay, InFlight, Held, item
  <1>5. CASE UNCHANGED <<item, tx, li, aild>>
    BY <1>5 DEF Quiet, ValuesStay, InFlight, Held, item
  <1>6. \/ UNCHANGED <<item, tx, li, aild>>
        \/ (\E t \in Txs, i \in Items : \E F \in SUBSET Fields \ {{}} : LogInode(t, i, F))
        \/ (\E t \in Txs : Commit(t) \/ CommitRecord(t) \/ Committed(t) \/ Unpin(t))
        \/ (\E i \in Items : SyncInode(i) \/ IflushDone(i)) \/ Aild
    BY DEF Next, vars, list, CloseRecord, Shutdown, AilPush, WalkFirst, WalkNext, WalkDone
  <1> QED BY <1>1, <1>2, <1>3, <1>4, <1>5, <1>6, FlushIs DEF Aild

\* Every step keeps the disk behind the buffer and the buffer behind the inode.
LEMMA ValueStep ==
  ASSUME Base, LockOK, PinOK, ValueOK, ~shut, [Next]_vars
  PROVE  ValueOK'
  <1>0. ItemShape /\ ItemShape' /\ \A i \in Items : ValueOf(i)
    BY ItemStep DEF Base, ValueOK
  <1>v. /\ \A i \in Items, f \in Fields : val[i][f] \in Nat /\ sent[i][f] \in Nat /\ disk[i][f] \in Nat
    BY <1>0 DEF ItemShape, Values
  <1>1. ASSUME ValuesStay PROVE ValueOK'
    BY <1>0, <1>1 DEF ValuesStay, ValueOK, ValueOf, Upto
  <1>2. ASSUME NEW t \in Txs, NEW i \in Items, NEW F \in SUBSET Fields, LogInode(t, i, F)
        PROVE  ValueOK'
    <2>1. /\ UNCHANGED <<flushing, aild, last, sent, disk>>
          /\ \A f \in Fields : val'[i][f] = val[i][f] + IF f \in F THEN 1 ELSE 0
          /\ fields'[i] = fields[i] \cup F \cup last[i]
          /\ \A j \in Items \ {i} : val'[j] = val[j] /\ fields'[j] = fields[j]
      BY <1>0, <1>2 DEF LogInode, Relogged, ItemShape
    <2>2. \A j \in Items : InFlight(j)' <=> InFlight(j)
      BY <2>1 DEF InFlight, Held
    <2>3. \A j \in Items \ {i} : ValueOf(j)'
      BY <1>0, <2>1, <2>2 DEF ValueOf, Upto
    <2>4. \A f \in Fields : val'[i][f] >= val[i][f] /\ (f \notin fields'[i] =>
                val'[i][f] = val[i][f] /\ f \notin fields[i])
      BY <1>v, <2>1
    <2>5. \A f \in Fields : val'[i][f] \in Nat
      BY <1>v, <2>1
    <2>6. ValueOf(i)'
      BY <1>0, <1>v, <2>1, <2>2, <2>4, <2>5 DEF ValueOf, Upto
    <2> QED BY <2>3, <2>6 DEF ValueOK
  <1>3. ASSUME NEW i \in Items, FlushesNow(i) PROVE ValueOK'
    <2>1. /\ UNCHANGED <<val, disk>> /\ ~InFlight(i) /\ InFlight(i)'
          /\ sent'[i] = val[i] /\ last'[i] = fields[i] /\ fields'[i] = {}
          /\ \A j \in Items \ {i} : /\ sent'[j] = sent[j] /\ last'[j] = last[j] /\ fields'[j] = fields[j]
                                    /\ InFlight(j)' <=> InFlight(j)
      BY <1>0, <1>3 DEF FlushesNow, Iflush, ItemShape
    <2>2. \A j \in Items \ {i} : ValueOf(j)'
      BY <1>0, <2>1 DEF ValueOf, Upto
    <2>3. \A f \in Fields : disk[i][f] = sent[i][f]
      BY <1>0, <2>1 DEF ValueOf
    <2>4. ValueOf(i)'
      BY <1>0, <1>v, <2>1, <2>3 DEF ValueOf, Upto
    <2> QED BY <2>2, <2>4 DEF ValueOK
  <1>4. ASSUME NEW i \in Items, IflushDone(i) PROVE ValueOK'
    <2>1. /\ UNCHANGED <<val, sent, fields, aild>> /\ disk'[i] = sent[i] /\ last'[i] = {}
          /\ flushing'[i] = FALSE
          /\ \A j \in Items \ {i} : last'[j] = last[j] /\ disk'[j] = disk[j] /\ flushing'[j] = flushing[j]
      BY <1>0, <1>4 DEF IflushDone, ItemShape
    <2>2. ~InFlight(i)' /\ \A j \in Items \ {i} : InFlight(j)' <=> InFlight(j)
      BY <2>1 DEF InFlight, Held
    <2>3. \A j \in Items \ {i} : ValueOf(j)'
      BY <1>0, <2>1, <2>2 DEF ValueOf, Upto
    <2>4. ValueOf(i)'
      BY <1>0, <1>v, <2>1, <2>2 DEF ValueOf, Upto
    <2> QED BY <2>3, <2>4 DEF ValueOK
  <1> QED BY <1>1, <1>2, <1>3, <1>4, LiveIs DEF Quiet

\* Every step keeps what is not in the log out of the buffer.
LEMMA AheadStep ==
  ASSUME Base, LockOK, PinOK, ValueOK, AheadOK, ~shut, [Next]_vars
  PROVE  AheadOK'
  <1>0. /\ ItemShape /\ TxShape /\ \A i \in Items : ValueOf(i)
        /\ \A t \in Txs : AheadFor(t)
        /\ \A t \in Txs : tx[t].pc \in {"held", "writing"} => lock[tx[t].item] = t
        /\ \A t \in Txs : tx[t].pc # "idle" => tx[t].item \in Items
        /\ \A t \in Txs : tx[t].mod \in SUBSET Fields
        /\ NULL \notin Txs /\ Push \notin Txs
    BY AilAssumption DEF Base, ValueOK, AheadOK, LockOK, TxShape, TxRec
  <1>v. /\ \A i \in Items, f \in Fields : val[i][f] \in Nat /\ sent[i][f] \in Nat /\ disk[i][f] \in Nat
    BY <1>0 DEF ItemShape, Values
  <1>s. ASSUME NEW u \in Txs, tx'[u] = tx[u],
               tx[u].pc # "idle" =>
                 /\ sent'[tx[u].item] = sent[tx[u].item] /\ val'[tx[u].item] = val[tx[u].item]
                 /\ fields'[tx[u].item] = fields[tx[u].item] /\ disk'[tx[u].item] = disk[tx[u].item]
        PROVE  AheadFor(u)'
    BY <1>0, <1>s DEF AheadFor
  <1>1. ASSUME NEW t \in Txs, NEW i \in Items, NEW F \in SUBSET Fields, LogInode(t, i, F)
        PROVE  AheadOK'
    <2>1. /\ UNCHANGED <<sent, disk>> /\ lock[i] = NULL
          /\ \A f \in Fields : val'[i][f] = val[i][f] + IF f \in F THEN 1 ELSE 0
          /\ fields'[i] = fields[i] \cup F \cup last[i]
          /\ \A j \in Items \ {i} : val'[j] = val[j] /\ fields'[j] = fields[j]
          /\ \A u \in Txs \ {t} : tx'[u] = tx[u]
          /\ tx'[t].item = i /\ tx'[t].pc = "held" /\ tx'[t].mod = F
      BY <1>0, <1>1 DEF LogInode, Relogged, ItemShape, TxShape, NoTx
    <2>2. ASSUME NEW u \in Txs \ {t} PROVE AheadFor(u)'
      <3>1. CASE tx[u].pc = "idle" \/ tx[u].item # i
        BY <1>s, <1>0, <2>1, <3>1
      <3>2. CASE tx[u].pc # "idle" /\ tx[u].item = i
        <4>1. tx[u].pc \notin {"held", "writing"}
          BY <1>0, <2>1, <3>2
        <4> QED BY <1>0, <2>1, <4>1 DEF AheadFor
      <3> QED BY <3>1, <3>2
    <2>3. \A f \in F : sent[i][f] < val'[i][f]
      BY <1>0, <1>v, <2>1 DEF ValueOf, Upto
    <2>4. \A f \in Fields : disk[i][f] < val'[i][f] => f \in fields'[i]
      BY <1>0, <1>v, <2>1 DEF ValueOf
    <2>5. AheadFor(t)'
      BY <2>1, <2>3, <2>4 DEF AheadFor
    <2> QED BY <2>2, <2>5 DEF AheadOK
  <1>2. ASSUME NEW t \in Txs, ValuesStay, Commit(t) \/ CommitRecord(t) \/ Committed(t) \/ Unpin(t)
        PROVE  AheadOK'
    <2> PICK i : i = tx[t].item
      OBVIOUS
    <2>1. UNCHANGED <<val, sent, disk, fields>> /\ \A u \in Txs \ {t} : tx'[u] = tx[u]
      BY <1>0, <1>2 DEF ValuesStay, Commit, CommitRecord, Committed, Unpin, TxShape
    <2>2. \A u \in Txs \ {t} : AheadFor(u)'
      BY <1>s, <2>1
    <2>3. CASE Commit(t)
      <3>1. /\ tx[t].pc = "held" /\ tx'[t].pc = "writing" /\ tx'[t].item = i /\ tx'[t].mod = tx[t].mod
            /\ tx'[t].val = val[i] /\ tx'[t].set = fields[i]
        BY <1>0, <2>3 DEF Commit, TxShape, TxRec
      <3> QED BY <1>0, <2>1, <2>2, <3>1 DEF AheadFor, AheadOK
    <2>4. CASE CommitRecord(t)
      <3>1. /\ tx[t].pc = "writing" /\ tx'[t].pc = "logged" /\ tx'[t].item = i /\ tx'[t].mod = tx[t].mod
            /\ tx'[t].val = tx[t].val
        BY <1>0, <2>4 DEF CommitRecord, TxShape, TxRec
      <3> QED BY <1>0, <2>1, <2>2, <3>1 DEF AheadFor, AheadOK
    <2>5. CASE Committed(t) \/ Unpin(t)
      <3>1. tx'[t].pc \in {"committed", "done"}
        BY <1>0, <2>5 DEF Committed, Unpin, TxShape, TxRec
      <3> QED BY <2>2, <3>1 DEF AheadFor, AheadOK
    <2> QED BY <1>2, <2>3, <2>4, <2>5
  <1>3. ASSUME NEW i \in Items, FlushesNow(i) PROVE AheadOK'
    <2>1. /\ UNCHANGED <<val, disk, tx>> /\ Pinners(i) = {} /\ lock[i] \in {NULL, Push}
          /\ \A j \in Items \ {i} : sent'[j] = sent[j] /\ fields'[j] = fields[j]
      BY <1>0, <1>3 DEF FlushesNow, Iflush, ItemShape
    <2>2. ASSUME NEW u \in Txs PROVE AheadFor(u)'
      <3>1. CASE tx[u].pc = "idle" \/ tx[u].item # i
        BY <1>s, <1>0, <2>1, <3>1
      <3>2. CASE tx[u].pc # "idle" /\ tx[u].item = i
        <4>1. tx[u].pc \notin {"held", "writing", "logged"}
          BY <1>0, <2>1, <3>2 DEF Pinners, Pinned
        <4> QED BY <2>1, <4>1 DEF AheadFor
      <3> QED BY <3>1, <3>2
    <2> QED BY <2>2 DEF AheadOK
  <1>4. ASSUME NEW i \in Items, IflushDone(i) PROVE AheadOK'
    <2>1. /\ UNCHANGED <<val, sent, fields, tx>> /\ disk'[i] = sent[i]
          /\ \A j \in Items \ {i} : disk'[j] = disk[j]
      BY <1>0, <1>4 DEF IflushDone, ItemShape
    <2>2. \A j \in Items, f \in Fields : disk'[j][f] < val[j][f] => disk[j][f] < val[j][f]
      BY <1>0, <1>v, <2>1 DEF ValueOf, Upto
    <2>3. ASSUME NEW u \in Txs PROVE AheadFor(u)'
      <3>1. CASE tx[u].pc = "idle"
        BY <2>1, <3>1 DEF AheadFor
      <3>2. CASE tx[u].pc # "idle"
        BY <1>0, <2>1, <2>2, <3>2 DEF AheadFor
      <3> QED BY <3>1, <3>2
    <2> QED BY <2>3 DEF AheadOK
  <1>5. CASE Quiet
    BY <1>s, <1>5 DEF Quiet, ValuesStay, AheadOK
  <1> QED BY <1>1, <1>2, <1>3, <1>4, <1>5, LiveIs

\* Nothing is logged at mount.
LEMMA AheadInit == ASSUME Init PROVE ValueOK /\ AheadOK
  <1>1. /\ \A t \in Txs : tx[t].pc = "idle"
        /\ \A i \in Items : last[i] = {} /\ disk[i] = val[i] /\ sent[i] = val[i]
        /\ \A i \in Items, f \in Fields : val[i][f] = 0
    BY DEF Init, NoTx
  <1> QED BY <1>1 DEF ValueOK, ValueOf, Upto, AheadOK, AheadFor

\* Write-ahead follows.
LEMMA AheadIs == ASSUME Base, ~shut => ValueOK /\ AheadOK PROVE WriteAhead
  <1>0. SUFFICES ASSUME ~shut, NEW t \in Txs, tx[t].pc \in {"held", "writing", "logged"}, NEW f \in tx[t].mod
                 PROVE  LET i == tx[t].item
                            v == IF tx[t].pc = "held" THEN val[i][f] ELSE tx[t].val[f]
                        IN disk[i][f] < v /\ (flushing[i] => sent[i][f] < v)
    BY DEF WriteAhead
  <1> PICK i : i = tx[t].item
    OBVIOUS
  <1>1. /\ i \in Items /\ f \in Fields /\ val[i][f] \in Nat /\ sent[i][f] \in Nat /\ disk[i][f] \in Nat
        /\ tx[t].val[f] \in Nat
    BY <1>0 DEF Base, TxShape, TxRec, ItemShape, Values
  <1>2. disk[i][f] <= sent[i][f] /\ AheadFor(t)
    BY <1>0, <1>1 DEF ValueOK, ValueOf, Upto, AheadOK
  <1>3. CASE tx[t].pc = "held"
    BY <1>0, <1>1, <1>2, <1>3 DEF AheadFor
  <1>4. CASE tx[t].pc # "held"
    <2>1. sent[i][f] < tx[t].val[f]
      BY <1>0, <1>1, <1>2, <1>4 DEF AheadFor
    <2> QED BY <1>0, <1>1, <1>2, <1>4, <2>1
  <1> QED BY <1>3, <1>4

\* What is not marked for logging is in the buffer, and what is not being flushed is
\* on disk (ilf_fields, ili_last_fields).
THEOREM ValuesHold == Spec => [](~shut => ValueOK /\ AheadOK)
  <1>1. Init => (~shut => ValueOK /\ AheadOK)
    BY AheadInit
  <1>2. Base /\ LockOK /\ PinOK /\ (~shut => ValueOK /\ AheadOK) /\ [Next]_vars
          => (~shut => ValueOK /\ AheadOK)'
    BY LogStep, ValueStep, AheadStep
  <1> QED BY <1>1, <1>2, BaseHolds, LocksHold, PTL DEF Spec

\* Write-ahead logging: a change reaches the buffer of its inode, and so the disk, only
\* after its log record is on disk (i_pincount).
THEOREM WriteAheadHolds == Spec => []WriteAhead
  <1>1. Base /\ (~shut => ValueOK /\ AheadOK) => WriteAhead
    BY AheadIs
  <1> QED BY <1>1, BaseHolds, ValuesHold, PTL DEF Spec

\* A step that logs nothing for i, writes at most some of it and lets its lsn be.
Steady(i) ==
  /\ LoggedFor(i)' = LoggedFor(i) /\ OverFor(i)' = OverFor(i)
  /\ \A t \in LoggedFor(i) :
       /\ tx'[t].val = tx[t].val /\ tx'[t].lsn = tx[t].lsn /\ tx'[t].set = tx[t].set
       /\ \/ tx'[t].clsn = curr
          \/ tx'[t].clsn = tx[t].clsn /\ (tx'[t].pc # "writing" => tx[t].pc # "writing")
       /\ t \in OverFor(i) => tx'[t].clsn = tx[t].clsn
  /\ li'[i] = li[i] /\ Upto(disk[i], disk'[i]) /\ Upto(val[i], val'[i])
  /\ flushLsn'[i] \in {0, flushLsn[i]}
  /\ InFlight(i)' => InFlight(i) /\ flushLsn'[i] = flushLsn[i] /\ sent'[i] = sent[i]

\* A steady step keeps the history.
LEMMA SteadyKeeps ==
  ASSUME Base, Base', NEW i \in Items, History(i), Steady(i), curr' \in {curr, curr + 1}
  PROVE  History(i)'
  <1>0. /\ ItemShape /\ ItemShape' /\ TxShape /\ TxShape' /\ LogShape /\ LogShape' /\ li \in [Items -> Nat]
        /\ Numbered(i) /\ Ordered(i) /\ Backed(i) /\ Newer(i) /\ Recoverable(i)
    BY DEF Base, ListShape, History
  <1> DEFINE L == LoggedFor(i)
  <1>1. /\ LoggedFor(i)' = L /\ OverFor(i)' = OverFor(i) /\ OverFor(i) \subseteq L
        /\ \A t \in L : t \in Txs /\ tx[t].item = i /\ tx'[t].item = i
        /\ \A t \in L : (tx[t].pc \in Over <=> t \in OverFor(i)) /\ (tx'[t].pc \in Over <=> t \in OverFor(i))
        /\ OverFor(i) = {t \in L : tx[t].pc \in Over}
    BY DEF Steady, LoggedFor, OverFor, Over, Logged
  <1>2. /\ \A f \in Fields : /\ val[i][f] \in Nat /\ sent[i][f] \in Nat /\ disk[i][f] \in Nat
                             /\ val'[i][f] \in Nat /\ disk'[i][f] \in Nat
                             /\ disk[i][f] <= disk'[i][f] /\ val[i][f] <= val'[i][f]
        /\ flushLsn[i] \in Nat /\ flushLsn'[i] \in {0, flushLsn[i]} /\ curr \in Nat \ {0} /\ curr' \in Nat
        /\ curr <= curr' /\ li'[i] = li[i] /\ li[i] \in Nat
    BY <1>0 DEF ItemShape, LogShape, Values, Steady, Upto
  <1>3. \A t \in L : /\ tx'[t].val = tx[t].val /\ tx'[t].lsn = tx[t].lsn /\ tx'[t].set = tx[t].set
                     /\ tx[t].val \in [Fields -> Nat] /\ tx[t].set \subseteq Fields /\ tx[t].lsn \in Nat
                     /\ tx[t].clsn \in Nat /\ tx'[t].clsn \in Nat
    BY <1>0, <1>1 DEF Steady, TxShape, TxRec, Values
  <1>4. Numbered(i)'
    <2>1. flushLsn'[i] < curr'
      BY <1>0, <1>2 DEF Numbered
    <2>2. ASSUME NEW t \in L
          PROVE  /\ tx'[t].lsn \in 1 .. curr' /\ Upto(tx'[t].val, val'[i])
                 /\ tx'[t].pc # "writing" => tx'[t].lsn <= tx'[t].clsn
                 /\ tx'[t].pc \in Over => tx'[t].clsn < curr'
      <3>1. /\ tx[t].lsn \in 1 .. curr /\ Upto(tx[t].val, val[i])
            /\ tx[t].pc # "writing" => tx[t].lsn <= tx[t].clsn
            /\ t \in OverFor(i) => tx[t].clsn < curr
        BY <1>0, <1>1 DEF Numbered
      <3>2. /\ \/ tx'[t].clsn = curr
               \/ tx'[t].clsn = tx[t].clsn /\ (tx'[t].pc # "writing" => tx[t].pc # "writing")
            /\ t \in OverFor(i) => tx'[t].clsn = tx[t].clsn
        BY DEF Steady
      <3>3. Upto(tx'[t].val, val'[i])
        BY <1>2, <1>3, <3>1 DEF Upto
      <3>4. tx'[t].lsn \in 1 .. curr'
        BY <1>2, <1>3, <3>1
      <3>5. tx'[t].pc \in Over => tx'[t].clsn < curr'
        BY <1>1, <1>2, <1>3, <3>1, <3>2
      <3>6. tx'[t].pc # "writing" => tx'[t].lsn <= tx'[t].clsn
        BY <1>2, <1>3, <3>1, <3>2
      <3> QED BY <3>3, <3>4, <3>5, <3>6
    <2> QED BY <1>1, <2>1, <2>2 DEF Numbered
  <1>5. Ordered(i)'
    <2>1. ASSUME NEW t \in L, NEW u \in L, Before(t, u) PROVE Before(t, u)'
      <3>1. Upto(tx'[t].val, tx'[u].val) /\ tx'[t].lsn <= tx'[u].lsn
        BY <1>3, <2>1 DEF Before
      <3>2. ASSUME NEW f \in tx'[t].set, disk'[i][f] < tx'[t].val[f] PROVE f \in tx'[u].set
        <4>1. f \in tx[t].set /\ f \in Fields /\ disk[i][f] < tx[t].val[f]
          BY <1>2, <1>3, <3>2
        <4> QED BY <1>1, <1>3, <2>1, <4>1 DEF Before
      <3> QED BY <1>1, <3>1, <3>2 DEF Before
    <2> QED BY <1>0, <1>1, <2>1 DEF Ordered
  <1>6. Backed(i)'
    BY <1>0, <1>1, <1>2, <1>3 DEF Backed
  <1>7. Newer(i)'
    <2>1. SUFFICES ASSUME InFlight(i)', NEW t \in L
                   PROVE  \/ Upto(tx'[t].val, sent'[i])
                          \/ tx'[t].lsn > flushLsn'[i] /\ (tx'[t].pc \in Over => li'[i] > flushLsn'[i])
      BY <1>1 DEF Newer
    <2>2. InFlight(i) /\ flushLsn'[i] = flushLsn[i] /\ sent'[i] = sent[i]
      BY <2>1 DEF Steady
    <2> QED BY <1>0, <1>1, <1>2, <1>3, <2>2 DEF Newer
  <1>8. Recoverable(i)'
    <2>1. SUFFICES ASSUME NEW t \in OverFor(i), NEW f \in tx[t].set PROVE Covered(t, f)'
      BY <1>1, <1>3 DEF Recoverable
    <2>2. Covered(t, f) /\ f \in Fields /\ tx[t].val[f] \in Nat
      BY <1>0, <1>1, <1>3 DEF Recoverable
    <2>3. CASE disk[i][f] >= tx[t].val[f]
      BY <1>1, <1>2, <1>3, <2>2, <2>3 DEF Covered
    <2>4. CASE li[i] # 0 /\ \E u \in OverFor(i) : /\ f \in tx[u].set /\ tx[u].val[f] >= tx[t].val[f]
                                                  /\ tx[u].lsn >= li[i]
      BY <1>1, <1>2, <1>3, <2>4 DEF Covered
    <2> QED BY <1>1, <2>2, <2>3, <2>4 DEF Covered
  <1> QED BY <1>4, <1>5, <1>6, <1>7, <1>8 DEF History

\* What a transaction does to the others.
LEMMA OthersSteady ==
  ASSUME Base, Base', NEW t \in Txs, NEW i \in Items \ {tx[t].item, tx'[t].item},
         \A u \in Txs \ {t} : tx'[u] = tx[u], UNCHANGED <<sent, disk, flushLsn>>, val'[i] = val[i],
         li'[i] = li[i], InFlight(i)' <=> InFlight(i)
  PROVE  Steady(i)
  <1>1. \A u \in LoggedFor(i) : u \in Txs /\ u # t
    BY DEF LoggedFor
  <1>2. LoggedFor(i)' = LoggedFor(i) /\ OverFor(i)' = OverFor(i)
    BY DEF LoggedFor, OverFor
  <1>3. Upto(disk[i], disk'[i]) /\ Upto(val[i], val'[i])
    BY DEF Upto, Base, ItemShape, Values
  <1> QED BY <1>1, <1>2, <1>3 DEF Steady

\* Changing an inode logs nothing yet.
LEMMA LogInodeSteady ==
  ASSUME Base, Base', NEW t \in Txs, NEW i \in Items,
         NEW F \in SUBSET Fields, LogInode(t, i, F), NEW j \in Items
  PROVE  Steady(j)
  <1>0. ItemShape /\ ItemShape' /\ TxShape
    BY DEF Base
  <1>1. /\ UNCHANGED <<sent, disk, flushLsn, li, flushing, aild>> /\ tx[t].pc = "idle" /\ tx'[t].pc = "held"
        /\ \A u \in Txs \ {t} : tx'[u] = tx[u]
        /\ \A f \in Fields : val'[i][f] = val[i][f] + IF f \in F THEN 1 ELSE 0
        /\ \A k \in Items \ {i} : val'[k] = val[k]
    BY <1>0 DEF LogInode, list, TxShape, ItemShape, NoTx
  <1>2. LoggedFor(j)' = LoggedFor(j) /\ OverFor(j)' = OverFor(j)
    BY <1>1 DEF LoggedFor, OverFor, Logged, Over
  <1>3. \A u \in LoggedFor(j) : tx'[u] = tx[u]
    BY <1>1 DEF LoggedFor, Logged
  <1>4. \A k \in Items, f \in Fields : val[k][f] \in Nat /\ val'[k][f] \in Nat /\ disk[k][f] \in Nat
    BY <1>0 DEF ItemShape, Values
  <1>5. Upto(disk[j], disk'[j]) /\ Upto(val[j], val'[j])
    BY <1>1, <1>4 DEF Upto
  <1>6. InFlight(j)' <=> InFlight(j)
    BY <1>1 DEF InFlight, Held
  <1> QED BY <1>1, <1>2, <1>3, <1>5, <1>6 DEF Steady

\* a transaction goes on, and its own item's log history stays as it was
LEMMA TxSteady ==
  ASSUME Base, Base', NEW t \in Txs, CommitRecord(t) \/ Unpin(t), ValuesStay, NEW i \in Items
  PROVE  Steady(i)
  <1>0. ItemShape /\ TxShape
    BY DEF Base
  <1>1. /\ UNCHANGED <<val, sent, disk, flushLsn, li>> /\ (InFlight(i)' <=> InFlight(i))
        /\ \A u \in Txs \ {t} : tx'[u] = tx[u]
        /\ tx'[t].item = tx[t].item /\ tx'[t].val = tx[t].val /\ tx'[t].lsn = tx[t].lsn
        /\ tx'[t].set = tx[t].set
        /\ \/ tx[t].pc = "writing" /\ tx'[t].pc = "logged" /\ tx'[t].clsn = curr
           \/ tx[t].pc = "committed" /\ tx'[t].pc = "done" /\ tx'[t].clsn = tx[t].clsn
    BY <1>0 DEF CommitRecord, Unpin, ValuesStay, list, TxShape, TxRec
  <1>2. LoggedFor(i)' = LoggedFor(i) /\ OverFor(i)' = OverFor(i)
    BY <1>1 DEF LoggedFor, OverFor, Logged, Over
  <1>3. Upto(disk[i], disk'[i]) /\ Upto(val[i], val'[i])
    BY <1>1, <1>0 DEF Upto, ItemShape, Values
  <1>4. ASSUME NEW u \in LoggedFor(i)
        PROVE  /\ tx'[u].val = tx[u].val /\ tx'[u].lsn = tx[u].lsn /\ tx'[u].set = tx[u].set
               /\ \/ tx'[u].clsn = curr
                  \/ tx'[u].clsn = tx[u].clsn /\ (tx'[u].pc # "writing" => tx[u].pc # "writing")
               /\ u \in OverFor(i) => tx'[u].clsn = tx[u].clsn
    <2>1. u \in Txs /\ (u \in OverFor(i) => tx[u].pc \in {"committed", "done"})
      BY <1>4 DEF LoggedFor, OverFor, Over
    <2>2. CASE u = t
      <3>1. CASE tx[t].pc = "writing" /\ tx'[t].clsn = curr
        BY <1>1, <2>1, <2>2, <3>1
      <3>2. CASE tx[t].pc = "committed" /\ tx'[t].clsn = tx[t].clsn
        BY <1>1, <2>1, <2>2, <3>2
      <3> QED BY <1>1, <3>1, <3>2
    <2>3. CASE u # t
      BY <1>1, <2>1, <2>3
    <2> QED BY <2>2, <2>3
  <1> QED BY <1>1, <1>2, <1>3, <1>4 DEF Steady

\* A quiet step is steady.
LEMMA QuietSteady == ASSUME Base, Quiet, NEW i \in Items PROVE Steady(i)
  <1>1. UNCHANGED <<tx, li, val, sent, disk, flushLsn>> /\ (InFlight(i)' <=> InFlight(i))
    BY DEF Quiet, ValuesStay
  <1>2. LoggedFor(i)' = LoggedFor(i) /\ OverFor(i)' = OverFor(i)
    BY <1>1 DEF LoggedFor, OverFor
  <1>3. Upto(disk[i], disk'[i]) /\ Upto(val[i], val'[i])
    BY <1>1 DEF Upto, Base, ItemShape, Values
  <1> QED BY <1>1, <1>2, <1>3 DEF Steady

\* the commit of t logs everything of its item that is not on disk
LEMMA CommitKeeps ==
  ASSUME Base, Base', AheadOK, HistoryOK, NEW t \in Txs, Commit(t), ValuesStay, curr' = curr
  PROVE  HistoryOK'
  <1>0. /\ ItemShape /\ TxShape /\ TxShape' /\ LogShape /\ tx[t].item \in Items
    BY DEF Base, TxShape, Commit
  <1> PICK i \in Items : i = tx[t].item
    BY <1>0
  <1>1. /\ UNCHANGED <<val, sent, disk, flushLsn, fields, li>>
        /\ \A j \in Items : InFlight(j)' <=> InFlight(j)
        /\ \A u \in Txs \ {t} : tx'[u] = tx[u]
        /\ tx[t].pc = "held" /\ tx'[t].pc = "writing" /\ tx'[t].item = i /\ tx'[t].val = val[i]
        /\ tx'[t].lsn = curr /\ tx'[t].set = fields[i]
    BY <1>0 DEF Commit, ValuesStay, list, TxShape, TxRec
  <1>2. ASSUME NEW j \in Items, j # i PROVE History(j)'
    BY <1>1, <1>2, OthersSteady, SteadyKeeps DEF HistoryOK
  <1>3. /\ Numbered(i) /\ Ordered(i) /\ Backed(i) /\ Newer(i) /\ Recoverable(i)
        /\ \A f \in Fields : disk[i][f] < val[i][f] => f \in fields[i]
    BY <1>1 DEF HistoryOK, History, AheadOK, AheadFor
  <1>4. /\ LoggedFor(i)' = LoggedFor(i) \cup {t} /\ OverFor(i)' = OverFor(i) /\ t \notin LoggedFor(i)
        /\ OverFor(i) \subseteq LoggedFor(i)
        /\ \A u \in LoggedFor(i) : u \in Txs /\ tx'[u] = tx[u] /\ tx[u].item = i
    BY <1>1 DEF LoggedFor, OverFor, Logged, Over
  <1>5. /\ \A f \in Fields : val[i][f] \in Nat /\ disk[i][f] \in Nat /\ sent[i][f] \in Nat
        /\ curr \in Nat \ {0} /\ flushLsn[i] \in Nat
        /\ \A u \in LoggedFor(i) : tx[u].val \in [Fields -> Nat] /\ tx[u].set \subseteq Fields
    BY <1>0, <1>4 DEF ItemShape, LogShape, Values, TxShape, TxRec
  <1>6. Numbered(i)'
    <2>1. Upto(val[i], val[i]) /\ curr \in 1 .. curr /\ tx'[t].pc \notin Over
      BY <1>1, <1>5 DEF Upto, Over
    <2> QED BY <1>1, <1>3, <1>4, <2>1 DEF Numbered
  <1>7. Ordered(i)'
    <2>1. ASSUME NEW u \in LoggedFor(i) PROVE Before(u, t)'
      <3>1. Upto(tx[u].val, val[i]) /\ tx[u].lsn <= curr
        BY <1>3, <1>5 DEF Numbered
      <3>2. ASSUME NEW f \in tx[u].set, disk[i][f] < tx[u].val[f] PROVE f \in fields[i]
        BY <1>3, <1>5, <3>1, <3>2 DEF Upto
      <3> QED BY <1>1, <1>4, <3>1, <3>2 DEF Before
    <2>2. Before(t, t)'
      BY <1>1, <1>5 DEF Before, Upto
    <2>3. ASSUME NEW u \in LoggedFor(i), NEW w \in LoggedFor(i) PROVE Before(u, w)' <=> Before(u, w)
      BY <1>1, <1>4 DEF Before
    <2> QED BY <1>3, <1>4, <2>1, <2>2, <2>3 DEF Ordered
  <1>8. Backed(i)'
    BY <1>1, <1>3, <1>4 DEF Backed
  <1>9. Newer(i)'
    <2>1. tx'[t].lsn > flushLsn[i] /\ tx'[t].pc \notin Over
      BY <1>1, <1>3, <1>5 DEF Numbered, Over
    <2> QED BY <1>1, <1>3, <1>4, <2>1 DEF Newer
  <1>10. Recoverable(i)'
    <2>1. SUFFICES ASSUME NEW u \in OverFor(i), NEW f \in tx[u].set PROVE Covered(u, f)'
      BY <1>4 DEF Recoverable
    <2>2. Covered(u, f)
      BY <1>3 DEF Recoverable
    <2> QED BY <1>1, <1>4, <2>2 DEF Covered
  <1>11. History(i)'
    BY <1>6, <1>7, <1>8, <1>9, <1>10 DEF History
  <1> QED BY <1>2, <1>11 DEF HistoryOK

\* the callback of t moves its item up in the AIL to its record, or finds it there
LEMMA CommittedKeeps ==
  ASSUME Base, Base', HistoryOK, NEW t \in Txs, Committed(t), ValuesStay, ~shut, curr' = curr
  PROVE  HistoryOK'
  <1>0. /\ ItemShape /\ TxShape /\ LogShape /\ tx[t].item \in Items /\ li \in [Items -> Nat]
    BY DEF Base, TxShape, Committed, ListShape
  <1> PICK i \in Items : i = tx[t].item
    BY <1>0
  <1>1. /\ UNCHANGED <<val, sent, disk, flushLsn>> /\ \A j \in Items : InFlight(j)' <=> InFlight(j)
        /\ \A u \in Txs \ {t} : tx'[u] = tx[u]
        /\ tx[t].pc = "logged" /\ tx'[t].pc = "committed" /\ tx'[t].item = i /\ tx'[t].val = tx[t].val
        /\ tx'[t].lsn = tx[t].lsn /\ tx'[t].set = tx[t].set /\ tx'[t].clsn = tx[t].clsn
        /\ tx[t].clsn < curr
    BY <1>0 DEF Committed, ValuesStay, TxShape, TxRec
  <1>2. \/ MovesUp(t) /\ li' = [li EXCEPT ![i] = tx[t].lsn]
        \/ ~MovesUp(t) /\ li' = li
    BY DEF Committed, AilUpdate, list
  <1>3. ASSUME NEW j \in Items, j # i PROVE History(j)'
    <2>1. li'[j] = li[j]
      BY <1>0, <1>2, <1>3
    <2> QED BY <1>1, <1>3, <2>1, OthersSteady, SteadyKeeps DEF HistoryOK
  <1>4. /\ Numbered(i) /\ Ordered(i) /\ Backed(i) /\ Newer(i) /\ Recoverable(i)
    BY DEF HistoryOK, History
  <1>5. /\ LoggedFor(i)' = LoggedFor(i) /\ OverFor(i)' = OverFor(i) \cup {t} /\ t \in LoggedFor(i)
        /\ OverFor(i) \subseteq LoggedFor(i) /\ t \notin OverFor(i)
        /\ \A u \in LoggedFor(i) : u \in Txs /\ tx[u].item = i /\ (tx[u].pc \in Over <=> u \in OverFor(i))
    BY <1>1 DEF LoggedFor, OverFor, Logged, Over
  <1>6. /\ \A f \in Fields : disk[i][f] \in Nat /\ sent[i][f] \in Nat
        /\ curr \in Nat \ {0} /\ flushLsn[i] \in Nat /\ li[i] \in Nat
        /\ \A u \in LoggedFor(i) : /\ tx[u].val \in [Fields -> Nat] /\ tx[u].set \subseteq Fields
                                   /\ tx[u].lsn \in Nat /\ tx[u].lsn # 0
    BY <1>0, <1>4, <1>5 DEF ItemShape, LogShape, Values, TxShape, TxRec, Numbered
  <1>7. /\ \A u \in LoggedFor(i) : /\ tx'[u].val = tx[u].val /\ tx'[u].lsn = tx[u].lsn
                                   /\ tx'[u].set = tx[u].set /\ tx'[u].clsn = tx[u].clsn /\ tx'[u].item = i
                                   /\ u # t => tx'[u].pc = tx[u].pc
    BY <1>1, <1>5
  <1>8. ASSUME MovesUp(t) PROVE Backed(i)' /\ Newer(i)' /\ Recoverable(i)'
    <2>1. li'[i] = tx[t].lsn /\ tx[t].lsn > li[i]
      BY <1>0, <1>2, <1>8 DEF MovesUp
    <2>2. Backed(i)'
      BY <1>1, <1>5, <2>1 DEF Backed
    <2>3. Newer(i)'
      <3>1. SUFFICES ASSUME InFlight(i), NEW u \in LoggedFor(i), ~Upto(tx[u].val, sent[i])
                     PROVE  tx[u].lsn > flushLsn[i] /\ (tx'[u].pc \in Over => li'[i] > flushLsn[i])
        BY <1>1, <1>5, <1>7 DEF Newer
      <3>2. tx[u].lsn > flushLsn[i] /\ (tx[u].pc \in Over => li[i] > flushLsn[i])
        BY <1>4, <3>1 DEF Newer
      <3>3. CASE u = t
        BY <1>6, <2>1, <3>2, <3>3
      <3>4. CASE u # t
        BY <1>5, <1>6, <1>7, <2>1, <3>2, <3>4
      <3> QED BY <3>3, <3>4
    <2>4. Recoverable(i)'
      <3>1. SUFFICES ASSUME NEW u \in OverFor(i) \cup {t}, NEW f \in tx[u].set, ~(disk[i][f] >= tx[u].val[f])
                     PROVE  \E w \in OverFor(i) \cup {t} : /\ f \in tx[w].set /\ tx[w].val[f] >= tx[u].val[f]
                                                           /\ tx[w].lsn >= tx[t].lsn
        <4>1. tx[t].lsn # 0
          BY <1>5, <1>6
        <4> QED BY <1>1, <1>5, <1>7, <2>1, <4>1 DEF Recoverable, Covered
      <3>2. u \in LoggedFor(i) /\ f \in Fields /\ tx[u].val[f] \in Nat /\ tx[t].val[f] \in Nat
        BY <1>5, <1>6, <3>1
      <3>3. CASE Before(u, t)
        <4>1. f \in tx[t].set /\ tx[t].val[f] >= tx[u].val[f] /\ tx[t].lsn >= tx[t].lsn
          BY <1>5, <1>6, <3>1, <3>2, <3>3 DEF Before, Upto
        <4> QED BY <4>1
      <3>4. CASE Before(t, u)
        <4>1. tx[u].lsn >= tx[t].lsn /\ tx[u].val[f] >= tx[u].val[f]
          BY <1>5, <1>6, <3>2, <3>4 DEF Before
        <4> QED BY <3>1, <4>1
      <3> QED BY <1>4, <1>5, <3>2, <3>3, <3>4 DEF Ordered
    <2> QED BY <2>2, <2>3, <2>4
  <1>9. ASSUME ~MovesUp(t) PROVE Backed(i)' /\ Newer(i)' /\ Recoverable(i)'
    <2>1. li'[i] = li[i] /\ tx[t].lsn <= li[i] /\ li[i] # 0
      BY <1>0, <1>2, <1>5, <1>6, <1>9 DEF MovesUp
    <2>2. Backed(i)'
      BY <1>4, <1>5, <1>7, <2>1 DEF Backed
    <2>3. Newer(i)'
      <3>1. SUFFICES ASSUME InFlight(i), NEW u \in LoggedFor(i), ~Upto(tx[u].val, sent[i])
                     PROVE  tx[u].lsn > flushLsn[i] /\ (tx'[u].pc \in Over => li[i] > flushLsn[i])
        BY <1>1, <1>5, <1>7, <2>1 DEF Newer
      <3>2. tx[u].lsn > flushLsn[i] /\ (tx[u].pc \in Over => li[i] > flushLsn[i])
        BY <1>4, <3>1 DEF Newer
      <3>3. CASE u = t
        BY <1>5, <1>6, <2>1, <3>2, <3>3
      <3>4. CASE u # t
        BY <1>5, <1>6, <1>7, <3>2, <3>4
      <3> QED BY <3>3, <3>4
    <2>4. Recoverable(i)'
      <3>1. SUFFICES ASSUME NEW u \in OverFor(i) \cup {t}, NEW f \in tx[u].set, ~(disk[i][f] >= tx[u].val[f])
                     PROVE  \E w \in OverFor(i) \cup {t} : /\ f \in tx[w].set /\ tx[w].val[f] >= tx[u].val[f]
                                                           /\ tx[w].lsn >= li[i]
        BY <1>1, <1>5, <1>7, <2>1 DEF Recoverable, Covered
      <3>2. u \in LoggedFor(i) /\ f \in Fields /\ tx[u].val[f] \in Nat
        BY <1>5, <1>6, <3>1
      <3>3. CASE u \in OverFor(i)
        <4>1. Covered(u, f) /\ tx[u].item = i
          BY <1>4, <1>5, <3>1, <3>3 DEF Recoverable
        <4> QED BY <3>1, <4>1 DEF Covered
      <3>4. CASE u = t
        <4>1. PICK w \in OverFor(i) : tx[w].lsn = li[i]
          BY <1>4, <2>1 DEF Backed
        <4>2. w \in LoggedFor(i) /\ tx[w].val[f] \in Nat
          BY <1>5, <1>6, <3>2
        <4>3. CASE Before(t, w)
          <5>1. f \in tx[w].set /\ tx[w].val[f] >= tx[t].val[f] /\ tx[w].lsn >= li[i]
            BY <1>5, <1>6, <3>1, <3>2, <3>4, <4>1, <4>2, <4>3 DEF Before, Upto
          <5> QED BY <3>4, <5>1
        <4>4. CASE Before(w, t)
          <5>1. tx[t].lsn >= li[i] /\ tx[t].val[f] >= tx[t].val[f]
            BY <1>5, <1>6, <3>2, <3>4, <4>1, <4>4 DEF Before
          <5> QED BY <3>1, <3>4, <5>1
        <4> QED BY <1>4, <1>5, <4>2, <4>3, <4>4 DEF Ordered
      <3> QED BY <3>1, <3>3, <3>4
    <2> QED BY <2>2, <2>3, <2>4
  <1>10. Numbered(i)'
    <2>1. \A u \in LoggedFor(i) : /\ tx'[u].lsn \in 1 .. curr /\ Upto(tx'[u].val, val[i])
                                  /\ tx'[u].lsn <= tx'[u].clsn \/ tx'[u].pc = "writing"
                                  /\ tx'[u].pc \in Over => tx'[u].clsn < curr
      BY <1>1, <1>4, <1>7 DEF Numbered
    <2> QED BY <1>1, <1>4, <1>5, <2>1 DEF Numbered
  <1>11. Ordered(i)'
    <2>1. ASSUME NEW u \in LoggedFor(i), NEW w \in LoggedFor(i) PROVE Before(u, w)' <=> Before(u, w)
      BY <1>1, <1>5, <1>7 DEF Before
    <2> QED BY <1>4, <1>5, <2>1 DEF Ordered
  <1>12. History(i)'
    BY <1>8, <1>9, <1>10, <1>11 DEF History
  <1> QED BY <1>3, <1>12 DEF HistoryOK

\* a flush starts when everything logged for the inode is on disk
LEMMA FlushKeeps ==
  ASSUME Base, Base', HistoryOK, NEW i \in Items, FlushesNow(i), curr' \in {curr, curr + 1}
  PROVE  HistoryOK'
  <1>0. /\ ItemShape /\ ItemShape' /\ TxShape /\ LogShape /\ LogShape' /\ li \in [Items -> Nat]
    BY DEF Base, ListShape
  <1>1. /\ UNCHANGED <<val, disk, tx, li>> /\ Pinners(i) = {} /\ sent'[i] = val[i] /\ flushLsn'[i] = li[i]
        /\ \A j \in Items \ {i} : /\ sent'[j] = sent[j] /\ flushLsn'[j] = flushLsn[j]
                                  /\ InFlight(j)' <=> InFlight(j)
        /\ curr' = curr
    BY <1>0 DEF FlushesNow, Iflush, ItemShape
  <1>2. \A j : LoggedFor(j)' = LoggedFor(j) /\ OverFor(j)' = OverFor(j)
    BY <1>1 DEF LoggedFor, OverFor
  <1>3. ASSUME NEW j \in Items, j # i PROVE History(j)'
    <2>1. Upto(disk[j], disk'[j]) /\ Upto(val[j], val'[j])
      BY <1>0, <1>1 DEF Upto, ItemShape, Values
    <2>2. Steady(j)
      BY <1>1, <1>2, <1>3, <2>1 DEF Steady
    <2> QED BY <2>2, SteadyKeeps DEF HistoryOK
  <1>4. /\ Numbered(i) /\ Ordered(i) /\ Backed(i) /\ Recoverable(i)
    BY DEF HistoryOK, History
  <1>5. li[i] < curr
    <2>1. CASE li[i] = 0
      BY <1>0, <2>1 DEF LogShape
    <2>2. CASE li[i] # 0
      <3>1. PICK t \in OverFor(i) : tx[t].lsn = li[i]
        BY <1>4, <2>2 DEF Backed
      <3>2. t \in LoggedFor(i) /\ tx[t].pc \in Over /\ tx[t].pc # "writing" /\ tx[t] \in TxRec
        BY <1>0, <3>1 DEF OverFor, LoggedFor, Over, Logged, TxShape
      <3>3. tx[t].lsn <= tx[t].clsn /\ tx[t].clsn < curr
        BY <1>4, <3>2 DEF Numbered
      <3> QED BY <1>0, <3>1, <3>2, <3>3 DEF TxRec, LogShape
    <2> QED BY <2>1, <2>2
  <1>6. Numbered(i)'
    BY <1>1, <1>2, <1>4, <1>5 DEF Numbered
  <1>7. Ordered(i)'
    BY <1>1, <1>2, <1>4 DEF Ordered, Before
  <1>8. Backed(i)'
    BY <1>1, <1>2, <1>4 DEF Backed
  <1>9. Newer(i)'
    BY <1>1, <1>2, <1>4 DEF Newer, Numbered
  <1>10. Recoverable(i)'
    <2>1. ASSUME NEW t \in OverFor(i), NEW f \in tx[t].set PROVE Covered(t, f)'
      <3>1. Covered(t, f) /\ tx[t].item = i
        BY <1>4 DEF Recoverable, OverFor
      <3> QED BY <1>1, <1>2, <3>1 DEF Covered
    <2> QED BY <1>1, <1>2, <2>1 DEF Recoverable
  <1>11. History(i)'
    BY <1>6, <1>7, <1>8, <1>9, <1>10 DEF History
  <1> QED BY <1>3, <1>11 DEF HistoryOK

\* xfs_iflush_done takes the item off the AIL only when all that was logged is on disk.
LEMMA DoneKeeps ==
  ASSUME Base, Base', ValueOK, HistoryOK, ~shut, NEW i \in Items, IflushDone(i), curr' \in {curr, curr + 1}
  PROVE  HistoryOK'
  <1>0. /\ ItemShape /\ ItemShape' /\ TxShape /\ LogShape /\ LogShape' /\ li \in [Items -> Nat]
    BY DEF Base, ListShape
  <1>1. /\ UNCHANGED <<val, sent, tx, curr, aild>> /\ disk'[i] = sent[i] /\ InFlight(i) /\ ~InFlight(i)'
        /\ flushLsn'[i] = 0
        /\ \A j \in Items \ {i} : /\ disk'[j] = disk[j] /\ flushLsn'[j] = flushLsn[j]
                                  /\ flushing'[j] = flushing[j]
    BY <1>0 DEF IflushDone, ItemShape, InFlight, Held, logv
  <1>2. \A j : LoggedFor(j)' = LoggedFor(j) /\ OverFor(j)' = OverFor(j)
    BY <1>1 DEF LoggedFor, OverFor
  <1>3. \A j \in Items \ {i} : InFlight(j)' <=> InFlight(j)
    BY <1>1 DEF InFlight, Held
  <1>4. \A j \in Items : Upto(disk[j], disk'[j]) /\ Upto(val[j], val'[j])
    <2>1. \A j \in Items, f \in Fields : disk[j][f] \in Nat /\ val[j][f] \in Nat
      BY <1>0 DEF ItemShape, Values
    <2>2. \A f \in Fields : disk[i][f] <= sent[i][f]
      BY DEF ValueOK, ValueOf, Upto
    <2>3. ASSUME NEW j \in Items PROVE Upto(disk[j], disk'[j])
      <3>1. CASE j = i
        BY <1>1, <2>2, <3>1 DEF Upto
      <3>2. CASE j # i
        BY <1>1, <2>1, <3>2 DEF Upto
      <3> QED BY <3>1, <3>2
    <2> QED BY <1>1, <2>1, <2>3 DEF Upto
  <1>5. \/ ~FlushedAsIs(i) /\ li' = li
        \/ FlushedAsIs(i) /\ li' = [li EXCEPT ![i] = 0]
    BY DEF IflushDone, AilDelete, list
  <1>6. ASSUME NEW j \in Items, j # i \/ ~FlushedAsIs(i) PROVE History(j)'
    <2>1. li'[j] = li[j]
      BY <1>0, <1>5, <1>6
    <2>2. Steady(j)
      BY <1>1, <1>2, <1>3, <1>4, <2>1 DEF Steady
    <2> QED BY <2>2, SteadyKeeps DEF HistoryOK
  <1>7. ASSUME FlushedAsIs(i) PROVE History(i)'
    <2>1. /\ Numbered(i) /\ Ordered(i) /\ Newer(i) /\ li[i] = flushLsn[i] /\ li'[i] = 0
      BY <1>0, <1>5, <1>7 DEF HistoryOK, History, FlushedAsIs
    <2>2. /\ \A t \in LoggedFor(i) : /\ t \in Txs /\ tx[t].item = i /\ tx[t].val \in [Fields -> Nat]
                                     /\ tx[t].set \subseteq Fields
          /\ OverFor(i) = {t \in LoggedFor(i) : tx[t].pc \in Over}
      BY <1>0 DEF LoggedFor, OverFor, Logged, Over, TxShape, TxRec, Values
    <2>3. \A f \in Fields : disk[i][f] \in Nat /\ sent[i][f] \in Nat /\ disk[i][f] <= sent[i][f]
      BY <1>0, <1>1, <1>4 DEF ItemShape, Values, Upto
    <2>4. flushLsn'[i] < curr' /\ Backed(i)' /\ Newer(i)'
      BY <1>0, <1>1, <2>1 DEF LogShape, Backed, Newer
    <2>5. Numbered(i)'
      BY <1>1, <1>2, <2>1, <2>4 DEF Numbered
    <2>6. Ordered(i)'
      <3>1. ASSUME NEW t \in LoggedFor(i), NEW u \in LoggedFor(i), Before(t, u) PROVE Before(t, u)'
        <4>1. \A f \in tx[t].set : disk'[i][f] < tx[t].val[f] => disk[i][f] < tx[t].val[f]
          BY <1>1, <2>2, <2>3
        <4> QED BY <1>1, <2>2, <3>1, <4>1 DEF Before
      <3> QED BY <1>2, <2>1, <3>1 DEF Ordered
    <2>7. Recoverable(i)'
      <3>1. SUFFICES ASSUME NEW t \in OverFor(i), NEW f \in tx[t].set PROVE Covered(t, f)'
        BY <1>1, <1>2 DEF Recoverable
      <3>2. ~(li[i] > flushLsn[i])
        BY <1>0, <2>1
      <3>3. Upto(tx[t].val, sent[i]) /\ f \in Fields /\ tx[t].val[f] \in Nat
        BY <1>1, <2>1, <2>2, <3>2 DEF Newer
      <3>4. disk'[i][f] >= tx[t].val[f]
        BY <1>1, <2>3, <3>3 DEF Upto
      <3> QED BY <1>1, <2>2, <3>4 DEF Covered
    <2> QED BY <2>4, <2>5, <2>6, <2>7 DEF History
  <1> QED BY <1>6, <1>7 DEF HistoryOK

\* Every step keeps the history of the items.
LEMMA HistoryStep ==
  ASSUME Base, LockOK, PinOK, ValueOK, AheadOK, HistoryOK, ~shut, [Next]_vars
  PROVE  HistoryOK'
  <1>0. Base' /\ curr' \in {curr, curr + 1}
    BY BaseStep, LogStep
  <1>s. (\A i \in Items : Steady(i)) => HistoryOK'
    BY <1>0, SteadyKeeps DEF HistoryOK
  <1>1. ASSUME NEW t \in Txs, NEW i \in Items, NEW F \in SUBSET Fields, LogInode(t, i, F) PROVE HistoryOK'
    BY <1>0, <1>1, <1>s, LogInodeSteady
  <1>2. ASSUME NEW t \in Txs, CommitRecord(t) \/ Unpin(t), ValuesStay PROVE HistoryOK'
    BY <1>0, <1>2, <1>s, TxSteady
  <1>3. ASSUME NEW t \in Txs, Commit(t), ValuesStay PROVE HistoryOK'
    <2>1. curr' = curr
      BY <1>3 DEF Commit, logv
    <2> QED BY <1>0, <1>3, <2>1, CommitKeeps
  <1>4. ASSUME NEW t \in Txs, Committed(t), ValuesStay PROVE HistoryOK'
    <2>1. curr' = curr
      BY <1>4 DEF Committed, logv
    <2> QED BY <1>0, <1>4, <2>1, CommittedKeeps
  <1>5. ASSUME NEW i \in Items, FlushesNow(i) \/ IflushDone(i) PROVE HistoryOK'
    BY <1>0, <1>5, FlushKeeps, DoneKeeps
  <1>6. CASE Quiet
    BY <1>6, <1>s, QuietSteady
  <1> QED BY <1>1, <1>2, <1>3, <1>4, <1>5, <1>6, LiveIs

\* There is no history at mount.
LEMMA HistoryInit == ASSUME Init PROVE HistoryOK
  <1>1. /\ \A t \in Txs : tx[t].pc = "idle"
        /\ curr = 1 /\ \A i \in Items : flushLsn[i] = 0 /\ li[i] = 0 /\ flushing[i] = FALSE
    BY DEF Init, NoTx
  <1>2. \A i : LoggedFor(i) = {} /\ OverFor(i) = {}
    BY <1>1 DEF LoggedFor, OverFor, Logged, Over
  <1> QED BY <1>1, <1>2 DEF HistoryOK, History, Numbered, Ordered, Backed, Newer, Recoverable, InFlight

\* What the property says follows.
LEMMA CoverIs == ASSUME Base, ~shut => HistoryOK PROVE AilCoversLog
  <1>1. SUFFICES ASSUME ~shut, NEW t \in Txs, tx[t].pc \in {"committed", "done"}, NEW f \in tx[t].set,
                        NEW i, i = tx[t].item
                 PROVE  \/ disk[i][f] >= tx[t].val[f]
                        \/ i \in InAil /\ \E u \in Txs : /\ tx[u].item = i /\ f \in tx[u].set
                                                         /\ tx[u].val[f] >= tx[t].val[f]
                                                         /\ tx[u].pc \in {"committed", "done"}
                                                         /\ tx[u].lsn >= li[i]
    BY DEF AilCoversLog
  <1>2. i \in Items /\ t \in OverFor(i) /\ (li[i] # 0 => i \in InAil)
    BY <1>1 DEF Base, TxShape, ListShape, OverFor, Over
  <1>3. Covered(t, f)
    BY <1>1, <1>2 DEF HistoryOK, History, Recoverable
  <1> QED BY <1>1, <1>2, <1>3 DEF Covered, OverFor, Over

\* The log history of an inode: its transactions were logged in an order in which each
\* logs again what of the earlier ones is not on disk (xfs_trans_log_inode).
THEOREM HistoryHolds == Spec => [](~shut => HistoryOK)
  <1>1. Init => (~shut => HistoryOK)
    BY HistoryInit
  <1>2. Base /\ LockOK /\ PinOK /\ (~shut => ValueOK /\ AheadOK) /\ (~shut => HistoryOK) /\ [Next]_vars
          => (~shut => HistoryOK)'
    BY LogStep, HistoryStep
  <1> QED BY <1>1, <1>2, BaseHolds, LocksHold, ValuesHold, PTL DEF Spec

\* The log can always repair the inode on disk: what a committed change of it is not
\* yet there is in a record from the lsn of the item in the AIL on.
THEOREM CoverHolds == Spec => []AilCoversLog
  <1>1. Base /\ (~shut => HistoryOK) => AilCoversLog
    BY CoverIs
  <1> QED BY <1>1, BaseHolds, HistoryHolds, PTL DEF Spec

\* What is behind an item on the list is at or behind the next one.
LEMMA AfterNext ==
  ASSUME ListShape, NEW i \in InAil, NEW n, n = AilNext(ail, i)
  PROVE  /\ n = NULL => \A j \in InAil : Upfront(ail, i, j) => j = i
         /\ n # NULL => n \in InAil /\ \A j \in InAil \ {i} : Upfront(ail, i, j) => Upfront(ail, n, j)
  <1> DEFINE p == Place(ail, i)
  <1>1. /\ ail \in Seq(Items) /\ IsInjective(ail) /\ InAil \subseteq Items /\ NULL \notin Items
        /\ p \in DOMAIN ail /\ ail[p] = i
    BY PlaceOf, AilAssumption DEF ListShape, InAil
  <1>2. \A j \in InAil : Place(ail, j) \in DOMAIN ail /\ ail[Place(ail, j)] = j
    BY PlaceOf DEF InAil
  <1>3. \A j \in InAil \ {i} : Upfront(ail, i, j) => Place(ail, j) > p
    BY <1>1, <1>2 DEF Upfront
  <1>4. CASE p = Len(ail)
    <2>1. n = NULL
      BY <1>4 DEF AilNext
    <2> QED BY <1>1, <1>2, <1>3, <1>4, <2>1
  <1>5. CASE p # Len(ail)
    <2>1. n = ail[p + 1] /\ p + 1 \in DOMAIN ail /\ n \in Items
      BY <1>1, <1>5 DEF AilNext
    <2>2. n \in InAil
      BY <2>1 DEF InAil, ToSet
    <2>3. Place(ail, n) = p + 1
      BY <1>1, <2>1, PlaceIs
    <2> HIDE DEF p
    <2>4. \A j \in InAil \ {i} : Upfront(ail, i, j) => Upfront(ail, n, j)
      BY <1>1, <1>2, <1>3, <2>3 DEF Upfront
    <2> QED BY <1>1, <2>1, <2>2, <2>4
  <1> QED BY <1>4, <1>5

\* xfs_ail_min is in front of all.
LEMMA MinIsFirst ==
  ASSUME ListShape, ail # <<>>
  PROVE  AilMin(ail) \in InAil /\ \A j \in InAil : Upfront(ail, AilMin(ail), j)
  <1>1. ail \in Seq(Items) /\ IsInjective(ail) /\ 1 \in DOMAIN ail /\ AilMin(ail) = ail[1]
    BY DEF ListShape, AilMin
  <1>2. Place(ail, AilMin(ail)) = 1 /\ AilMin(ail) \in InAil
    BY <1>1, PlaceIs DEF InAil, ToSet
  <1>3. \A j \in InAil : Place(ail, j) \in DOMAIN ail
    BY PlaceOf DEF InAil
  <1> QED BY <1>1, <1>2, <1>3 DEF Upfront

\* Who changes a walk or its cursor.
LEMMA WalksAre ==
  ASSUME Base, [Next]_vars
  PROVE  \/ UNCHANGED <<list, walk>> /\ \A w \in Travs : cursor'[w] = cursor[w]
         \/ \E w \in Travs : WalkFirst(w) \/ WalkNext(w) \/ WalkDone(w)
         \/ \E t \in Txs : Committed(t) /\ MovesUp(t) /\ AilUpdate(tx[t].item, tx[t].lsn)
         \/ \E i \in Items : IflushDone(i) /\ FlushedAsIs(i) /\ AilDelete(i)
  <1>0. Push \notin Travs /\ Travs \subseteq Cursors /\ DOMAIN cursor = Cursors
    BY AilAssumption DEF Base, CursorShape, Cursors
  <1>1. CASE UNCHANGED <<list, walk, cursor>>
    BY <1>1
  <1>2. CASE PushFirst \/ PushNext \/ PushEnd
    <2>1. UNCHANGED <<list, walk>> /\ (cursor' = cursor \/ \E x : cursor' = [cursor EXCEPT ![Push] = x])
      BY <1>2 DEF PushFirst, PushNext, PushEnd, CursorSet
    <2> QED BY <1>0, <2>1
  <1>3. \/ UNCHANGED <<list, walk, cursor>>
        \/ PushFirst \/ PushNext \/ PushEnd
        \/ \E w \in Travs : WalkFirst(w) \/ WalkNext(w) \/ WalkDone(w)
        \/ \E t \in Txs : Committed(t) /\ MovesUp(t) /\ AilUpdate(tx[t].item, tx[t].lsn)
        \/ \E i \in Items : IflushDone(i) /\ FlushedAsIs(i) /\ AilDelete(i)
    BY DEF Next, vars, LogInode, Commit, CommitRecord, Committed, Unpin, CloseRecord, Shutdown, SyncInode,
           IflushDone, AilPush, Aild, PushTry, PushItem, list
  <1> QED BY <1>1, <1>2, <1>3

\* An item that moves up in the AIL stays before the walks that had it before them.
LEMMA WalkUpdates ==
  ASSUME Base, WalkOK, NEW t \in Txs, Committed(t), MovesUp(t), AilUpdate(tx[t].item, tx[t].lsn)
  PROVE  WalkOK'
  <1> PICK i : i = tx[t].item
    OBVIOUS
  <1>1. /\ InAil' = InAil \cup {i} /\ UNCHANGED walk
        /\ \A a, b \in InAil \ {i} : Upfront(ail, a, b) => Upfront(ail, a, b)'
        /\ i \in InAil => \A a \in InAil : Upfront(ail, a, i) => Upfront(ail, a, i)'
        /\ i \in Items
    BY MovesIs, UpdateIs DEF Base, AilUpdate
  <1>2. /\ CursorShape /\ NULL \notin Items /\ Invalid \notin Items /\ NULL # Invalid
        /\ InAil = {j \in Items : li[j] # 0} /\ Travs \subseteq Cursors
    BY AilAssumption DEF Base, ListShape, Cursors
  <1>3. \A w \in Travs : \/ cursor'[w] = cursor[w] /\ cursor[w] # i
                         \/ cursor[w] = i /\ cursor'[w] = Invalid
    <2>1. CASE li[i] # 0
      BY <1>2, <2>1 DEF AilUpdate, CursorClear
    <2>2. CASE li[i] = 0
      BY <1>1, <1>2, <2>2 DEF AilUpdate, CursorShape
    <2> QED BY <2>1, <2>2
  <1>4. ASSUME NEW w \in Travs, walk[w].pc = "walking", NEW j \in walk[w].must \ walk[w].seen,
               cursor'[w] \in Items
        PROVE  Upfront(ail, cursor[w], j)' /\ cursor'[w] = cursor[w]
    <2>1. cursor'[w] = cursor[w] /\ cursor[w] \in InAil \ {i} /\ j \in InAil /\ Upfront(ail, cursor[w], j)
      BY <1>2, <1>3, <1>4 DEF WalkOK, AheadOf, CursorShape
    <2> PICK c : c = cursor[w]
      OBVIOUS
    <2>2. Upfront(ail, c, j)'
      BY <1>1, <2>1
    <2> QED BY <2>1, <2>2 DEF Upfront
  <1> QED BY <1>1, <1>2, <1>3, <1>4 DEF WalkOK, AheadOf

\* An item taken off the AIL is nothing a walk has to see.
LEMMA WalkDeletes ==
  ASSUME Base, WalkOK, NEW i \in Items, FlushedAsIs(i), AilDelete(i)
  PROVE  WalkOK'
  <1>1. /\ InAil' = InAil \ {i}
        /\ \A a, b \in InAil \ {i} : Upfront(ail, a, b) => Upfront(ail, a, b)'
    BY DeletesIs, DeleteIs DEF Base
  <1>2. /\ CursorShape /\ NULL \notin Items /\ Invalid \notin Items /\ NULL # Invalid
        /\ Travs \subseteq Cursors
    BY AilAssumption DEF Base, Cursors
  <1>3. \A w \in Travs : \/ cursor'[w] = cursor[w] /\ cursor[w] # i
                         \/ cursor[w] = i /\ cursor'[w] = Invalid
    BY <1>2 DEF AilDelete, CursorClear
  <1>4. \A w \in Travs : /\ walk'[w].pc = walk[w].pc /\ walk'[w].seen = walk[w].seen
                         /\ walk'[w].must = walk[w].must \ {i}
    BY DEF AilDelete, Base, WalkShape, WalkRec
  <1>5. ASSUME NEW w \in Travs, walk[w].pc = "walking", NEW j \in walk'[w].must \ walk'[w].seen,
               cursor'[w] \in Items
        PROVE  Upfront(ail, cursor[w], j)'
    <2>1. /\ cursor'[w] = cursor[w] /\ cursor[w] \in InAil \ {i} /\ j \in InAil \ {i}
          /\ Upfront(ail, cursor[w], j)
      BY <1>2, <1>3, <1>4, <1>5 DEF WalkOK, AheadOf, CursorShape
    <2> PICK c : c = cursor[w]
      OBVIOUS
    <2>2. Upfront(ail, c, j)'
      BY <1>1, <2>1
    <2> QED BY <2>1, <2>2 DEF Upfront
  <1> QED BY <1>1, <1>2, <1>3, <1>4, <1>5 DEF WalkOK, AheadOf

\* A walk that returns r, which is in front of all it still has to see.
LEMMA Returned ==
  ASSUME Base, NEW w \in Travs, NEW r \in InAil, UNCHANGED ail, NEW S, S \subseteq InAil, NEW T,
         \A j \in S \ T : Upfront(ail, r, j),
         cursor' = [cursor EXCEPT ![w] = AilNext(ail, r)],
         walk'[w] = [pc |-> "walking", seen |-> T \cup {r}, must |-> S],
         \A v \in Travs \ {w} : walk'[v] = walk[v],
         WalkOK
  PROVE  WalkOK'
  <1>1. ListShape /\ CursorShape /\ Travs \subseteq Cursors
    BY DEF Base, Cursors
  <1> PICK n : n = AilNext(ail, r)
    OBVIOUS
  <1>2. cursor'[w] = n /\ (\A v \in Travs \ {w} : cursor'[v] = cursor[v]) /\ InAil' = InAil
    BY <1>1 DEF CursorShape, InAil
  <1>3. \A v \in Travs \ {w} : \A j : Upfront(ail, cursor[v], j)' <=> Upfront(ail, cursor[v], j)
    BY <1>2 DEF Upfront
  <1>4. S \ (T \cup {r}) \subseteq (S \ T) \ {r}
    OBVIOUS
  <1>5. n = NULL => S \subseteq T \cup {r}
    BY <1>1, AfterNext
  <1>6. n # NULL => \A j \in S \ (T \cup {r}) : Upfront(ail, n, j)
    BY <1>1, AfterNext
  <1>7. n # NULL => \A j \in S \ (T \cup {r}) : Upfront(ail, cursor[w], j)'
    BY <1>2, <1>6 DEF Upfront
  <1>8. n \in Items => n # NULL
    BY AilAssumption
  <1> QED BY <1>2, <1>3, <1>5, <1>7, <1>8 DEF WalkOK, AheadOf

\* A walk that ends when it has seen all it has to see.
LEMMA Ended ==
  ASSUME Base, NEW w \in Travs, UNCHANGED ail, walk'[w].pc \in {"end", "done"},
         walk'[w].must \subseteq InAil, walk'[w].must \subseteq walk'[w].seen,
         \A v \in Travs \ {w} : walk'[v] = walk[v] /\ cursor'[v] = cursor[v],
         WalkOK
  PROVE  WalkOK'
  <1>1. InAil' = InAil
    BY DEF InAil
  <1>2. \A v \in Travs \ {w} : \A j : Upfront(ail, cursor[v], j)' <=> Upfront(ail, cursor[v], j)
    BY DEF Upfront
  <1> QED BY <1>1, <1>2 DEF WalkOK, AheadOf

\* xfs_trans_ail_cursor_first of a walk.
LEMMA WalkFirstKeeps ==
  ASSUME Base, WalkOK, NEW w \in Travs, WalkFirst(w)
  PROVE  WalkOK'
  <1>1. ListShape /\ CursorShape /\ WalkShape /\ Travs \subseteq Cursors /\ UNCHANGED ail
    BY DEF Base, Cursors, WalkFirst, list
  <1>2. /\ \A v \in Travs \ {w} : walk'[v] = walk[v] /\ cursor'[v] = cursor[v]
        /\ walk'[w] = [pc |-> IF ail = <<>> THEN "end" ELSE "walking",
                       seen |-> InAil \cap {AilMin(ail)}, must |-> InAil]
    BY <1>1 DEF WalkFirst, WalkShape, CursorShape, InAil
  <1>3. CASE ail = <<>>
    <2>1. InAil = {}
      BY <1>3 DEF InAil, ToSet
    <2> QED BY <1>1, <1>2, <1>3, <2>1, Ended
  <1>4. CASE ail # <<>>
    <2>1. AilMin(ail) \in InAil /\ \A j \in InAil : Upfront(ail, AilMin(ail), j)
      BY <1>1, <1>4, MinIsFirst
    <2>2. cursor' = [cursor EXCEPT ![w] = AilNext(ail, AilMin(ail))]
      BY <1>4 DEF WalkFirst, AilMin
    <2>3. walk'[w] = [pc |-> "walking", seen |-> {} \cup {AilMin(ail)}, must |-> InAil]
      BY <1>2, <1>4, <2>1
    <2> QED BY <1>1, <1>2, <2>1, <2>2, <2>3, Returned
  <1> QED BY <1>3, <1>4

\* xfs_trans_ail_cursor_next of a walk, which starts over if its item has moved.
LEMMA WalkNextKeeps ==
  ASSUME Base, WalkOK, NEW w \in Travs, WalkNext(w)
  PROVE  WalkOK'
  <1> PICK r : r = CursorItem(w)
    OBVIOUS
  <1>1. ListShape /\ CursorShape /\ WalkShape /\ w \in Cursors /\ UNCHANGED ail /\ NULL \notin Items
    BY AilAssumption DEF Base, Cursors, WalkNext, list
  <1>2. /\ walk[w].pc = "walking" /\ walk[w].must \subseteq InAil
        /\ cursor[w] = NULL => walk[w].must \subseteq walk[w].seen
        /\ \A j \in walk[w].must \ walk[w].seen : cursor[w] \in Items => Upfront(ail, cursor[w], j)
    BY DEF WalkNext, WalkOK, AheadOf
  <1>3. /\ \A v \in Travs \ {w} : walk'[v] = walk[v]
        /\ walk'[w] = [pc |-> IF r = NULL THEN "end" ELSE "walking",
                       seen |-> IF r = NULL THEN walk[w].seen ELSE walk[w].seen \cup {r},
                       must |-> walk[w].must]
        /\ cursor' = [cursor EXCEPT ![w] = IF r = NULL THEN @ ELSE AilNext(ail, r)]
    BY <1>1 DEF WalkNext, WalkReturns, CursorSet, WalkShape, WalkRec
  <1>4. r \in InAil \cup {NULL}
    BY <1>1, CursorIs
  <1>5. CASE r = NULL
    <2>1. walk[w].must \subseteq walk[w].seen
      <3>1. CASE cursor[w] = Invalid
        <4>1. ail = <<>>
          BY <1>1, <1>5, <3>1, MinIs DEF CursorItem
        <4>2. InAil = {}
          BY <4>1 DEF InAil, ToSet
        <4> QED BY <1>2, <4>2
      <3>2. CASE cursor[w] # Invalid
        BY <1>2, <1>5, <3>2 DEF CursorItem
      <3> QED BY <3>1, <3>2
    <2>2. cursor' = cursor
      BY <1>1, <1>3, <1>5 DEF CursorShape
    <2> QED BY <1>1, <1>2, <1>3, <1>5, <2>1, <2>2, Ended
  <1>6. CASE r # NULL
    <2>1. \A j \in walk[w].must \ walk[w].seen : Upfront(ail, r, j)
      <3>1. CASE cursor[w] = Invalid
        <4>1. r = AilMin(ail) /\ ail # <<>>
          BY <1>6, <3>1 DEF CursorItem, AilMin
        <4> QED BY <1>1, <1>2, <4>1, MinIsFirst
      <3>2. CASE cursor[w] # Invalid
        <4>1. r = cursor[w] /\ r \in Items
          BY <1>1, <1>4, <1>6, <3>2 DEF CursorItem, ListShape
        <4> QED BY <1>2, <4>1
      <3> QED BY <3>1, <3>2
    <2>2. /\ walk'[w] = [pc |-> "walking", seen |-> walk[w].seen \cup {r}, must |-> walk[w].must]
          /\ cursor' = [cursor EXCEPT ![w] = AilNext(ail, r)]
      BY <1>3, <1>6
    <2> QED BY <1>1, <1>2, <1>3, <1>4, <1>6, <2>1, <2>2, Returned
  <1> QED BY <1>5, <1>6

\* xfs_trans_ail_cursor_done of a walk.
LEMMA WalkDoneKeeps ==
  ASSUME Base, WalkOK, NEW w \in Travs, WalkDone(w)
  PROVE  WalkOK'
  <1>1. CursorShape /\ WalkShape /\ Travs \subseteq Cursors
    BY DEF Base, Cursors
  <1>2. /\ \A v \in Travs \ {w} : walk'[v] = walk[v] /\ cursor'[v] = cursor[v]
        /\ walk'[w].pc = "done" /\ walk'[w].must = {} /\ walk'[w].seen = {} /\ UNCHANGED ail
    BY <1>1 DEF WalkDone, WalkShape, CursorShape, NoWalk, list
  <1> QED BY <1>2, Ended

\* Every step keeps what a walk has to see before it.
LEMMA WalksStep == ASSUME Base, WalkOK, [Next]_vars PROVE WalkOK'
  <1>1. CASE UNCHANGED <<list, walk>> /\ \A w \in Travs : cursor'[w] = cursor[w]
    <2>1. UNCHANGED <<ail, walk>>
      BY <1>1 DEF list
    <2>2. InAil' = InAil /\ \A w \in Travs : \A j : Upfront(ail, cursor[w], j)' <=> Upfront(ail, cursor[w], j)
      BY <1>1, <2>1 DEF InAil, Upfront
    <2> QED BY <1>1, <2>1, <2>2 DEF WalkOK, AheadOf
  <1> QED BY <1>1, WalksAre, WalkFirstKeeps, WalkNextKeeps, WalkDoneKeeps, WalkUpdates, WalkDeletes

\* A walk has all it still has to see before it.
THEOREM WalksHold == Spec => []WalkOK
  <1>1. Init => WalkOK
    BY DEF Init, WalkOK, NoWalk
  <1>2. Base /\ WalkOK /\ [Next]_vars => WalkOK'
    BY WalksStep
  <1> QED BY <1>1, <1>2, BaseHolds, PTL DEF Spec

\* A walk over the AIL returns every item that was on it from beginning to end, and its
\* cursor never points to an item that is gone (xfs_trans_ail_cursor_next).
THEOREM WalkCompletes == Spec => []WalkIsComplete
  <1>1. Base /\ WalkOK => WalkIsComplete
    BY DEF Base, CursorShape, WalkShape, WalkOK, WalkIsComplete, CursorsAreLive, WalkMissesNothing
  <1> QED BY <1>1, BaseHolds, WalksHold, PTL DEF Spec

\* The variables have their types, and an item has an lsn exactly when it is on the AIL.
THEOREM TypeInvariant == Spec => []TypeOK
  <1>1. Base /\ LockOK /\ PinOK => TypeOK
    <2>1. ASSUME Base, PinOK PROVE TypeOK
      <3>1. pin \in [Items -> Nat]
        BY <2>1, PinIs DEF Base, ItemShape
      <3>2. shut \in BOOLEAN
        BY <2>1 DEF Base, LogShape
      <3> QED BY <2>1, <3>1, <3>2 DEF Base, LogShape, ItemShape, PushShape, ListShape, CursorShape, TypeOK
    <2> QED BY <2>1
  <1> QED BY <1>1, BaseHolds, LocksHold, PTL DEF Spec
=============================================================================
