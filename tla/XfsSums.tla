------------------------------- MODULE XfsSums -------------------------------
(***************************************************************************)
(* Lemmas about sums over finite sets, for the proofs about the components *)
(* that account for space: the heads of the log are ahead by the sum of    *)
(* what the tickets hold, free space is the sum of what the cpus count.    *)
(* The provers know nothing of the folds of the community modules.  What   *)
(* a sum is follows from the definition of the fold, by the smallest set   *)
(* that would be a counterexample.                                         *)
(***************************************************************************)
EXTENDS Integers, FiniteSets, FiniteSetsExt, FiniteSetTheorems, WellFoundedInduction, TLAPS

\* Among finite sets there is one that has no proper subset among them.
LEMMA SmallestExists ==
  ASSUME NEW B, B # {}, \A s \in B : IsFiniteSet(s)
  PROVE  \E s \in B : \A u \in B : u \subseteq s => u = s
  <1> DEFINE C == {Cardinality(s) : s \in B}
             R == OpToRel(<, Nat)
  <1>1. C \subseteq Nat /\ C # {}
    BY FS_CardinalityType
  <1>2. IsWellFoundedOn(R, Nat)
    BY NatLessThanWellFounded
  <1>3. \E x \in C : \A y \in C : <<y, x>> \notin R
    <2> HIDE DEF R, C
    <2> QED BY <1>1, <1>2, WFMin
  <1>4. R = {ss \in Nat \X Nat : ss[1] < ss[2]}
    BY Zenon DEF OpToRel
  <1>5. PICK s \in B : \A y \in C : <<y, Cardinality(s)>> \notin R
    BY <1>3
  <1>6. ASSUME NEW u \in B, u \subseteq s, u # s PROVE FALSE
    <2>1. IsFiniteSet(s) /\ IsFiniteSet(u)
      OBVIOUS
    <2>2. Cardinality(u) \in C /\ Cardinality(s) \in C
      OBVIOUS
    <2>3. Cardinality(u) < Cardinality(s)
      <3>1. Cardinality(u) <= Cardinality(s) /\ (Cardinality(u) = Cardinality(s) => u = s)
        BY <1>6, <2>1, FS_Subset
      <3>2. Cardinality(u) \in Nat /\ Cardinality(s) \in Nat
        BY <2>1, FS_CardinalityType
      <3> QED BY <1>6, <3>1, <3>2
    <2>4. <<Cardinality(u), Cardinality(s)>> \in R
      <3> HIDE DEF C, R
      <3> QED BY <1>1, <1>4, <2>2, <2>3
    <2> QED BY <1>5, <2>2, <2>4
  <1> QED BY <1>6

Pick(s) == CHOOSE x \in s : TRUE

\* g adds f up over the subsets of S
Adds(g, f, S) == g = [s \in SUBSET S |-> IF s = {} THEN 0 ELSE f[Pick(s)] + g[s \ {Pick(s)}]]

LEMMA SumIs == ASSUME NEW f, NEW S
               PROVE  SumFunctionOnSet(f, S) = (CHOOSE g : Adds(g, f, S))[S]
  BY Zenon DEF SumFunctionOnSet, FoldFunctionOnSet, MapThenFoldSet, Adds, Pick

LEMMA AddsOnce ==
  ASSUME NEW f, NEW S, IsFiniteSet(S), NEW g, NEW h, Adds(g, f, S), Adds(h, f, S)
  PROVE  g = h
  <1> DEFINE B == {s \in SUBSET S : g[s] # h[s]}
  <1>1. ASSUME B # {} PROVE FALSE
    <2>1. \A s \in B : IsFiniteSet(s)
      BY FS_Subset
    <2>2. PICK s \in B : \A u \in B : u \subseteq s => u = s
      <3> HIDE DEF B
      <3> QED BY <1>1, <2>1, SmallestExists
    <2>3. s # {}
      BY DEF Adds
    <2> DEFINE u == s \ {Pick(s)}
    <2>4. Pick(s) \in s
      BY <2>3 DEF Pick
    <2>5. u \in SUBSET S /\ u \subseteq s /\ u # s
      BY <2>4
    <2>6. g[u] = h[u]
      BY <2>2, <2>5
    <2>7. g[s] = f[Pick(s)] + g[u] /\ h[s] = f[Pick(s)] + h[u]
      BY <2>3 DEF Adds
    <2> QED BY <2>6, <2>7
  <1>2. \A s \in SUBSET S : g[s] = h[s]
    BY <1>1
  <1>3. g = [s \in SUBSET S |-> g[s]] /\ h = [s \in SUBSET S |-> h[s]]
    BY DEF Adds
  <1> QED BY <1>2, <1>3

\* A part of it adds up a part of S.
LEMMA AddsPart ==
  ASSUME NEW f, NEW S, NEW T \in SUBSET S, NEW g, Adds(g, f, S)
  PROVE  Adds([s \in SUBSET T |-> g[s]], f, T)
  <1> DEFINE h == [s \in SUBSET T |-> g[s]]
  <1>1. ASSUME NEW s \in SUBSET T
        PROVE  h[s] = IF s = {} THEN 0 ELSE f[Pick(s)] + h[s \ {Pick(s)}]
    <2>1. s \in SUBSET S /\ s \ {Pick(s)} \in SUBSET T
      OBVIOUS
    <2>2. g[s] = IF s = {} THEN 0 ELSE f[Pick(s)] + g[s \ {Pick(s)}]
      BY <2>1 DEF Adds
    <2> QED BY <2>1, <2>2
  <1>2. h = [s \in SUBSET T |-> IF s = {} THEN 0 ELSE f[Pick(s)] + h[s \ {Pick(s)}]]
    BY <1>1
  <1> QED BY <1>2 DEF Adds

LEMMA AddsExists ==
  ASSUME NEW f, NEW S, IsFiniteSet(S)
  PROVE  \E g : Adds(g, f, S)
  <1> DEFINE B == {T \in SUBSET S : ~\E g : Adds(g, f, T)}
  <1>1. ASSUME B # {} PROVE FALSE
    <2>1. \A s \in B : IsFiniteSet(s)
      BY FS_Subset
    <2>2. PICK T \in B : \A u \in B : u \subseteq T => u = T
      <3> HIDE DEF B
      <3> QED BY <1>1, <2>1, SmallestExists
    <2> DEFINE a(s) == IF s = {} THEN 0 ELSE f[Pick(s)] + SumFunctionOnSet(f, s \ {Pick(s)})
               h == [s \in SUBSET T |-> a(s)]
    <2>3. ASSUME NEW s \in SUBSET T, s # T PROVE SumFunctionOnSet(f, s) = a(s)
      <3>1. s \notin B /\ s \in SUBSET S
        BY <2>2, <2>3
      <3>2. PICK g : Adds(g, f, s)
        BY <3>1
      <3>3. IsFiniteSet(s)
        BY <3>1, FS_Subset
      <3>4. \A k : Adds(k, f, s) => k = g
        BY <3>2, <3>3, AddsOnce
      <3>5. SumFunctionOnSet(f, s) = g[s]
        <4>1. (CHOOSE k : Adds(k, f, s)) = g
          BY <3>2, <3>4
        <4> QED BY <4>1, SumIs
      <3>6. CASE s = {}
        <4>1. g[s] = 0
          BY <3>2, <3>6 DEF Adds
        <4> QED BY <3>5, <3>6, <4>1
      <3>7. CASE s # {}
        <4> DEFINE u == s \ {Pick(s)}
                   k == [x \in SUBSET u |-> g[x]]
        <4>1. u \in SUBSET s /\ u \in SUBSET S /\ IsFiniteSet(u)
          BY <3>1, <3>3, FS_Subset
        <4>2. Adds(k, f, u)
          BY <3>2, <4>1, AddsPart
        <4>3. (CHOOSE y : Adds(y, f, u)) = k
          <5>1. \A y : Adds(y, f, u) => y = k
            BY <4>1, <4>2, AddsOnce
          <5> HIDE DEF k, u
          <5> QED BY <4>2, <5>1
        <4>4. SumFunctionOnSet(f, u) = g[u]
          <5>1. SumFunctionOnSet(f, u) = k[u]
            BY <4>3, SumIs
          <5> QED BY <5>1
        <4>5. g[s] = f[Pick(s)] + g[u]
          BY <3>2, <3>7 DEF Adds
        <4> QED BY <3>5, <3>7, <4>4, <4>5
      <3> QED BY <3>6, <3>7
    <2>4. ASSUME NEW s \in SUBSET T PROVE h[s] = IF s = {} THEN 0 ELSE f[Pick(s)] + h[s \ {Pick(s)}]
      <3>1. CASE s = {}
        BY <3>1
      <3>2. CASE s # {}
        <4> DEFINE u == s \ {Pick(s)}
        <4>1. Pick(s) \in s
          BY <3>2 DEF Pick
        <4>2. u \in SUBSET T /\ u # T
          BY <4>1
        <4>3. SumFunctionOnSet(f, u) = a(u)
          <5> HIDE DEF u, a
          <5> QED BY <4>2, <2>3
        <4>4. h[u] = a(u)
          BY <4>2
        <4>5. h[s] = f[Pick(s)] + SumFunctionOnSet(f, u)
          BY <3>2
        <4> HIDE DEF h, a
        <4> QED BY <3>2, <4>3, <4>4, <4>5
      <3> QED BY <3>1, <3>2
    <2>5. h = [s \in SUBSET T |-> IF s = {} THEN 0 ELSE f[Pick(s)] + h[s \ {Pick(s)}]]
      <3>1. h = [s \in SUBSET T |-> h[s]]
        OBVIOUS
      <3> HIDE DEF h
      <3> QED BY <2>4, <3>1
    <2>6. Adds(h, f, T)
      <3> HIDE DEF h
      <3> QED BY <2>5 DEF Adds
    <2> QED BY <2>6
  <1> QED BY <1>1

\* The recursion of the fold: the picked element and the sum of the rest.
LEMMA SumPicked ==
  ASSUME NEW f, NEW S, IsFiniteSet(S)
  PROVE  SumFunctionOnSet(f, S) = IF S = {} THEN 0
                                  ELSE f[Pick(S)] + SumFunctionOnSet(f, S \ {Pick(S)})
  <1>1. PICK g : Adds(g, f, S)
    BY AddsExists
  <1> DEFINE u == S \ {Pick(S)}
             k == [x \in SUBSET u |-> g[x]]
  <1>2. (CHOOSE y : Adds(y, f, S)) = g
    <2>1. \A y : Adds(y, f, S) => y = g
      BY <1>1, AddsOnce
    <2> QED BY <1>1, <2>1
  <1>3. u \in SUBSET S /\ IsFiniteSet(u)
    BY FS_Subset
  <1>4. Adds(k, f, u)
    BY <1>1, <1>3, AddsPart
  <1>5. (CHOOSE y : Adds(y, f, u)) = k
    <2>1. \A y : Adds(y, f, u) => y = k
      BY <1>3, <1>4, AddsOnce
    <2> HIDE DEF k, u
    <2> QED BY <1>4, <2>1
  <1>6. SumFunctionOnSet(f, u) = g[u]
    <2>1. SumFunctionOnSet(f, u) = k[u]
      BY <1>5, SumIs
    <2> QED BY <2>1
  <1>7. SumFunctionOnSet(f, S) = g[S]
    BY <1>2, SumIs
  <1>8. g[S] = IF S = {} THEN 0 ELSE f[Pick(S)] + g[u]
    BY <1>1 DEF Adds
  <1> HIDE DEF u
  <1>9. g[S] = IF S = {} THEN 0 ELSE f[Pick(S)] + SumFunctionOnSet(f, u)
    BY <1>6, <1>8
  <1> QED BY <1>7, <1>9 DEF u

\* Adding up integers, in whatever order
LEMMA SumTake ==
  ASSUME NEW f, NEW S, IsFiniteSet(S), \A x \in S : f[x] \in Int
  PROVE  /\ SumFunctionOnSet(f, S) \in Int
         /\ \A x \in S : SumFunctionOnSet(f, S) = f[x] + SumFunctionOnSet(f, S \ {x})
  <1> DEFINE sum(s) == SumFunctionOnSet(f, s)
             good(s) == sum(s) \in Int /\ \A x \in s : sum(s) = f[x] + sum(s \ {x})
             B == {s \in SUBSET S : ~good(s)}
  <1>1. ASSUME B # {} PROVE FALSE
    <2>1. \A s \in B : IsFiniteSet(s)
      BY FS_Subset
    <2>2. PICK s \in B : \A u \in B : u \subseteq s => u = s
      <3> HIDE DEF B
      <3> QED BY <1>1, <2>1, SmallestExists
    <2> DEFINE p == Pick(s)
    <2>3. /\ s \in SUBSET S /\ IsFiniteSet(s) /\ ~good(s)
          /\ \A u \in SUBSET s : u # s => good(u)
      <3>1. s \in SUBSET S /\ IsFiniteSet(s) /\ ~good(s)
        BY <2>1
      <3>2. ASSUME NEW u \in SUBSET s, u # s PROVE good(u)
        <4>1. u \notin B /\ u \in SUBSET S
          <5> HIDE DEF B, good
          <5> QED BY <2>2, <3>1, <3>2
        <4> QED BY <4>1
      <3> HIDE DEF good
      <3> QED BY <3>1, <3>2
    <2>4. s # {}
      <3>1. CASE s = {}
        <4>1. sum(s) = 0
          BY <2>3, <3>1, SumPicked
        <4> QED BY <2>3, <3>1, <4>1
      <3> QED BY <3>1
    <2>5. p \in s
      BY <2>4 DEF Pick
    <2>6. sum(s) = f[p] + sum(s \ {p})
      BY <2>3, <2>4, SumPicked
    <2>7. good(s \ {p})
      <3> HIDE DEF good, p
      <3> QED BY <2>3, <2>5
    <2>8. f[p] \in Int /\ \A x \in s : f[x] \in Int
      BY <2>3, <2>5
    <2> HIDE DEF p
    <2>9. sum(s) \in Int
      BY <2>6, <2>7, <2>8
    <2>10. ASSUME NEW x \in s PROVE sum(s) = f[x] + sum(s \ {x})
      <3>1. CASE x = p
        BY <2>6, <3>1
      <3>2. CASE x # p
        <4> DEFINE r == (s \ {p}) \ {x}
        <4>1. x \in s \ {p} /\ p \in s \ {x}
          BY <2>5, <3>2
        <4>2. sum(s \ {p}) = f[x] + sum(r)
          BY <2>7, <4>1
        <4>3. good(s \ {x}) /\ good(r)
          <5>1. s \ {x} \in SUBSET s /\ s \ {x} # s /\ r \in SUBSET s /\ r # s
            OBVIOUS
          <5> HIDE DEF good, r
          <5> QED BY <2>3, <5>1
        <4>4. sum(s \ {x}) = f[p] + sum((s \ {x}) \ {p})
          BY <4>1, <4>3
        <4>5. (s \ {x}) \ {p} = r
          OBVIOUS
        <4>6. sum(r) \in Int
          BY <4>3
        <4>7. sum(s \ {x}) = f[p] + sum(r)
          BY <4>4, <4>5
        <4>8. f[p] \in Int /\ f[x] \in Int
          BY <2>8
        <4> DEFINE a == sum(s \ {x})
                   b == sum(s \ {p})
                   c == sum(r)
        <4>9. a = f[p] + c /\ sum(s) = f[p] + b /\ b = f[x] + c /\ c \in Int
          BY <2>6, <4>2, <4>6, <4>7
        <4>10. sum(s) = f[x] + a
          <5> HIDE DEF a, b, c, sum
          <5> QED BY <4>8, <4>9
        <4> QED BY <4>10
      <3> QED BY <3>1, <3>2
    <2> QED BY <2>3, <2>9, <2>10
  <1>2. S \notin B
    BY <1>1
  <1> QED BY <1>2

\* The sum of a function that is nowhere larger is not larger.
LEMMA SumUpTo ==
  ASSUME NEW f, NEW g, NEW S, IsFiniteSet(S),
         \A x \in S : f[x] \in Int /\ g[x] \in Int /\ f[x] <= g[x]
  PROVE  SumFunctionOnSet(f, S) <= SumFunctionOnSet(g, S)
  <1> DEFINE good(s) == SumFunctionOnSet(f, s) <= SumFunctionOnSet(g, s)
             B == {s \in SUBSET S : ~good(s)}
  <1>1. ASSUME B # {} PROVE FALSE
    <2>1. \A s \in B : IsFiniteSet(s)
      BY FS_Subset
    <2>2. PICK s \in B : \A u \in B : u \subseteq s => u = s
      <3> HIDE DEF B
      <3> QED BY <1>1, <2>1, SmallestExists
    <2>3. s \in SUBSET S /\ IsFiniteSet(s) /\ ~good(s)
      BY <2>1
    <2>4. s # {}
      <3>1. CASE s = {}
        <4>1. SumFunctionOnSet(f, s) = 0 /\ SumFunctionOnSet(g, s) = 0
          BY <2>3, <3>1, SumPicked
        <4> QED BY <2>3, <4>1
      <3> QED BY <3>1
    <2>5. PICK x \in s : TRUE
      BY <2>4
    <2> DEFINE u == s \ {x}
    <2>6. u \subseteq s /\ u # s /\ u \in SUBSET S /\ IsFiniteSet(u)
      BY <2>3, <2>5, FS_Subset
    <2>7. good(u)
      <3>1. u \notin B
        <4> HIDE DEF B, u
        <4> QED BY <2>2, <2>6
      <3> QED BY <2>6, <3>1
    <2>8. /\ SumFunctionOnSet(f, s) = f[x] + SumFunctionOnSet(f, u)
          /\ SumFunctionOnSet(g, s) = g[x] + SumFunctionOnSet(g, u)
      BY <2>3, SumTake
    <2>9. SumFunctionOnSet(f, u) \in Int /\ SumFunctionOnSet(g, u) \in Int
      <3> HIDE DEF u
      <3> QED BY <2>6, SumTake
    <2>10. f[x] \in Int /\ g[x] \in Int /\ f[x] <= g[x]
      BY <2>3
    <2> HIDE DEF u
    <2> QED BY <2>3, <2>7, <2>8, <2>9, <2>10
  <1>2. S \notin B
    BY <1>1
  <1> QED BY <1>2

LEMMA SumSame ==
  ASSUME NEW f, NEW g, NEW S, IsFiniteSet(S), \A x \in S : f[x] \in Int /\ f[x] = g[x]
  PROVE  SumFunctionOnSet(f, S) = SumFunctionOnSet(g, S)
  <1>1. SumFunctionOnSet(f, S) \in Int /\ SumFunctionOnSet(g, S) \in Int
    BY SumTake
  <1>2. \A x \in S : f[x] \in Int /\ g[x] \in Int /\ f[x] <= g[x] /\ g[x] <= f[x]
    OBVIOUS
  <1>3. SumFunctionOnSet(f, S) <= SumFunctionOnSet(g, S) /\ SumFunctionOnSet(g, S) <= SumFunctionOnSet(f, S)
    BY <1>2, SumUpTo
  <1> QED BY <1>1, <1>3

\* Changing one value changes the sum by as much.
LEMMA SumChange ==
  ASSUME NEW f, NEW g, NEW S, IsFiniteSet(S), NEW x \in S,
         \A y \in S : f[y] \in Int /\ g[y] \in Int,
         \A y \in S : y # x => f[y] = g[y]
  PROVE  SumFunctionOnSet(g, S) = SumFunctionOnSet(f, S) - f[x] + g[x]
  <1> DEFINE u == S \ {x}
  <1>1. IsFiniteSet(u) /\ \A y \in u : f[y] \in Int /\ g[y] \in Int /\ f[y] = g[y]
    BY FS_Subset
  <1>2. /\ SumFunctionOnSet(f, S) = f[x] + SumFunctionOnSet(f, u)
        /\ SumFunctionOnSet(g, S) = g[x] + SumFunctionOnSet(g, u)
    BY SumTake
  <1> HIDE DEF u
  <1>3. SumFunctionOnSet(f, u) = SumFunctionOnSet(g, u) /\ SumFunctionOnSet(f, u) \in Int
    BY <1>1, SumSame, SumTake
  <1>4. f[x] \in Int /\ g[x] \in Int
    OBVIOUS
  <1> QED BY <1>2, <1>3, <1>4

LEMMA SumOfNone == ASSUME NEW f, NEW S, IsFiniteSet(S), \A x \in S : f[x] = 0
                   PROVE  SumFunctionOnSet(f, S) = 0
  <1> DEFINE B == {s \in SUBSET S : SumFunctionOnSet(f, s) # 0}
  <1>1. ASSUME B # {} PROVE FALSE
    <2>1. \A s \in B : IsFiniteSet(s)
      BY FS_Subset
    <2>2. PICK s \in B : \A u \in B : u \subseteq s => u = s
      <3> HIDE DEF B
      <3> QED BY <1>1, <2>1, SmallestExists
    <2>3. s \in SUBSET S /\ IsFiniteSet(s) /\ SumFunctionOnSet(f, s) # 0
      BY <2>1
    <2>4. s # {}
      BY <2>3, SumPicked
    <2> DEFINE p == Pick(s)
               u == s \ {p}
    <2>5. p \in s
      BY <2>4 DEF Pick
    <2>6. SumFunctionOnSet(f, s) = f[p] + SumFunctionOnSet(f, u)
      BY <2>3, <2>4, SumPicked
    <2>7. SumFunctionOnSet(f, u) = 0
      <3>1. u \subseteq s /\ u # s /\ u \in SUBSET S
        BY <2>3, <2>5
      <3>2. u \notin B
        <4> HIDE DEF B, u
        <4> QED BY <2>2, <3>1
      <3> HIDE DEF u
      <3> QED BY <3>1, <3>2
    <2>8. f[p] = 0
      BY <2>3, <2>5
    <2> HIDE DEF p, u
    <2> QED BY <2>3, <2>6, <2>7, <2>8
  <1>2. S \notin B
    BY <1>1
  <1> QED BY <1>2

\* A sum of numbers none of which is negative is none either, and no part is larger.
LEMMA SumOfNaturals ==
  ASSUME NEW f, NEW S, IsFiniteSet(S), \A x \in S : f[x] \in Int /\ f[x] >= 0
  PROVE  /\ SumFunctionOnSet(f, S) >= 0
         /\ \A x \in S : SumFunctionOnSet(f, S) >= f[x]
  <1>1. ASSUME NEW T \in SUBSET S PROVE SumFunctionOnSet(f, T) \in Int /\ SumFunctionOnSet(f, T) >= 0
    <2> DEFINE z == [x \in T |-> 0]
    <2>1. IsFiniteSet(T)
      BY FS_Subset
    <2>2. \A x \in T : z[x] \in Int /\ f[x] \in Int /\ z[x] <= f[x] /\ z[x] = 0
      OBVIOUS
    <2> HIDE DEF z
    <2>3. SumFunctionOnSet(z, T) = 0
      BY <2>1, <2>2, SumOfNone
    <2>4. SumFunctionOnSet(z, T) <= SumFunctionOnSet(f, T)
      BY <2>1, <2>2, SumUpTo
    <2>5. SumFunctionOnSet(f, T) \in Int
      BY <2>1, <2>2, SumTake
    <2> QED BY <2>3, <2>4, <2>5
  <1>2. ASSUME NEW x \in S PROVE SumFunctionOnSet(f, S) >= f[x]
    <2>1. SumFunctionOnSet(f, S) = f[x] + SumFunctionOnSet(f, S \ {x})
      BY SumTake
    <2>2. SumFunctionOnSet(f, S \ {x}) \in Int /\ SumFunctionOnSet(f, S \ {x}) >= 0
      BY <1>1
    <2>3. f[x] \in Int
      OBVIOUS
    <2> QED BY <2>1, <2>2, <2>3
  <1> QED BY <1>1, <1>2

LEMMA SumOfEquals ==
  ASSUME NEW f, NEW S, NEW k \in Int, IsFiniteSet(S), \A x \in S : f[x] = k
  PROVE  SumFunctionOnSet(f, S) = Cardinality(S) * k
  <1> DEFINE good(s) == SumFunctionOnSet(f, s) = Cardinality(s) * k
             B == {s \in SUBSET S : ~good(s)}
  <1>1. ASSUME B # {} PROVE FALSE
    <2>1. \A s \in B : IsFiniteSet(s)
      BY FS_Subset
    <2>2. PICK s \in B : \A u \in B : u \subseteq s => u = s
      <3> HIDE DEF B
      <3> QED BY <1>1, <2>1, SmallestExists
    <2>3. s \in SUBSET S /\ IsFiniteSet(s) /\ ~good(s)
      BY <2>1
    <2>4. s # {}
      <3>1. CASE s = {}
        <4>1. SumFunctionOnSet(f, s) = 0 /\ Cardinality(s) = 0
          BY <2>3, <3>1, SumPicked, FS_EmptySet
        <4> QED BY <2>3, <4>1
      <3> QED BY <3>1
    <2>5. PICK x \in s : TRUE
      BY <2>4
    <2> DEFINE u == s \ {x}
    <2>6. u \subseteq s /\ u # s /\ u \in SUBSET S /\ IsFiniteSet(u)
      BY <2>3, <2>5, FS_Subset
    <2>7. good(u)
      <3>1. u \notin B
        <4> HIDE DEF B, u
        <4> QED BY <2>2, <2>6
      <3> QED BY <2>6, <3>1
    <2>8. SumFunctionOnSet(f, s) = k + SumFunctionOnSet(f, u)
      <3>1. \A y \in s : f[y] \in Int
        BY <2>3
      <3>2. SumFunctionOnSet(f, s) = f[x] + SumFunctionOnSet(f, u)
        BY <2>3, <2>5, <3>1, SumTake
      <3>3. f[x] = k
        BY <2>3, <2>5
      <3> QED BY <3>2, <3>3
    <2>9. Cardinality(s) = Cardinality(u) + 1 /\ Cardinality(u) \in Nat
      <3>1. Cardinality(u) = Cardinality(s) - 1 /\ Cardinality(s) \in Nat
        BY <2>3, <2>5, FS_RemoveElement, FS_CardinalityType
      <3>2. Cardinality(u) \in Nat
        BY <2>6, FS_CardinalityType
      <3> HIDE DEF u
      <3> QED BY <3>1, <3>2
    <2>10. ASSUME NEW n \in Nat PROVE (n + 1) * k = k + n * k
      OBVIOUS
    <2> HIDE DEF u
    <2>11. Cardinality(s) * k = k + Cardinality(u) * k
      BY <2>9, <2>10
    <2> QED BY <2>3, <2>7, <2>8, <2>11
  <1>2. S \notin B
    BY <1>1
  <1> QED BY <1>2

\* A finite set of numbers has a least one.
LEMMA MinIsIn ==
  ASSUME NEW S, IsFiniteSet(S), S # {}, S \subseteq Int
  PROVE  Min(S) \in S /\ \A y \in S : Min(S) <= y
  <1> DEFINE good(s) == \E x \in s : \A y \in s : x <= y
             B == {s \in SUBSET S : s # {} /\ ~good(s)}
  <1>1. ASSUME B # {} PROVE FALSE
    <2>1. \A s \in B : IsFiniteSet(s)
      BY FS_Subset
    <2>2. PICK s \in B : \A u \in B : u \subseteq s => u = s
      <3> HIDE DEF B
      <3> QED BY <1>1, <2>1, SmallestExists
    <2>3. PICK x \in s : x \in Int
      OBVIOUS
    <2> DEFINE u == s \ {x}
    <2>4. u \notin B
      <3>1. u # s /\ u \subseteq s
        BY <2>3
      <3> HIDE DEF B, u
      <3> QED BY <2>2, <3>1
    <2>5. CASE u = {}
      <3>1. \A y \in s : y = x
        BY <2>5
      <3>2. good(s)
        BY <2>3, <3>1
      <3> QED BY <3>2
    <2>6. CASE u # {}
      <3>1. PICK m \in u : \A y \in u : m <= y
        BY <2>4, <2>6
      <3>2. m \in Int /\ \A y \in s : y \in Int /\ (y = x \/ m <= y)
        BY <3>1
      <3>3. CASE x <= m
        <4>1. \A y \in s : x <= y
          BY <2>3, <3>2, <3>3
        <4> QED BY <2>3, <4>1
      <3>4. CASE ~(x <= m)
        <4>1. \A y \in s : m <= y
          BY <2>3, <3>2, <3>4
        <4> QED BY <3>1, <4>1
      <3> QED BY <3>3, <3>4
    <2> QED BY <2>5, <2>6
  <1>2. good(S)
    BY <1>1
  <1> QED BY <1>2 DEF Min
=============================================================================
