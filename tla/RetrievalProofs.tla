-------------------------- MODULE RetrievalProofs --------------------------
(***************************************************************************)
(* What a retrieval cites, for any chunks, queries, rankings and limits:   *)
(* all that was found lies in the scope (ReturnedInScope), what has been   *)
(* cited is a cut of it by the weighted scores (CiteInv), and the order of *)
(* those scores agrees with the reranker and the country wherever the two  *)
(* agree (PreferredIsHeavier).  And what a query finds: the chunk that     *)
(* leads both of its rankings is scaled to the whole score in each         *)
(* (PartIs), no cut of fused rows leaves out the first (LeaderIsKept), so  *)
(* neither the number of rows nor the share of a document excludes it      *)
(* (LeaderIsReturned).                                                     *)
(***************************************************************************)
EXTENDS Retrieval, Integers, FiniteSetTheorems, WellFoundedInduction, TLAPS

(* What has been cited is a context of what was found.                     *)
CiteInv == pc = "done" => cites \in Contexts

RInv == TypeOK /\ CiteInv
-----------------------------------------------------------------------------
(* The operators.                                                          *)

(* A weight is one of the four of the country, its region and the world.   *)
LEMMA WeightsAre ==
  /\ \A d, t : GeoWeight(d, t) \in {9, 10, 11, 13}
  /\ \A c : WeightOf(c) \in {9, 10, 11, 13}
<1>1. \A d, t : GeoWeight(d, t) \in {9, 10, 11, 13}
  BY DEF GeoWeight
<1> QED BY <1>1 DEF WeightOf

(* Scores that are measured are natural numbers.                           *)
LEMMA ScoredAreNat ==
  ASSUME NEW S \in SUBSET Chunk, NEW M \in SUBSET Nat, NEW f \in Scored(S, M)
  PROVE  f \in [Chunk -> Nat]
<1>1. PICK m \in [S -> M] : f = [c \in Chunk |-> IF c \in S THEN m[c] ELSE 0]
  BY DEF Scored
<1>2. \A c \in S : m[c] \in Nat
  BY <1>1
<1> QED BY <1>1, <1>2

(* A ranking repeats nothing, falls, and leaves nothing out that scores    *)
(* more than what it holds.                                                *)
LEMMA RankedIs ==
  ASSUME NEW S, NEW f, NEW n, NEW s \in Ranked(S, f, n)
  PROVE  /\ DOMAIN s = 1..Least(n, Cardinality(S))
         /\ \A i \in DOMAIN s : s[i] \in S
         /\ \A i, j \in DOMAIN s : i < j => s[i] # s[j] /\ f[s[i]] >= f[s[j]]
         /\ \A i \in DOMAIN s, y \in S :
              f[y] > f[s[i]] => \E j \in DOMAIN s : s[j] = y
BY DEF Ranked

(* What the reranker and the country both prefer weighs more.              *)
LEMMA PreferredIsHeavier ==
  ASSUME relevance \in [Chunk -> Nat],
         NEW x \in Chunk, NEW y \in Chunk, Preferred(x, y)
  PROVE  Weighted[x] \in Nat /\ Weighted[y] \in Nat /\ Weighted[x] > Weighted[y]
<1> DEFINE m == relevance[x]
           n == relevance[y]
           v == WeightOf(x)
           w == WeightOf(y)
<1>1. m \in Nat /\ n \in Nat /\ m > 0 /\ n > 0
  BY DEF Preferred
<1>2. v \in {9, 10, 11, 13} /\ w \in {9, 10, 11, 13}
  BY WeightsAre
<1>3. m >= n /\ v >= w /\ (m > n \/ v > w)
  BY DEF Preferred
<1>4. Weighted[x] = m * v /\ Weighted[y] = n * w
  BY <1>1 DEF Weighted, Reranked
<1> HIDE DEF m, n, v, w
<1>5. m * v \in Nat /\ n * w \in Nat /\ m * v > n * w
  BY <1>1, <1>2, <1>3
<1> QED BY <1>4, <1>5

(* The greatest of a finite set of scores: the least of its upper parts.   *)
LEMMA GreatestExists ==
  ASSUME NEW S, IsFiniteSet(S), S # {}, NEW f, \A c \in S : f[c] \in Nat
  PROVE  \E x \in S : \A y \in S : f[y] <= f[x]
<1> DEFINE Upper == {U \in SUBSET S : U # {} /\ \A x \in U, y \in S \ U : f[y] < f[x]}
<1>1. PICK U \in Upper : \A V \in Upper : <<V, U>> \notin StrictSubsetOrdering(S)
  <2>1. IsWellFoundedOn(StrictSubsetOrdering(S), FiniteSubsetsOf(S))
    BY FS_StrictSubsetOrderingWellFounded
  <2>2. Upper \subseteq FiniteSubsetsOf(S)
    BY FS_Subset DEF FiniteSubsetsOf
  <2>3. S \in Upper
    OBVIOUS
  <2> HIDE DEF Upper
  <2> QED BY <2>1, <2>2, <2>3, WFMin
<1>2. PICK x \in U : x \in S
  BY <1>1
<1>3. \A y \in S : f[y] <= f[x]
  <2> SUFFICES ASSUME NEW y \in S, f[y] > f[x] PROVE FALSE
    BY <1>2
  <2> DEFINE V == {z \in U : f[z] > f[x]}
  <2>1. y \in U
    BY <1>1, <1>2
  <2>2. V \in Upper
    <3>1. V \subseteq S /\ V # {}
      BY <1>1, <2>1
    <3>2. ASSUME NEW v \in V, NEW w \in S \ V PROVE f[w] < f[v]
      <4>1. CASE w \in U
        BY <1>2, <3>2, <4>1
      <4>2. CASE w \notin U
        BY <1>1, <3>2, <4>2
      <4> QED BY <4>1, <4>2
    <3> QED BY <3>1, <3>2
  <2>3. <<V, U>> \in StrictSubsetOrdering(S)
    BY <1>1, <1>2 DEF StrictSubsetOrdering
  <2> HIDE DEF V, Upper
  <2> QED BY <1>1, <2>2, <2>3
<1> QED BY <1>2, <1>3

(* Highest is one of the scores, and none is more.                         *)
LEMMA HighestIs ==
  ASSUME NEW S, IsFiniteSet(S), NEW f, \A c \in S : f[c] \in Nat
  PROVE  Highest(S, f) \in Nat /\ \A c \in S : f[c] <= Highest(S, f)
<1>1. CASE S = {}
  BY <1>1 DEF Highest
<1>2. CASE S # {}
  <2>1. PICK x \in S : \A y \in S : f[y] <= f[x]
    BY <1>2, GreatestExists
  <2>2. f[x] \in {f[c] : c \in S} /\ \A c \in S : f[x] >= f[c]
    BY <2>1
  <2>3. /\ Highest(S, f) \in {f[c] : c \in S}
        /\ \A c \in S : Highest(S, f) >= f[c]
    BY <1>2, <2>2 DEF Highest
  <2> QED BY <2>3
<1> QED BY <1>1, <1>2

(* The share of a score in the best one.                                   *)
LEMMA ShareIs ==
  ASSUME NEW a \in Nat, NEW h \in Nat \ {0}, NEW s \in Nat \ {0}, a <= h
  PROVE  /\ (a * s) \div h \in Nat
         /\ (a * s) \div h <= s
         /\ a < h => (a * s) \div h < s
         /\ a = h => (a * s) \div h = s
<1> DEFINE q == (a * s) \div h
<1>1. a * s \in Nat
  OBVIOUS
<1>2. q \in Nat /\ h * q <= a * s /\ a * s < h * (q + 1)
  BY <1>1
<1>3. a * s <= h * s /\ (a < h => a * s < h * s) /\ (a = h => a * s = h * s)
  OBVIOUS
<1> HIDE DEF q
<1>4. q <= s
  BY <1>2, <1>3
<1>5. a < h => q < s
  BY <1>2, <1>3
<1>6. a = h => q = s
  BY <1>2, <1>3
<1> QED BY <1>2, <1>4, <1>5, <1>6 DEF q

(* Parts are natural numbers, at most Scale; the best row's is Scale, the  *)
(* others' are less.                                                       *)
LEMMA PartIs ==
  ASSUME NEW rows, IsFiniteSet(rows), NEW f, \A c \in rows : f[c] \in Nat
  PROVE  /\ \A c : Part(rows, f, c) \in Nat /\ Part(rows, f, c) <= Scale
         /\ \A c \in rows : \A x : (\A y \in rows \ {c} : f[y] < f[c]) /\ x # c /\ f[c] > 0 =>
              Part(rows, f, c) = Scale /\ Part(rows, f, x) < Scale
<1> DEFINE h == Highest(rows, f)
<1>1. h \in Nat /\ \A c \in rows : f[c] <= h
  BY HighestIs
<1>2. Scale \in Nat \ {0}
  BY RetrievalAssumption
<1>3. ASSUME NEW c \in rows, h # 0
      PROVE  /\ Part(rows, f, c) = (f[c] * Scale) \div h
             /\ Part(rows, f, c) \in Nat /\ Part(rows, f, c) <= Scale
             /\ f[c] < h => Part(rows, f, c) < Scale
             /\ f[c] = h => Part(rows, f, c) = Scale
  <2>1. Part(rows, f, c) = (f[c] * Scale) \div h
    BY <1>3 DEF Part
  <2>2. f[c] \in Nat /\ h \in Nat \ {0} /\ f[c] <= h
    BY <1>1, <1>3
  <2> DEFINE a == f[c]
             p == Part(rows, f, c)
  <2>3. p = (a * Scale) \div h
    BY <2>1
  <2> HIDE DEF h, a, p
  <2>4. /\ (a * Scale) \div h \in Nat /\ (a * Scale) \div h <= Scale
        /\ a < h => (a * Scale) \div h < Scale
        /\ a = h => (a * Scale) \div h = Scale
    BY <1>2, <2>2, ShareIs DEF a
  <2>5. p \in Nat /\ p <= Scale /\ (a < h => p < Scale) /\ (a = h => p = Scale)
    BY <2>3, <2>4
  <2> QED BY <2>1, <2>5 DEF a, p
<1>4. \A c : c \notin rows \/ h = 0 => Part(rows, f, c) = 0
  BY DEF Part
<1> HIDE DEF h
<1>5. ASSUME NEW c PROVE Part(rows, f, c) \in Nat /\ Part(rows, f, c) <= Scale
  BY <1>2, <1>3, <1>4
<1>6. ASSUME NEW c \in rows, NEW x, \A y \in rows \ {c} : f[y] < f[c], x # c, f[c] > 0
      PROVE  Part(rows, f, c) = Scale /\ Part(rows, f, x) < Scale
  <2>1. h = f[c]
    <3>1. h \in {f[y] : y \in rows}
      <4>1. rows # {} /\ \E y \in rows : \A z \in rows : f[z] <= f[y]
        BY <1>6, GreatestExists
      <4>2. PICK y \in rows : \A z \in rows : f[z] <= f[y]
        BY <4>1
      <4>3. f[y] \in {f[z] : z \in rows} /\ \A z \in rows : f[y] >= f[z]
        BY <4>2
      <4> QED BY <4>1, <4>3 DEF h, Highest
    <3>2. PICK y \in rows : h = f[y]
      BY <3>1
    <3>3. f[c] <= f[y]
      BY <1>1, <3>2
    <3> QED BY <1>6, <3>2, <3>3
  <2>2. h # 0
    BY <1>6, <2>1
  <2>3. Part(rows, f, c) = Scale
    BY <1>3, <2>1, <2>2
  <2>4. CASE x \in rows
    <3>1. f[x] < h
      BY <1>6, <2>1, <2>4
    <3> QED BY <1>3, <2>2, <2>3, <2>4, <3>1
  <2>5. CASE x \notin rows
    <3>1. Part(rows, f, x) = 0
      BY <1>4, <2>5
    <3> QED BY <1>2, <2>3, <3>1
  <2> QED BY <2>3, <2>4, <2>5
<1> QED BY <1>5, <1>6

(* The first of all is among the n first.                                  *)
LEMMA LeaderIsKept ==
  ASSUME NEW S, IsFiniteSet(S), NEW f, NEW n \in Nat \ {0}, NEW T \in Tops(S, f, n),
         NEW c \in S, \A x \in S \ {c} : f[x] < f[c], \A x \in S : f[x] \in Nat
  PROVE  c \in T
<1>1. T \in SUBSET S /\ Cardinality(T) = Least(n, Cardinality(S))
  BY DEF Tops
<1>2. IsFiniteSet(T) /\ Cardinality(S) \in Nat /\ Cardinality(S) # 0
  BY <1>1, FS_Subset, FS_CardinalityType, FS_EmptySet
<1>3. Cardinality(T) # 0
  BY <1>1, <1>2 DEF Least
<1>4. PICK x \in T : TRUE
  BY <1>2, <1>3, FS_EmptySet
<1>5. c \notin T => f[x] >= f[c]
  BY <1>4 DEF Tops
<1> QED BY <1>1, <1>4, <1>5

LEMMA WithinIs ==
  Within \in SUBSET Chunk /\ IsFiniteSet(Within) /\ \A S \in SUBSET Within : IsFiniteSet(S)
<1>1. IsFiniteSet(Chunk) /\ Within \in SUBSET Chunk
  BY RetrievalAssumption DEF Within
<1>2. IsFiniteSet(Within)
  BY <1>1, FS_Subset
<1> QED BY <1>1, <1>2, FS_Subset

(* What a query returns: out of the rows of two rankings those with the    *)
(* best fused scores, and of each document the best of these.              *)
LEMMA ReturnedIs ==
  ASSUME NEW r \in Returned
  PROVE  \E byWords \in Tops(Within, words, Pool), byVector \in Tops(Within, near, Pool) :
           \E T \in Tops(byWords \cup byVector, Fused(byWords, byVector), 2 * TopK) :
             \E K \in PerDocument(T, Fused(byWords, byVector)) :
               r = [c \in K |-> Fused(byWords, byVector)[c]]
<1> DEFINE Rows(byWords, byVector) ==
             LET g == Fused(byWords, byVector)
             IN {[c \in K |-> g[c]] :
                   K \in UNION {PerDocument(T, g) :
                                  T \in Tops(byWords \cup byVector, g, 2 * TopK)}}
<1>0. r \in UNION {Rows(byWords, byVector) :
                   byWords \in Tops(Within, words, Pool),
                   byVector \in Tops(Within, near, Pool)}
  BY DEF Returned
<1>1. PICK byWords \in Tops(Within, words, Pool), byVector \in Tops(Within, near, Pool) :
        r \in Rows(byWords, byVector)
  <2> HIDE DEF Rows
  <2> QED BY <1>0
<1> DEFINE f == Fused(byWords, byVector)
<1>2. PICK K \in UNION {PerDocument(T, f) :
                          T \in Tops(byWords \cup byVector, f, 2 * TopK)} :
        r = [c \in K |-> f[c]]
  BY <1>1
<1>3. PICK T \in Tops(byWords \cup byVector, f, 2 * TopK) : K \in PerDocument(T, f)
  BY <1>2
<1> QED BY <1>2, <1>3

(* A fused score is a natural number; of a chunk that leads both rankings  *)
(* it is above all others.                                                 *)
LEMMA FusedIs ==
  ASSUME words \in [Chunk -> Nat], near \in [Chunk -> Nat],
         NEW byWords \in SUBSET Within, NEW byVector \in SUBSET Within
  PROVE  /\ \A c \in byWords \cup byVector : Fused(byWords, byVector)[c] \in Nat
         /\ \A c \in byWords \cap byVector : Leads(c) =>
              \A x \in (byWords \cup byVector) \ {c} :
                Fused(byWords, byVector)[x] < Fused(byWords, byVector)[c]
<1> DEFINE f == Fused(byWords, byVector)
           w(c) == Part(byWords, words, c)
           v(c) == Part(byVector, near, c)
<1>1. \A c \in byWords \cup byVector : f[c] = 6 * v(c) + 4 * w(c)
  BY DEF Fused
<1>2. /\ IsFiniteSet(byWords) /\ \A c \in byWords : words[c] \in Nat
      /\ IsFiniteSet(byVector) /\ \A c \in byVector : near[c] \in Nat
  BY WithinIs
<1>3. \A c : w(c) \in Nat /\ v(c) \in Nat
  BY <1>2, PartIs
<1>4. ASSUME NEW c \in byWords \cup byVector PROVE f[c] \in Nat
  <2> HIDE DEF w, v, f
  <2> QED BY <1>1, <1>3
<1>5. ASSUME NEW c \in byWords \cap byVector, Leads(c),
             NEW x \in (byWords \cup byVector) \ {c}
      PROVE  f[x] < f[c]
  <2>1. \A y \in Within \ {c} : words[y] < words[c] /\ near[y] < near[c]
    BY <1>5 DEF Leads
  <2>2. words[c] > 0 /\ near[c] > 0
    <3>1. x \in Within \ {c} /\ x \in Chunk /\ c \in Chunk
      BY <1>5, WithinIs
    <3>2. words[x] \in Nat /\ near[x] \in Nat /\ words[c] \in Nat /\ near[c] \in Nat
      BY <3>1
    <3> QED BY <2>1, <3>1, <3>2
  <2>3. w(c) = Scale /\ w(x) < Scale
    <3>1. \A y \in byWords \ {c} : words[y] < words[c]
      BY <2>1
    <3> QED BY <1>2, <1>5, <2>2, <3>1, PartIs
  <2>4. v(c) = Scale /\ v(x) < Scale
    <3>1. \A y \in byVector \ {c} : near[y] < near[c]
      BY <2>1
    <3> QED BY <1>2, <1>5, <2>2, <3>1, PartIs
  <2>5. f[c] = 6 * v(c) + 4 * w(c) /\ f[x] = 6 * v(x) + 4 * w(x)
    BY <1>1, <1>5
  <2> HIDE DEF w, v, f
  <2> QED BY <1>3, <2>3, <2>4, <2>5, RetrievalAssumption
<1> QED BY <1>4, <1>5

(* What a query returns lies in the scope, with natural scores.            *)
LEMMA ReturnedInScope ==
  ASSUME words \in [Chunk -> Nat], near \in [Chunk -> Nat], NEW r \in Returned
  PROVE  DOMAIN r \subseteq Within /\ \A c \in DOMAIN r : r[c] \in Nat
<1>1. PICK byWords \in Tops(Within, words, Pool), byVector \in Tops(Within, near, Pool) :
           \E T \in Tops(byWords \cup byVector, Fused(byWords, byVector), 2 * TopK) :
             \E K \in PerDocument(T, Fused(byWords, byVector)) :
               r = [c \in K |-> Fused(byWords, byVector)[c]]
  BY ReturnedIs
<1> DEFINE f == Fused(byWords, byVector)
<1>2. PICK T \in Tops(byWords \cup byVector, f, 2 * TopK) :
        \E K \in PerDocument(T, f) : r = [c \in K |-> f[c]]
  BY <1>1
<1>3. PICK K \in PerDocument(T, f) : r = [c \in K |-> f[c]]
  BY <1>2
<1>4. K \subseteq T
  BY <1>3 DEF PerDocument
<1>5. T \subseteq byWords \cup byVector
  BY <1>2 DEF Tops
<1>6. byWords \in SUBSET Within /\ byVector \in SUBSET Within
  BY <1>1 DEF Tops
<1>7. \A c \in byWords \cup byVector : f[c] \in Nat
  BY <1>6, FusedIs
<1>8. DOMAIN r = K /\ \A c \in K : r[c] = f[c]
  BY <1>3
<1> HIDE DEF f
<1> QED BY <1>4, <1>5, <1>6, <1>7, <1>8

(* The chunk that leads both rankings is returned, whatever is cut.        *)
LEMMA LeaderIsReturned ==
  ASSUME words \in [Chunk -> Nat], near \in [Chunk -> Nat], NEW r \in Returned,
         NEW c \in Within, Leads(c)
  PROVE  c \in DOMAIN r
<1>1. PICK byWords \in Tops(Within, words, Pool), byVector \in Tops(Within, near, Pool) :
           \E T \in Tops(byWords \cup byVector, Fused(byWords, byVector), 2 * TopK) :
             \E K \in PerDocument(T, Fused(byWords, byVector)) :
               r = [x \in K |-> Fused(byWords, byVector)[x]]
  BY ReturnedIs
<1> DEFINE f == Fused(byWords, byVector)
           S == byWords \cup byVector
<1>2. PICK T \in Tops(S, f, 2 * TopK) : \E K \in PerDocument(T, f) : r = [x \in K |-> f[x]]
  BY <1>1
<1>3. PICK K \in PerDocument(T, f) : r = [x \in K |-> f[x]]
  BY <1>2
<1>4. byWords \in SUBSET Within /\ byVector \in SUBSET Within
  BY <1>1 DEF Tops
<1>5. c \in byWords
  <2>1. IsFiniteSet(Within) /\ Pool \in Nat \ {0} /\ \A x \in Within : words[x] \in Nat
    BY WithinIs, RetrievalAssumption
  <2>2. \A x \in Within \ {c} : words[x] < words[c]
    BY DEF Leads
  <2> QED BY <1>1, <2>1, <2>2, LeaderIsKept
<1>6. c \in byVector
  <2>1. IsFiniteSet(Within) /\ Pool \in Nat \ {0} /\ \A x \in Within : near[x] \in Nat
    BY WithinIs, RetrievalAssumption
  <2>2. \A x \in Within \ {c} : near[x] < near[c]
    BY DEF Leads
  <2> QED BY <1>1, <2>1, <2>2, LeaderIsKept
<1>7. (\A x \in S : f[x] \in Nat) /\ (\A x \in S \ {c} : f[x] < f[c])
  BY <1>4, <1>5, <1>6, FusedIs
<1>8. IsFiniteSet(S) /\ S \subseteq Within /\ c \in S
  BY <1>4, <1>5, WithinIs
<1>9. TopK \in Nat \ {0} /\ 2 * TopK \in Nat \ {0}
  BY RetrievalAssumption
<1> HIDE DEF f, S
<1>10. c \in T
  BY <1>2, <1>7, <1>8, <1>9, LeaderIsKept
<1>11. T \subseteq S
  BY <1>2 DEF Tops
<1> DEFINE d == DocOf[c]
           D == {x \in T : DocOf[x] = d}
           E == {x \in K : DocOf[x] = d}
<1>12. E \in Tops(D, f, TopK)
  <2>1. d \in Doc
    BY RetrievalAssumption, WithinIs DEF ChunkRows
  <2> QED BY <1>3, <2>1 DEF PerDocument
<1>13. c \in D /\ D \subseteq S /\ IsFiniteSet(D)
  BY <1>8, <1>10, <1>11, FS_Subset
<1>14. (\A x \in D : f[x] \in Nat) /\ (\A x \in D \ {c} : f[x] < f[c])
  BY <1>7, <1>13
<1>15. c \in E
  <2> HIDE DEF D, E
  <2> QED BY <1>9, <1>12, <1>13, <1>14, LeaderIsKept
<1> QED BY <1>3, <1>15
-----------------------------------------------------------------------------
(* The invariant.                                                          *)

LEMMA InitRInv == Init => RInv
<1> SUFFICES ASSUME Init PROVE RInv
  OBVIOUS
<1>1. words \in [Chunk -> Nat] /\ near \in [Chunk -> Nat]
  BY DEF Init
<1>2. best \in [Chunk -> Nat] /\ relevance \in [Chunk -> Nat]
  BY DEF Init
<1>3. pc = "scope" /\ setting \in Setting /\ left = {} /\ found = {} /\ cites = <<>>
  BY DEF Init
<1> QED BY <1>1, <1>2, <1>3 DEF RInv, TypeOK, CiteInv

(* Every step keeps the invariant.                                         *)
LEMMA StepRInv == RInv /\ [Next]_vars => RInv'
<1> SUFFICES ASSUME RInv, [Next]_vars PROVE RInv'
  OBVIOUS
<1> USE DEF RInv, TypeOK
<1>1. CASE ReadScope
  BY <1>1 DEF ReadScope, measured, Within, CiteInv
<1>2. CASE Expand
  <2>1. left' \subseteq Query
    BY <1>2 DEF Expand, QuerySets
  <2> QED BY <1>2, <2>1 DEF Expand, measured, Within, CiteInv
<1>3. CASE Search
  <2>1. Within \in SUBSET Chunk /\ Measure \in SUBSET Nat
    BY RetrievalAssumption, WithinIs
  <2>2. words' \in [Chunk -> Nat] /\ near' \in [Chunk -> Nat]
    BY <1>3, <2>1, ScoredAreNat DEF Search
  <2>3. /\ UNCHANGED <<setting, focus, found, best, relevance, cites>>
        /\ pc' = "fuse" /\ left' \subseteq left
    BY <1>3 DEF Search
  <2> QED BY <2>2, <2>3 DEF Within, CiteInv
<1>4. CASE Fuse
  <2>1. PICK r \in Returned : /\ found' = found \cup DOMAIN r
                              /\ best' = [c \in Chunk |-> Merged(r, c)]
    BY <1>4 DEF Fuse
  <2>2. DOMAIN r \subseteq Within /\ \A c \in DOMAIN r : r[c] \in Nat
    BY <2>1, ReturnedInScope
  <2>3. \A c \in Chunk : Merged(r, c) \in Nat
    BY <2>2 DEF Merged
  <2>4. /\ UNCHANGED <<setting, focus, left, relevance, cites>> /\ pc' = "search"
        /\ words' = [c \in Chunk |-> 0] /\ near' = words'
    BY <1>4 DEF Fuse
  <2>5. Within' = Within
    BY <2>4 DEF Within
  <2>6. best' \in [Chunk -> Nat] /\ words' \in [Chunk -> Nat] /\ near' \in [Chunk -> Nat]
    BY <2>1, <2>3, <2>4
  <2> QED BY <2>1, <2>2, <2>4, <2>5, <2>6 DEF CiteInv
<1>5. CASE Rerank
  <2>1. relevance' \in Scored(found, Relevance \cup {0})
    BY <1>5 DEF Rerank
  <2>2. found \in SUBSET Chunk /\ Relevance \cup {0} \in SUBSET Nat
    BY RetrievalAssumption DEF Within
  <2>3. relevance' \in [Chunk -> Nat]
    BY <2>1, <2>2, ScoredAreNat
  <2>4. UNCHANGED <<setting, focus, left, words, near, found, best, cites>> /\ pc' = "cite"
    BY <1>5 DEF Rerank, measured
  <2> QED BY <2>3, <2>4 DEF CiteInv, Within
<1>6. CASE Cite
  <2>1. UNCHANGED <<setting, focus, left, words, near, found, best, relevance>>
    BY <1>6 DEF Cite, measured
  <2>2. cites' \in Contexts /\ pc' \in {"error", "done"}
    BY <1>6 DEF Cite
  <2>3. Contexts' = Contexts
    BY <2>1 DEF Contexts, Weighted, Reranked, WeightOf
  <2>4. \A i \in DOMAIN cites' : cites'[i] \in found'
    BY <2>1, <2>2, RankedIs DEF Contexts
  <2> QED BY <2>1, <2>2, <2>3, <2>4 DEF CiteInv, Within
<1>7. CASE Fail
  BY <1>7 DEF Fail, measured, Within, CiteInv
<1>8. CASE UNCHANGED vars
  <2>1. UNCHANGED <<pc, setting, focus, left, words, near, found, best, relevance, cites>>
    BY <1>8 DEF vars
  <2>2. Contexts' = Contexts
    BY <2>1 DEF Contexts, Weighted, Reranked, WeightOf
  <2> QED BY <2>1, <2>2 DEF CiteInv, Within
<1> QED BY <1>1, <1>2, <1>3, <1>4, <1>5, <1>6, <1>7, <1>8 DEF Next

(* Every state of a retrieval satisfies RInv.                              *)
THEOREM RetrievalInvariance == Spec => []RInv
<1>1. Init => RInv
  BY InitRInv
<1>2. RInv /\ [Next]_vars => RInv'
  BY StepRInv
<1> QED BY <1>1, <1>2, PTL DEF Spec

(* TypeOK: what is found and what is cited lies in the scope the call has  *)
(* read, whatever is measured, scored and cut.                             *)
THEOREM RetrievalTypeCorrect == Spec => []TypeOK
<1>1. RInv => TypeOK
  BY DEF RInv
<1> QED BY <1>1, RetrievalInvariance, PTL
-----------------------------------------------------------------------------
(* Where x goes that is preferred to a chunk cited in place i: further up. *)
LEMMA PreferredIsAbove ==
  ASSUME RInv, pc = "done",
         NEW i \in DOMAIN cites, NEW x \in found, Preferred(x, cites[i])
  PROVE  \E j \in DOMAIN cites : j < i /\ cites[j] = x
<1> DEFINE y == cites[i]
<1>1. cites \in Ranked(found, Weighted, TopK)
  BY DEF RInv, CiteInv, Contexts
<1>2. y \in found /\ x \in Chunk /\ y \in Chunk
  BY <1>1, RankedIs DEF RInv, TypeOK, Within
<1>3. Weighted[x] \in Nat /\ Weighted[y] \in Nat /\ Weighted[x] > Weighted[y]
  BY <1>2, PreferredIsHeavier DEF RInv, TypeOK
<1>4. PICK j \in DOMAIN cites : cites[j] = x
  BY <1>1, <1>3, RankedIs
<1>5. i \in Int /\ j \in Int
  <2>1. DOMAIN cites = 1..Least(TopK, Cardinality(found))
    BY <1>1, RankedIs
  <2> QED BY <1>4, <2>1
<1>6. ~(i < j)
  BY <1>1, <1>3, <1>4, RankedIs
<1>7. i # j
  BY <1>3, <1>4
<1> QED BY <1>4, <1>5, <1>6, <1>7

(* BestAreCited of RetrievalService.retrieve: an answer cites all the      *)
(* context has room for, each chunk once and in scope, and no chunk comes  *)
(* behind one that it is preferred to.                                     *)
THEOREM BestCited == Spec => []BestAreCited
<1>1. RInv => BestAreCited
  <2> SUFFICES ASSUME RInv, pc = "done"
               PROVE  /\ DOMAIN cites = 1..Least(TopK, Cardinality(found))
                      /\ \A i, j \in DOMAIN cites : cites[i] = cites[j] => i = j
                      /\ \A i \in DOMAIN cites : DocOf[cites[i]] \in Usable(setting)
                      /\ \A i \in DOMAIN cites, x \in found : Preferred(x, cites[i]) =>
                           \E j \in DOMAIN cites : j < i /\ cites[j] = x
    BY DEF BestAreCited
  <2>1. cites \in Ranked(found, Weighted, TopK)
    BY DEF RInv, CiteInv, Contexts
  <2>2. DOMAIN cites = 1..Least(TopK, Cardinality(found))
    BY <2>1, RankedIs
  <2>3. ASSUME NEW i \in DOMAIN cites, NEW j \in DOMAIN cites, cites[i] = cites[j]
        PROVE  i = j
    <3>1. i \in Int /\ j \in Int
      BY <2>2
    <3>2. ~(i < j) /\ ~(j < i)
      BY <2>1, <2>3, RankedIs
    <3> QED BY <3>1, <3>2
  <2>4. \A i \in DOMAIN cites : DocOf[cites[i]] \in Usable(setting)
    BY <2>1, RankedIs DEF RInv, TypeOK, Within
  <2>5. \A i \in DOMAIN cites, x \in found : Preferred(x, cites[i]) =>
          \E j \in DOMAIN cites : j < i /\ cites[j] = x
    BY PreferredIsAbove
  <2> QED BY <2>2, <2>3, <2>4, <2>5
<1> QED BY <1>1, RetrievalInvariance, PTL
-----------------------------------------------------------------------------
(* A query takes nothing back: what was found stays, with no less a score; *)
(* and it finds what leads both of its rankings.                           *)
LEMMA FuseKeeps ==
  ASSUME RInv, Fuse
  PROVE  /\ \A c \in found : c \in found' /\ best'[c] >= best[c]
         /\ \A c \in Within : Leads(c) => c \in found'
<1>1. PICK r \in Returned : /\ found' = found \cup DOMAIN r
                            /\ best' = [c \in Chunk |-> Merged(r, c)]
  BY DEF Fuse
<1>2. words \in [Chunk -> Nat] /\ near \in [Chunk -> Nat]
  BY DEF RInv, TypeOK
<1>3. DOMAIN r \subseteq Within /\ \A c \in DOMAIN r : r[c] \in Nat
  BY <1>2, ReturnedInScope
<1>4. ASSUME NEW c \in found PROVE c \in found' /\ best'[c] >= best[c]
  <2>1. c \in Chunk /\ best[c] \in Nat
    BY <1>4, WithinIs DEF RInv, TypeOK
  <2>2. best'[c] = Merged(r, c)
    BY <1>1, <2>1
  <2>3. Merged(r, c) >= best[c]
    BY <1>3, <2>1 DEF Merged
  <2> QED BY <1>1, <2>2, <2>3
<1>5. ASSUME NEW c \in Within, Leads(c) PROVE c \in found'
  <2>1. c \in DOMAIN r
    BY <1>2, <1>5, LeaderIsReturned
  <2> QED BY <1>1, <2>1
<1> QED BY <1>4, <1>5

(* BestMatchesKept of _search_queries: the chunk that leads both rankings  *)
(* of a query is returned for it, and what a query has returned is neither *)
(* lost nor scored less by searching more queries.                         *)
THEOREM BestKept == Spec => BestMatchesKept
<1> DEFINE A == /\ \A c \in found : c \in found' /\ best'[c] >= best[c]
                /\ pc = "fuse" /\ pc' = "search" =>
                     \A c \in Within : Leads(c) => c \in found'
<1>1. RInv /\ [Next]_vars => [A]_vars
  <2> SUFFICES ASSUME RInv, Next PROVE A
    BY DEF vars
  <2>1. CASE Fuse
    BY <2>1, FuseKeeps
  <2>2. ~Fuse => UNCHANGED <<found, best>> /\ ~(pc = "fuse" /\ pc' = "search")
    BY DEF Next, ReadScope, Expand, Search, Rerank, Cite, Fail
  <2>3. \A c \in found : best[c] \in Nat
    BY WithinIs DEF RInv, TypeOK
  <2> QED BY <2>1, <2>2, <2>3
<1> QED BY <1>1, RetrievalInvariance, PTL DEF Spec, BestMatchesKept
=============================================================================
