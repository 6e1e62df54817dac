----------------------------- MODULE Retrieval -----------------------------
(***************************************************************************)
(* One call of RetrievalService.retrieve in agent-api, from the scope of a *)
(* conversation to the citations of an answer: the question is expanded by *)
(* a language model, each query is searched twice (words, vectors) and the *)
(* two rankings fused, the results of all queries are merged, scored again *)
(* by a reranker, weighted by country and cut.                             *)
(*                                                                         *)
(* What the database and the models measure is their choice.  Scores are   *)
(* natural numbers: a fused score of Unit is the code's 1.0.  The order of *)
(* chunks of one score is left open.                                       *)
(***************************************************************************)
EXTENDS Naturals, FiniteSets

CONSTANTS
  Query,       (* the question, its HyDE text and its rewritten forms      *)
  Asked,       (* the question                                             *)
  Doc,         (* documents                                                *)
  Chunk,       (* their text chunks                                        *)
  DocOf,       (* the document of each chunk                               *)
  Old,         (* documents published before 2000                          *)
  CountryOf,   (* the country or region code of each document, or None     *)
  RegionOf,    (* REGION_BY_COUNTRY_ALPHA3                                 *)
  None,        (* a missing code                                           *)
  Setting,     (* the scope and the hints a call may find                  *)
  Measure,     (* what a ranking may score                                 *)
  Scale,       (* what the best score of a ranking is scaled to            *)
  Relevance,   (* what the reranker may score                              *)
  MaxQueries,  (* queries searched at most                                 *)
  Pool,        (* rows of one ranking: max(top_k * 3, 10)                  *)
  TopK

Unit == 10 * Scale

(* A row of chunks belongs to the document it refers to.                   *)
ChunkRows == [Chunk -> Doc]

ASSUME RetrievalAssumption ==
  /\ Asked \in Query
  /\ IsFiniteSet(Chunk)
  /\ DocOf \in ChunkRows
  /\ Measure \subseteq Nat /\ Relevance \subseteq Nat
  /\ Scale \in Nat \ {0}
  /\ {MaxQueries, Pool, TopK} \subseteq Nat \ {0}
  /\ \A s \in Setting : s.active \subseteq s.attached /\ s.attached \subseteq Doc

VARIABLES
  pc,         (* where the call is                                         *)
  setting,    (* what it found                                             *)
  focus,      (* the country the answer is about                           *)
  left,       (* queries still to be searched                              *)
  words,      (* ts_rank_cd of each chunk for the query at hand            *)
  near,       (* its cosine similarity                                     *)
  found,      (* chunks returned for the queries searched                  *)
  best,       (* the best fused score of each                              *)
  relevance,  (* what the reranker made of each                            *)
  cites       (* the citations, [c1] first                                 *)

measured == <<words, near>>
vars == <<pc, setting, focus, left, words, near, found, best, relevance, cites>>
-----------------------------------------------------------------------------
(* Orders.                                                                 *)

Least(m, n) == IF m < n THEN m ELSE n

(* The n first of S, by falling f.                                         *)
Tops(S, f, n) ==
  {T \in SUBSET S :
     /\ Cardinality(T) = Least(n, Cardinality(S))
     /\ \A x \in T, y \in S \ T : f[x] >= f[y]}

(* The same as a sequence.                                                 *)
Ranked(S, f, n) ==
  {s \in [1..Least(n, Cardinality(S)) -> S] :
     /\ \A i, j \in DOMAIN s : i < j => s[i] # s[j] /\ f[s[i]] >= f[s[j]]
     /\ \A i \in DOMAIN s, y \in S : f[y] > f[s[i]] => \E j \in DOMAIN s : s[j] = y}

(* What may be made of the chunks of S, and of no other.                   *)
Scored(S, scores) ==
  {[c \in Chunk |-> IF c \in S THEN m[c] ELSE 0] : m \in [S -> scores]}
-----------------------------------------------------------------------------
(* The scope.                                                              *)

(* _resolve_retrieval_profile: by name, or by a flag of its own.           *)
CountryProfile(s) ==
  \/ s.profile \in {"country_profile", "report_profile", "report"}
  \/ s.flag

(* The active documents; for a country profile without the old ones, while *)
(* one without a year stays.                                               *)
Usable(s) == IF CountryProfile(s) THEN s.active \ Old ELSE s.active

(* The codes most documents attached to the conversation have.             *)
MostCommon(A) ==
  LET codes == {CountryOf[d] : d \in A} \ {None}
      count(c) == Cardinality({d \in A : CountryOf[d] = c})
  IN IF codes = {} THEN {None}
     ELSE {c \in codes : \A x \in codes : count(c) >= count(x)}

(* _resolve_target_country_hint: the hint goes before the constraint.      *)
Hinted(s) == IF s.hint # None THEN s.hint ELSE s.constraint

(* _resolve_target_country: what was asked for, else the conversation's    *)
(* country, else its documents'.                                           *)
Targets(s) ==
  CASE Hinted(s) # None -> {Hinted(s)}
    [] Hinted(s) = None /\ s.country # None -> {s.country}
    [] OTHER -> MostCommon(s.attached)

Within == {c \in Chunk : DocOf[c] \in Usable(setting)}

Region(code) == IF code \in DOMAIN RegionOf THEN RegionOf[code] ELSE None

(* _build_geo_weight_map, in tenths: the country, its region, the world.   *)
GeoWeight(d, target) ==
  LET codes == {CountryOf[d], Region(CountryOf[d])}
      regional == Region(target) # None /\ Region(target) \in codes
      worldwide == "GLO" \in codes
  IN CASE CountryOf[d] = target -> 13
       [] CountryOf[d] # target /\ regional -> 11
       [] CountryOf[d] # target /\ ~regional /\ worldwide -> 9
       [] OTHER -> 10

WeightOf(c) ==
  IF CountryProfile(setting) /\ focus # None THEN GeoWeight(DocOf[c], focus)
  ELSE 10
-----------------------------------------------------------------------------
(* One query.                                                              *)

Highest(S, f) == IF S = {} THEN 0 ELSE CHOOSE n \in {f[c] : c \in S} : \A c \in S : n >= f[c]

(* The share of the best score of a ranking; nothing outside its rows.     *)
Part(rows, f, c) ==
  IF c \in rows /\ Highest(rows, f) # 0
    THEN (f[c] * Scale) \div Highest(rows, f) ELSE 0

(* hybrid_weight = 0.6.                                                    *)
Fused(byWords, byVector) ==
  [c \in byWords \cup byVector |->
     6 * Part(byVector, near, c) + 4 * Part(byWords, words, c)]

(* What hybrid_chunk_search may return, with its scores: twice top_k chunks*)
(* of the two rankings, and top_k of one document.                         *)
PerDocument(T, f) ==
  {K \in SUBSET T : \A d \in Doc :
     {c \in K : DocOf[c] = d} \in Tops({c \in T : DocOf[c] = d}, f, TopK)}

Returned ==
  UNION {LET f == Fused(byWords, byVector)
         IN {[c \in K |-> f[c]] :
               K \in UNION {PerDocument(T, f) :
                              T \in Tops(byWords \cup byVector, f, 2 * TopK)}} :
         byWords \in Tops(Within, words, Pool), byVector \in Tops(Within, near, Pool)}

(* Fault: the score of the last query that returned a chunk stands.        *)
LastScore(r, c) == IF c \in DOMAIN r THEN r[c] ELSE best[c]
(* A chunk is kept once, with its best score.                              *)
Merged(r, c) == IF c \in DOMAIN r /\ r[c] > best[c] THEN r[c] ELSE best[c]
-----------------------------------------------------------------------------
Init ==
  /\ pc = "scope"
  /\ setting \in Setting
  /\ focus = None
  /\ left = {}
  /\ words = [c \in Chunk |-> 0] /\ near = words
  /\ found = {}
  /\ best = [c \in Chunk |-> 0]
  /\ relevance = [c \in Chunk |-> 0]
  /\ cites = <<>>

(* ATTACHMENTS_REQUIRED, DOCUMENTS_INACTIVE or NO_RESULTS when nothing is  *)
(* left to search.                                                         *)
ReadScope ==
  /\ pc = "scope"
  /\ pc' = IF Usable(setting) = {} THEN "error" ELSE "expand"
  /\ focus' \in Targets(setting)
  /\ UNCHANGED <<setting, left, measured, found, best, relevance, cites>>

(* A HyDE text or rewritten forms that cannot be had are done without.     *)
QuerySets == {Q \in SUBSET Query : Asked \in Q /\ Cardinality(Q) <= MaxQueries}

(* _build_query_set, and the embeddings of what it returns.                *)
Expand ==
  /\ pc = "expand"
  /\ left' \in QuerySets
  /\ pc' = "search"
  /\ UNCHANGED <<setting, focus, measured, found, best, relevance, cites>>

(* The two statements of a query, the question itself first.               *)
Search ==
  /\ pc = "search" /\ left # {}
  /\ \E q \in left : (q = Asked \/ Asked \notin left) /\ left' = left \ {q}
  /\ words' \in Scored(Within, Measure) /\ near' \in Scored(Within, Measure)
  /\ pc' = "fuse"
  /\ UNCHANGED <<setting, focus, found, best, relevance, cites>>

Fuse ==
  /\ pc = "fuse"
  /\ \E r \in Returned :
       /\ found' = found \cup DOMAIN r
       /\ best' = [c \in Chunk |-> Merged(r, c)]
  /\ words' = [c \in Chunk |-> 0] /\ near' = words'
  /\ pc' = "search"
  /\ UNCHANGED <<setting, focus, left, relevance, cites>>

(* VoyageRerankClient: a chunk the answer leaves out is scored 0.          *)
Rerank ==
  /\ pc = "search" /\ left = {}
  /\ relevance' \in Scored(found, Relevance \cup {0})
  /\ pc' = "cite"
  /\ UNCHANGED <<setting, focus, left, measured, found, best, cites>>

(* score or chunk.score: a chunk scored 0 keeps its fused score.           *)
Reranked == [c \in Chunk |-> IF relevance[c] # 0 THEN relevance[c] ELSE best[c]]

Weighted == [c \in Chunk |-> Reranked[c] * WeightOf(c)]

(* Fault: the context is cut before it is weighted.                        *)
CutFirst ==
  UNION {Ranked({s[i] : i \in DOMAIN s}, Weighted, TopK) :
           s \in Ranked(found, Reranked, TopK)}
(* The context: sorted by what the weights make of the scores, then cut.   *)
Contexts == Ranked(found, Weighted, TopK)

Cite ==
  /\ pc = "cite"
  /\ cites' \in Contexts
  /\ pc' = IF found = {} THEN "error" ELSE "done"
  /\ UNCHANGED <<setting, focus, left, measured, found, best, relevance>>

(* A statement, the embedding or the reranker fails: the tool does.        *)
Fail ==
  /\ pc \notin {"error", "done"}
  /\ pc' = "error"
  /\ UNCHANGED <<setting, focus, left, measured, found, best, relevance, cites>>

Next == ReadScope \/ Expand \/ Search \/ Fuse \/ Rerank \/ Cite \/ Fail

Spec == Init /\ [][Next]_vars
-----------------------------------------------------------------------------
TypeOK ==
  /\ pc \in {"scope", "expand", "search", "fuse", "cite", "done", "error"}
  /\ setting \in Setting
  /\ left \subseteq Query
  /\ words \in [Chunk -> Nat] /\ near \in [Chunk -> Nat]
  /\ found \subseteq Within
  /\ best \in [Chunk -> Nat]
  /\ relevance \in [Chunk -> Nat]
  /\ \A i \in DOMAIN cites : cites[i] \in found

(* The reranker and the country both speak for x rather than y: neither    *)
(* score is 0, none of x's is less, and one is more.                       *)
Preferred(x, y) ==
  /\ relevance[y] > 0
  /\ relevance[x] >= relevance[y] /\ WeightOf(x) >= WeightOf(y)
  /\ relevance[x] > relevance[y] \/ WeightOf(x) > WeightOf(y)

(* An answer cites all of the context there is room for, each chunk once,  *)
(* out of documents in scope; and no chunk that was found, for whichever   *)
(* query, is left out or put behind one it is preferred to.                *)
BestAreCited ==
  pc = "done" =>
    /\ DOMAIN cites = 1..Least(TopK, Cardinality(found))
    /\ \A i, j \in DOMAIN cites : cites[i] = cites[j] => i = j
    /\ \A i \in DOMAIN cites : DocOf[cites[i]] \in Usable(setting)
    /\ \A i \in DOMAIN cites, x \in found : Preferred(x, cites[i]) =>
         \E j \in DOMAIN cites : j < i /\ cites[j] = x

(* A chunk no other chunk in scope equals, by words or by similarity.      *)
Leads(c) == \A x \in Within \ {c} : words[x] < words[c] /\ near[x] < near[c]

(* The chunk that leads both rankings of a query is returned for it,       *)
(* whatever the limits cut; and what a query has returned, the user's own  *)
(* first of all, is neither lost nor scored less by searching more queries.*)
BestMatchesKept ==
  [][/\ \A c \in found : c \in found' /\ best'[c] >= best[c]
     /\ pc = "fuse" /\ pc' = "search" =>
          \A c \in Within : Leads(c) => c \in found']_vars
============================================================================
