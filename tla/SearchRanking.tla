--------------------------- MODULE SearchRanking ---------------------------
(***************************************************************************)
(* What a search answers from the one snapshot it ranks: the candidates of *)
(* the symbol, path and descriptive lanes (internal/store/hybrid_snapshot  *)
(* .go), their fusion (lexical/rank.go), the best segment of every chunk   *)
(* (vector_scan.go), the fusion of both (rrf.go) and the bodies that fit   *)
(* the caller's budget (inline_body.go).  A development session over the   *)
(* same snapshot (evaluation.go) compares the lanes.                       *)
(*                                                                         *)
(* A chunk is [id, path, start, symbol, qualified, words, size, segments]; *)
(* paths and names are numbered in their order.  BM25 and the similarity   *)
(* of a vector are numbers the caller's snapshot comes with.               *)
(***************************************************************************)
EXTENDS SearchQuery

CONSTANTS
  SearchChunks,   \* the chunks of the index
  PathEvidence,   \* path -> raw anchor -> evidence of a match: subset of {1, 2, 3}
  Snapshots,      \* [bm25 : id -> Nat, vectors : input -> score, 0 for none, orphan]
  Requests,       \* [query, mode, k, budget]
  CandidateK, ReturnK, RRFK,
  DefaultMode

(* Ids identify, and a chunk and a segment are not empty: validateChunk    *)
(* and vectorSnapshot refuse others.  A qualified name begins with its     *)
(* package or module, so an anchor answers one row of a chunk.             *)
ChunkAssumption(c) ==
  /\ {c.id, c.path, c.start, c.qualified.at} \subseteq Nat /\ c.size \in Nat \ {0}
  /\ c.symbol.norm # c.qualified.norm
  /\ IsFiniteSet(c.segments)
  /\ \A g \in c.segments : {g.id, g.from, g.to} \subseteq Nat /\ g.from < g.to
  /\ \A g, h \in c.segments : g.id = h.id => g = h

ASSUME SearchRankingAssumption ==
  /\ IsFiniteSet(SearchChunks)
  /\ \A c \in SearchChunks : ChunkAssumption(c)
  /\ \A c, d \in SearchChunks : c.id = d.id => c = d
  /\ \A s \in Snapshots, c \in SearchChunks :
       s.bm25[c.id] \in Nat /\ \A g \in c.segments : s.vectors[g.input] \in Nat
  /\ \A r \in Requests : r.k \in Nat /\ r.budget \in Int /\ r.query.fragments \in Seq(ToSet(r.query.fragments))
  /\ CandidateK \in Nat \ {0} /\ RRFK \in Nat \ {0} /\ ReturnK \in 1..CandidateK
  /\ DefaultMode \in {"fts", "hybrid"}

VARIABLES
  phase,      \* of the search
  request,
  snapshot,   \* what the read transaction of the search sees
  lanes,      \* [descriptive, symbol, path] as loaded, then lexical and vector
  ranked,
  response

rankingVars == <<phase, request, snapshot, lanes, ranked, response>>

\* The elements of S by their keys; keys are sequences of numbers, and the
\* first difference decides.
Lower(a, b) == \E i \in DOMAIN a : a[i] < b[i] /\ \A j \in 1..(i - 1) : a[j] = b[j]
Ordered(S, key) ==
  [i \in 1..Cardinality(S) |-> CHOOSE x \in S : Cardinality({y \in S : Lower(key[y], key[x])}) = i - 1]
UpTo(n, s) == SubSeq(s, 1, IF Len(s) < n THEN Len(s) ELSE n)
Chunk(id) == CHOOSE c \in SearchChunks : c.id = id

-----------------------------------------------------------------------------
(* The lanes *)

NoLanes == [descriptive |-> <<>>, symbol |-> <<>>, path |-> <<>>, lexical |-> <<>>, vector |-> <<>>]

\* loadFTSCandidates: the tokens are joined with OR.
Matched(c, plan) == {t \in ToSet(plan.selected) : t \in c.words}
DescriptiveLane(plan, s) ==
  LET found == {c \in SearchChunks : Matched(c, plan) # {}}
      exact(c) == plan.exact # <<>> /\ c.qualified.norm = plan.exact
      key == [c \in found |-> <<-s.bm25[c.id], IF exact(c) THEN 0 ELSE 1, c.path, c.qualified.at, c.id>>]
      inOrder == UpTo(CandidateK, Ordered(found, key))
  IN [i \in DOMAIN inOrder |-> [id |-> inOrder[i].id, terms |-> Cardinality(Matched(inOrder[i], plan))]]

\* An FTS row without its chunk fails the search.
IndexCorrupt(s) == s.orphan

\* The tier of the row of symbols that answers the anchor, 0 for none.
SymbolTier(c, a) ==
  IF a.raw = c.qualified.raw THEN 1 ELSE IF a.raw = c.symbol.raw THEN 2
  ELSE IF a.norm = c.qualified.norm THEN 3 ELSE IF a.norm = c.symbol.norm THEN 4 ELSE 0

PathTier(c, a) ==
  LET evidence == PathEvidence[c.path][a.raw]
  IN IF 1 \in evidence THEN 1 ELSE IF 2 \in evidence THEN 2 ELSE IF 3 \in evidence THEN 3 ELSE 0

\* For every anchor, the keys of the rows; they begin with the tier.  The query
\* orders the rows of files by start before name, and the lane by name before start.
SymbolRows(anchors) ==
  [i \in DOMAIN anchors |-> [c \in SearchChunks |-> <<SymbolTier(c, anchors[i]), c.path, c.qualified.at, c.start, c.id>>]]
PathRows(anchors) ==
  [i \in DOMAIN anchors |-> [c \in SearchChunks |-> <<PathTier(c, anchors[i]), c.path, c.start, c.qualified.at, c.id>>]]

\* The first CandidateK rows that answer an anchor.
AnchorRows(anchors, key, i) ==
  LET found == {c \in SearchChunks : key[i][c][1] > 0}
  IN {[id |-> c.id, tier |-> key[i][c][1], place |-> i, anchor |-> anchors[i].norm] :
        c \in ToSet(UpTo(CandidateK, Ordered(found, key[i])))}

CandidateKey(x) ==
  <<x.tier, x.place, Chunk(x.id).path, Chunk(x.id).qualified.at, Chunk(x.id).start, x.id>>

\* A bug this project can tell: the first anchor that finds a chunk decides.
FirstAnchor(rows, x) == \A y \in rows : y.id = x.id => x.place <= y.place
BestRow(rows, x) == \A y \in rows : y.id = x.id => y = x \/ Lower(CandidateKey(x), CandidateKey(y))

AnchorLane(anchors, key) ==
  LET rows == UNION {AnchorRows(anchors, key, i) : i \in DOMAIN anchors}
      best == {x \in rows : BestRow(rows, x)}
  IN UpTo(CandidateK, Ordered(best, [x \in best |-> CandidateKey(x)]))

SymbolLane(plan) == AnchorLane(plan.symbols, SymbolRows(plan.symbols))
PathLane(plan) == AnchorLane(plan.paths, PathRows(plan.paths))

-----------------------------------------------------------------------------
(* Reciprocal rank fusion; a missing rank is 0, scores are exact *)

Scale ==
  LET product[n \in 0..Cardinality(SearchChunks)] == IF n = 0 THEN 1 ELSE product[n - 1] * (RRFK + n)
  IN product[Cardinality(SearchChunks)]
Reciprocal(rank) == IF rank = 0 THEN 0 ELSE Scale \div (RRFK + rank)
\* No list is longer than CandidateK.
RankTie(rank) == IF rank = 0 THEN CandidateK + 1 ELSE rank
Place(s, id) == IF \E i \in DOMAIN s : s[i].id = id THEN CHOOSE i \in DOMAIN s : s[i].id = id ELSE 0
Ids(s) == {s[i].id : i \in DOMAIN s}

\* A bug this project can tell: the score of the last lane replaces the others.
LastLaneScore(c) == IF c.pathRank > 0 THEN Reciprocal(c.pathRank)
                    ELSE IF c.symbolRank > 0 THEN Reciprocal(c.symbolRank) ELSE Reciprocal(c.descriptiveRank)
LexicalScore(c) == Reciprocal(c.descriptiveRank) + Reciprocal(c.symbolRank) + Reciprocal(c.pathRank)

FuseLanes(l) ==
  LET found == {[id |-> id, descriptiveRank |-> Place(l.descriptive, id), symbolRank |-> Place(l.symbol, id),
                 pathRank |-> Place(l.path, id)] : id \in Ids(l.descriptive) \cup Ids(l.symbol) \cup Ids(l.path)}
      key == [c \in found |-> <<-LexicalScore(c), RankTie(c.symbolRank), RankTie(c.pathRank), RankTie(c.descriptiveRank),
                                Chunk(c.id).path, Chunk(c.id).qualified.at, c.id>>]
  IN UpTo(CandidateK, Ordered(found, key))

\* collapseVectorScores: the best segment that has a vector stands for its chunk.
VectorKey(v) == <<-v.score, Chunk(v.id).path, Chunk(v.id).start, v.id, v.segment.id>>
CollapseVectors(s) ==
  LET scored == UNION {{[id |-> c.id, segment |-> g, score |-> s.vectors[g.input]] : g \in c.segments} : c \in SearchChunks}
      usable == {v \in scored : v.score > 0}
      best == {v \in usable : \A w \in usable : w.id = v.id => w = v \/ Lower(VectorKey(v), VectorKey(w))}
  IN UpTo(CandidateK, Ordered(best, [v \in best |-> VectorKey(v)]))

\* What both lists say of every chunk of either.
Both(lexical, vector) ==
  {[id |-> id, lexicalRank |-> Place(lexical, id), vectorRank |-> Place(vector, id),
    segment |-> IF Place(vector, id) = 0 THEN {} ELSE {vector[Place(vector, id)].segment}] :
     id \in Ids(lexical) \cup Ids(vector)}

Fuse(lexical, vector, limit) ==
  LET all == Both(lexical, vector)
      key == [x \in all |-> <<-(Reciprocal(x.lexicalRank) + Reciprocal(x.vectorRank)),
                              RankTie(x.lexicalRank), RankTie(x.vectorRank),
                              Chunk(x.id).path, Chunk(x.id).start, x.id>>]
  IN UpTo(limit, Ordered(all, key))

BestPlace(x) == IF RankTie(x.vectorRank) < RankTie(x.lexicalRank) THEN RankTie(x.vectorRank) ELSE RankTie(x.lexicalRank)

ProviderUnion(lexical, vector, limit) ==
  LET all == Both(lexical, vector)
      key == [x \in all |-> <<BestPlace(x), RankTie(x.lexicalRank), RankTie(x.vectorRank),
                              Chunk(x.id).path, Chunk(x.id).start, x.id>>]
  IN UpTo(limit, Ordered(all, key))

-----------------------------------------------------------------------------
(* Bodies *)

Parent(bytes) == [of |-> "parent", bytes |-> bytes]
Segment(bytes) == [of |-> "segment", bytes |-> bytes]
Omitted(reason) == [of |-> reason, bytes |-> 0]
SegmentBytes(x) == LET g == CHOOSE g \in x.segment : TRUE IN g.to - g.from

SelectBody(x, remaining) ==
  IF Chunk(x.id).size <= remaining THEN Parent(Chunk(x.id).size)
  ELSE IF x.segment = {} THEN Omitted("NO_FITTING_INDEXED_BODY")
  ELSE IF SegmentBytes(x) > remaining THEN Omitted("INLINE_BUDGET_EXCEEDED")
  ELSE Segment(SegmentBytes(x))

\* A bug this project can tell: every hit is given the budget of the whole answer.
BudgetEach(hits, budget) ==
  [i \in DOMAIN hits |-> SelectBody(hits[i], budget)]
Bodies(hits, budget) ==
  LET left[i \in 0..Len(hits)] == IF i = 0 THEN budget ELSE left[i - 1] - SelectBody(hits[i], left[i - 1]).bytes
  IN [i \in DOMAIN hits |-> SelectBody(hits[i], left[i - 1])]
Spent(bodies) ==
  LET spent[i \in 0..Len(bodies)] == IF i = 0 THEN 0 ELSE spent[i - 1] + bodies[i].bytes
  IN spent[Len(bodies)]

ScoreSource(x) == IF x.lexicalRank > 0 /\ x.vectorRank > 0 THEN "both"
                  ELSE IF x.vectorRank > 0 THEN "vector" ELSE "fts"

PackageBodies(hits, bodies) ==
  [i \in DOMAIN hits |-> [id |-> hits[i].id, source |-> ScoreSource(hits[i]), body |-> bodies[i]]]

-----------------------------------------------------------------------------
(* One search *)

NoResponse == [error |-> "", hits |-> <<>>, used |-> 0, limited |-> FALSE,
               shape |-> "", anchors |-> <<>>]
Refused(why) == [NoResponse EXCEPT !.error = why]

RankingInit ==
  /\ phase = "idle"
  /\ request \in Requests /\ snapshot \in Snapshots
  /\ lanes = NoLanes /\ ranked = <<>> /\ response = NoResponse

\* validateRequest
Mode(r) == IF r.mode = "" THEN DefaultMode ELSE r.mode
Limit(r) == IF r.k = 0 THEN ReturnK ELSE r.k
RequestError(r) ==
  IF Mode(r) \notin {"fts", "hybrid"} THEN "invalid search mode"
  ELSE IF r.k > CandidateK THEN "invalid result limit"
  ELSE IF r.budget < 0 THEN "invalid body budget" ELSE QueryError(r.query)

Refuse ==
  /\ phase = "idle" /\ RequestError(request) # ""
  /\ response' = Refused(RequestError(request))
  /\ phase' = "done"
  /\ UNCHANGED <<request, snapshot, lanes, ranked>>

\* LexicalSearchSnapshot, or HybridSearchSnapshot, and the fusion of the lanes.
LoadSnapshot ==
  /\ phase = "idle" /\ RequestError(request) = ""
  /\ LET plan == BuildQuery(request.query)
         loaded == [NoLanes EXCEPT !.descriptive = DescriptiveLane(plan, snapshot),
                                   !.symbol = SymbolLane(plan), !.path = PathLane(plan)]
     IN IF IndexCorrupt(snapshot)
        THEN response' = Refused("index corrupt") /\ phase' = "done" /\ UNCHANGED lanes
        ELSE /\ lanes' = [loaded EXCEPT !.lexical = FuseLanes(loaded), !.vector = CollapseVectors(snapshot)]
             /\ phase' = "loaded" /\ UNCHANGED response
  /\ UNCHANGED <<request, snapshot, ranked>>

\* Without a vector the answer falls back to the lexical list.
VectorsUsed(r) == IF Mode(r) = "hybrid" THEN lanes.vector ELSE <<>>

Rank ==
  /\ phase = "loaded"
  /\ ranked' = Fuse(lanes.lexical, VectorsUsed(request), Limit(request))
  /\ phase' = "ranked"
  /\ UNCHANGED <<request, snapshot, lanes, response>>

Package ==
  /\ phase = "ranked"
  /\ LET plan == BuildQuery(request.query)
         bodies == Bodies(ranked, request.budget)
     IN response' = [error |-> "", hits |-> PackageBodies(ranked, bodies), used |-> Spent(bodies),
                     limited |-> \E i \in DOMAIN bodies : bodies[i].of # "parent",
                     shape |-> EffectiveShape(plan, Len(lanes.symbol) + Len(lanes.path)),
                     anchors |-> EffectiveAnchors(plan, lanes.symbol)]
  /\ phase' = "done"
  /\ UNCHANGED <<request, snapshot, lanes, ranked>>

\* StartEvaluationSession asks for every vector, and refuses otherwise.
FullCoverage(s) == \A c \in SearchChunks : \A g \in c.segments : s.vectors[g.input] > 0

Evaluate ==
  /\ phase = "loaded" /\ Mode(request) = "hybrid"
  /\ IF FullCoverage(snapshot)
     THEN ranked' = ProviderUnion(lanes.lexical, lanes.vector, Limit(request)) /\ phase' = "evaluated" /\ UNCHANGED response
     ELSE response' = Refused("MATERIALIZATION_REQUIRED") /\ phase' = "done" /\ UNCHANGED ranked
  /\ UNCHANGED <<request, snapshot, lanes>>

(* The same search, asked again.                                           *)
AskAgain ==
  /\ phase \in {"done", "evaluated"}
  /\ phase' = "idle"
  /\ lanes' = NoLanes /\ ranked' = <<>> /\ response' = NoResponse
  /\ UNCHANGED <<request, snapshot>>

RankingNext == Refuse \/ LoadSnapshot \/ Rank \/ Package \/ Evaluate \/ AskAgain
RankingSpec == RankingInit /\ [][RankingNext]_rankingVars

-----------------------------------------------------------------------------
(***************************************************************************)
(* A chunk that no list places behind another and one list places before   *)
(* it comes first in the answer, and is in it when the other is: neither   *)
(* fusion, nor a cut between the two, turns an agreement of all lanes      *)
(* around.                                                                 *)
(***************************************************************************)
Places(id) == <<RankTie(Place(lanes.symbol, id)), RankTie(Place(lanes.path, id)),
                RankTie(Place(lanes.descriptive, id)), RankTie(Place(VectorsUsed(request), id))>>
NowhereBehind(x, y) == \A l \in 1..4 : Places(x)[l] <= Places(y)[l]

AgreementKept ==
  phase = "ranked" =>
    \A y \in Ids(ranked), x \in {c.id : c \in SearchChunks} :
      NowhereBehind(x, y) /\ Places(x) # Places(y) =>
        Place(ranked, x) \in 1..(Place(ranked, y) - 1)

(***************************************************************************)
(* The limits of the single queries lose no better match: a candidate has  *)
(* the best tier any anchor gives its chunk, and a chunk that is left out  *)
(* has no better tier than one that is in the lane.                        *)
(***************************************************************************)
BestTier(c, key) ==
  LET tiers == {key[i][c][1] : i \in DOMAIN key} \ {0}
  IN IF tiers = {} THEN 0 ELSE CHOOSE t \in tiers : \A u \in tiers : t <= u
KeepsTheBest(lane, key) ==
  /\ \A i \in DOMAIN lane : lane[i].tier = BestTier(Chunk(lane[i].id), key)
  /\ \A c \in SearchChunks : c.id \notin Ids(lane) /\ BestTier(c, key) > 0 =>
       Len(lane) = CandidateK /\ \A i \in DOMAIN lane : lane[i].tier <= BestTier(c, key)

LanesKeepTheBest ==
  phase = "loaded" =>
    LET plan == BuildQuery(request.query)
    IN /\ KeepsTheBest(lanes.symbol, SymbolRows(plan.symbols))
       /\ KeepsTheBest(lanes.path, PathRows(plan.paths))

(***************************************************************************)
(* The bodies of an answer keep to the budget together, and nothing that   *)
(* was left out of it would still fit in what is left.  The budget decides *)
(* nothing else: the hits are those ranked.                                *)
(***************************************************************************)
BudgetKeptAndUsed ==
  phase = "done" /\ response.error = "" =>
    /\ response.used <= request.budget
    /\ Len(response.hits) = Len(ranked)
    /\ \A i \in DOMAIN ranked :
         LET left == request.budget - response.used
             body == response.hits[i].body
         IN /\ response.hits[i].id = ranked[i].id
            /\ body.of # "parent" => response.limited /\ Chunk(ranked[i].id).size > left
            /\ body.bytes = 0 /\ ranked[i].segment # {} => SegmentBytes(ranked[i]) > left

=============================================================================
