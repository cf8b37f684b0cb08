--------------------------- MODULE RelationRanking ---------------------------
(***************************************************************************)
(* How the relation diagnostic compares resolved relations                 *)
(* (internal/relationdiag/evaluate.go): structural tiers, the statistics   *)
(* of the complete graph, anchors and the ranking of edges.                *)
(*                                                                         *)
(* An occurrence is a resolved row of relations.db: its id, the parents it *)
(* leads from and to, its kind, where it stands (zone, role, file role,    *)
(* flow, identifiers around it) and its place in the source parent.        *)
(***************************************************************************)
EXTENDS Integers, Sequences, FiniteSets, TLC

CONSTANTS
    Parents,        \* a set of numbers, in the order of their ids
    ParentTokens,   \* parent -> the tokens of its symbol
    MaxDenseDepth,  \* how many dense hits a query comes with
    Tiers           \* 0..3, from declaration contract to declaration structure

RankingAssumption ==
    /\ Parents \subseteq Int
    /\ \A p \in Parents : IsFiniteSet(ParentTokens[p])
    /\ MaxDenseDepth \in Nat /\ Tiers = 0..3
ASSUME RankingAssumption

FileRoles == {"PRODUCTION", "TEST", "EXAMPLE", "BENCHMARK"}

-----------------------------------------------------------------------------
(* Lexicographic order over components that say which way they go *)

Asc(v) == [order |-> "asc", value |-> v]
Desc(v) == [order |-> "desc", value |-> v]
Ratio(n, d) == [order |-> "desc_rational", value |-> <<n, d>>]

Better(a, b) ==
    \/ a.order = "asc" /\ a.value < b.value
    \/ a.order = "desc" /\ a.value > b.value
    \/ a.order = "desc_rational" /\ a.value[1] * b.value[2] > b.value[1] * a.value[2]
Level(a, b) == ~Better(a, b) /\ ~Better(b, a)

\* The first component in which two keys differ decides; it is 0 when none does.
FirstDifference(left, right) ==
    CHOOSE i \in 0..Len(left) :
        /\ i = 0 => \A j \in 1..Len(left) : Level(left[j], right[j])
        /\ i > 0 => ~Level(left[i], right[i]) /\ \A j \in 1..(i - 1) : Level(left[j], right[j])
KeyLess(left, right) ==
    \E l \in {left}, r \in {right} :
        \E i \in 1..Len(l) : Better(l[i], r[i]) /\ \A j \in 1..(i - 1) : Level(l[j], r[j])

\* Elements of S with fewer than n others before them.
FirstOf(S, n, Less(_, _)) == {x \in S : Cardinality({y \in S : Less(y, x)}) < n}
InOrder(S, Less(_, _)) == [i \in 1..Cardinality(S) |-> CHOOSE x \in S : Cardinality({y \in S : Less(y, x)}) = i - 1]
Least(S, Less(_, _)) == CHOOSE x \in S : \A y \in S \ {x} : ~Less(y, x)

-----------------------------------------------------------------------------
(* Anchors *)

\* The place of a parent among the dense hits.
Rank(hits, p) ==
    IF \E i \in 1..Len(hits) : hits[i] = p THEN CHOOSE i \in 1..Len(hits) : hits[i] = p ELSE MaxDenseDepth + 1

AnchorKey(query, hits, p) ==
    LET matched == Cardinality(query.anchorTokens \cap ParentTokens[p])
        denominator == IF ParentTokens[p] = {} THEN 1 ELSE Cardinality(ParentTokens[p])
    IN <<Ratio(matched, denominator), Desc(matched), Asc(Rank(hits, p)), Asc(p)>>

\* The two dense hits whose symbols the query covers best.
SelectAnchorGroup(query, hits) ==
    LET before(p, q) == KeyLess(AnchorKey(query, hits, p), AnchorKey(query, hits, q))
    IN InOrder(FirstOf({hits[i] : i \in 1..Len(hits)}, 2, before), before)

AnchorOrdinal(anchors, p) == CHOOSE i \in 1..Len(anchors) : anchors[i] = p

-----------------------------------------------------------------------------
(* Edges of the complete graph *)

Kinds == {"CALLS", "MEMBER_OF", "TYPE_REF"}
Zones == {"SIGNATURE", "TYPE_BODY", "BODY", "INITIALIZER"}

\* What the schema of relations.db allows: there is no other kind or zone.
Resolved(o) ==
    /\ {o.source, o.target, o.ordinal, o.byte, o.id} \subseteq Int
    /\ o.kind \in Kinds
    /\ o.kind = "TYPE_REF" => o.zone \in Zones
ResolvedGraph(graph) ==
    /\ IsFiniteSet(graph)
    /\ \A o \in graph : Resolved(o)
    /\ \A o, p \in graph : o.id = p.id => o = p

StructuralTier(o) ==
    CASE o.kind = "TYPE_REF" /\ o.zone \in {"SIGNATURE", "TYPE_BODY"} -> 0
      [] o.kind = "CALLS" -> 1
      [] o.kind = "TYPE_REF" /\ o.zone \in {"BODY", "INITIALIZER"} -> 2
      [] o.kind = "MEMBER_OF" -> 3

\* An edge gathers the occurrences that agree on this.
Edge(o) == [source |-> o.source, target |-> o.target, kind |-> o.kind, tier |-> StructuralTier(o)]

\* The first occurrence of an edge represents it.
OccurrenceKey(o) == <<Asc(o.ordinal), Asc(o.byte), Asc(o.id)>>
LessBestOccurrence(o, p) == KeyLess(OccurrenceKey(o), OccurrenceKey(p))

Sources(S) == {o.source : o \in S}
Targets(S) == {o.target : o \in S}
FileRoleSlices(S) ==
    [r \in FileRoles |-> LET slice == {o \in S : o.fileRole = r}
                         IN [occurrences |-> Cardinality(slice), sources |-> Cardinality(Sources(slice))]]

EdgeStats(graph, e) ==
    LET tier == {o \in graph : o.source # o.target /\ o.kind = e.kind /\ StructuralTier(o) = e.tier}
        from == {o \in tier : o.source = e.source}
        into == {o \in tier : o.target = e.target}
        edge == from \cap into
    IN [edge |-> e, occurrences |-> Cardinality(edge), best |-> Least(edge, LessBestOccurrence),
        sourceOccurrences |-> Cardinality(from), sourceTargets |-> Cardinality(Targets(from)),
        targetOccurrences |-> Cardinality(into), targetSources |-> Cardinality(Sources(into)),
        slices |-> [edge |-> FileRoleSlices(edge), source |-> FileRoleSlices(from), target |-> FileRoleSlices(into)]]

\* Self relations are left out.
CompleteGraphEdgeStats(graph) ==
    [e \in {Edge(o) : o \in {x \in graph : x.source # x.target}} |-> EdgeStats(graph, e)]

TierCounts(graph) ==
    [t \in Tiers |-> LET S == {o \in graph : o.source # o.target /\ StructuralTier(o) = t}
                     IN [occurrences |-> Cardinality(S), sources |-> Cardinality(Sources(S)), slices |-> FileRoleSlices(S)]]

-----------------------------------------------------------------------------
(* Facts: occurrences seen from an anchor *)

Fact(o, seed) ==
    IF o.target = seed THEN [occurrence |-> o, direction |-> "REVERSE", anchor |-> seed, endpoint |-> o.source]
                       ELSE [occurrence |-> o, direction |-> "FORWARD", anchor |-> seed, endpoint |-> o.target]
ReachableFacts(graph, seeds) ==
    UNION {{Fact(o, seed) : o \in {x \in graph : seed \in {x.source, x.target}}} : seed \in seeds}
FactSource(f) == IF f.direction = "REVERSE" THEN f.endpoint ELSE f.anchor
FactTarget(f) == IF f.direction = "REVERSE" THEN f.anchor ELSE f.endpoint
DirectionalFacts(facts) == {f \in facts : FactSource(f) # FactTarget(f)}

KindOrder == [CALLS |-> 1, MEMBER_OF |-> 2, TYPE_REF |-> 3]   \* as strings compare
Mismatch(b) == IF b THEN 1 ELSE 0

\* Bug: occurrences in different files can be at the same place.
TupleByPlace(c, hits, policy) ==
    <<Asc(c.mismatch), Asc(c.stats.edge.tier), Ratio(c.stats.occurrences, c.stats.sourceOccurrences),
      Asc(c.ordinal), Asc(Rank(hits, c.endpoint)), Asc(c.stats.best.ordinal), Asc(c.stats.best.byte)>>

\* A candidate: an edge as one anchor sees it, ranked under a policy.
AnchorRankingTuple(c, hits, policy) ==
    LET s == c.stats
        share == Ratio(s.occurrences, s.sourceOccurrences)
        strength ==
            CASE policy = "anchor-edge-raw-frequency" -> <<Desc(s.occurrences)>>
              [] policy = "anchor-edge-source-normalized" -> <<share, Asc(s.sourceTargets)>>
              [] policy = "anchor-edge-bidirectional" ->
                    <<share, Asc(s.sourceTargets), Asc(s.targetSources), Asc(s.targetOccurrences)>>
              [] policy = "anchor-edge-incoming-popularity" ->
                    <<Desc(s.targetSources), Desc(s.targetOccurrences), Desc(s.occurrences)>>
    IN <<Asc(c.mismatch), Asc(s.edge.tier)>> \o strength
       \o <<Asc(c.ordinal), Asc(Rank(hits, c.endpoint)), Asc(s.best.ordinal), Asc(s.best.byte),
            Asc(s.edge.source), Asc(s.edge.target), Asc(KindOrder[s.edge.kind]), Asc(s.best.id)>>

Candidate(f, query, anchors, stats, hits, policy) ==
    LET c == [anchor |-> f.anchor, endpoint |-> f.endpoint, direction |-> f.direction,
              ordinal |-> AnchorOrdinal(anchors, f.anchor), mismatch |-> Mismatch(query.direction # f.direction),
              stats |-> stats[Edge(f.occurrence)], tuple |-> <<>>]
    IN [c EXCEPT !.tuple = AnchorRankingTuple(c, hits, policy)]
CandidateLess(c, d) == KeyLess(c.tuple, d.tuple)

\* Facts of one edge seen the same way are one candidate.
Candidates(facts, query, anchors, stats, hits, policy) ==
    {Candidate(f, query, anchors, stats, hits, policy) : f \in DirectionalFacts(facts)}

\* What distinguishes a candidate from the first one must have a name.
ValidateAnchorRanking(candidates) ==
    \E first \in {Least(candidates, CandidateLess)} :
        \A d \in candidates \ {first} : FirstDifference(first.tuple, d.tuple) # 0
=============================================================================
