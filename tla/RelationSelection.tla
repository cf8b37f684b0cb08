-------------------------- MODULE RelationSelection --------------------------
(***************************************************************************)
(* Evaluate of the relation diagnostics for one query                      *)
(* (internal/relationdiag/evaluate.go): anchors, the facts reachable in    *)
(* one hop, the selection policies, the bodies that are attached, and then *)
(* - only then - the labels.                                               *)
(***************************************************************************)
EXTENDS RelationRanking, SequencesExt

CONSTANTS
    Graphs,             \* the resolved occurrences of a graph
    Queries,            \* [direction, tokens, anchorTokens, roles, intents]
    Rankings,           \* dense hits of a query: MaxDenseDepth parents
    Lanes,              \* the hits of the two lexical lanes
    Policies,
    Labels,             \* [groups, hard, grades] of a query
    Traits,             \* parent -> [path, deprecated, bytes]
    ProtectedPrimaryK, RelatedParentLimit, RelatedBodyLimit,
    FrontierBucketLimit, FrontierGlobalLimit,
    None

SelectionAssumption ==
    /\ \A graph \in Graphs : ResolvedGraph(graph)
    /\ \A hits \in Rankings : hits \in Seq(Parents)
    /\ \A query \in Queries : IsFiniteSet(query.anchorTokens)
    \* A bucket has room for a bridge and its best edge, the frontier for all buckets.
    /\ FrontierBucketLimit \in Nat /\ FrontierBucketLimit >= 2
    /\ FrontierGlobalLimit \in Nat /\ FrontierGlobalLimit >= 16 * FrontierBucketLimit
ASSUME SelectionAssumption

VARIABLES
    input,      \* what the query is evaluated over
    stage,      \* how far Evaluate is
    group,      \* the anchors
    facts,      \* what was reached from them
    bundle,     \* what was selected
    related,    \* bodies attached to it
    labelled    \* the query's labels and what they say

vars == <<input, stage, group, facts, bundle, related, labelled>>

FrontierPolicies == {"frontier-cap-only", "frontier-bridge", "frontier-graph-only-pareto"}
AnchorEdgePolicies == {"anchor-edge-raw-frequency", "anchor-edge-source-normalized",
                       "anchor-edge-bidirectional", "anchor-edge-incoming-popularity"}

Primary(hits) == {hits[i] : i \in 1..ProtectedPrimaryK}

\* The first hits of both lexical lanes.
GraphFirstSeeds ==
    LET firsts(lane) == SubSeq(lane, 1, ProtectedPrimaryK)
    IN firsts(Lanes[1]) \o SelectSeq(firsts(Lanes[2]), LAMBDA p : \A i \in 1..ProtectedPrimaryK : Lanes[1][i] # p)

\* The parents a relation brings in, as long as they are not protected hits.
AddedParents(pair, hits) ==
    SelectSeq(IF pair[1] = pair[2] THEN <<pair[1]>> ELSE pair, LAMBDA p : p \notin Primary(hits))
Added(pair, hits) ==
    LET added == AddedParents(pair, hits)
    IN SubSeq(added, 1, IF Len(added) < RelatedParentLimit THEN Len(added) ELSE RelatedParentLimit)

NoReason == ""
Nothing == [selected |-> None, added |-> <<>>, order |-> <<>>, why |-> NoReason, tiers |-> None, frontier |-> None]

-----------------------------------------------------------------------------
(* Policies that weigh the words of a query against a relation *)

HasIntent(query, intent) == intent \in query.intents

QualifierMismatch(query, f) ==
    Mismatch(IF HasIntent(query, "deprecated") /\ ~Traits[f.anchor].deprecated /\ ~Traits[f.endpoint].deprecated
             THEN TRUE
             ELSE query.roles # {} /\ f.occurrence.fileRole \notin query.roles)

ValueParameterMismatch(query, f) ==
    Mismatch(/\ HasIntent(query, "value-parameter")
             /\ ~(/\ f.direction = "FORWARD"
                  /\ f.occurrence.kind = "TYPE_REF"
                  /\ f.occurrence.zone = "SIGNATURE"
                  /\ f.occurrence.role = "TYPE_VALUE_PARAMETER"))

SignatureRoles == {"TYPE_PARAMETER", "TYPE_RETURN", "TYPE_FIELD", "TYPE_ALIAS", "TYPE_HERITAGE",
                   "TYPE_ARGUMENT", "TYPE_LOCAL", "TYPE_OTHER"}

MetadataIntentMismatch(query, f) ==
    LET o == f.occurrence
    IN Mismatch(
        \/ HasIntent(query, "signature") /\ o.zone \notin {"SIGNATURE", "TYPE_BODY"}
        \/ HasIntent(query, "signature") /\ o.role \notin SignatureRoles /\ o.kind # "TYPE_REF"
        \/ HasIntent(query, "mutation") /\ o.flow # "ASSIGNMENT"
        \/ HasIntent(query, "return") /\ o.flow # "RETURN"
        \/ HasIntent(query, "condition") /\ o.flow # "CONDITION"
        \/ query.direction # f.direction)

TokenOverlap(query, tokens) == Cardinality(query.tokens \cap tokens)

MetadataAdmissionPrefix(query, f, policy) ==
    <<Asc(QualifierMismatch(query, f))>>
    \o (IF policy = "value-parameter-dense-first" THEN <<Asc(ValueParameterMismatch(query, f))>> ELSE <<>>)
    \o <<Desc(TokenOverlap(query, f.occurrence.context)),
         Desc(TokenOverlap(query, ParentTokens[f.endpoint])),
         Desc(TokenOverlap(query, ParentTokens[f.anchor])),
         Asc(MetadataIntentMismatch(query, f)),
         Asc(Mismatch(Traits[f.anchor].path # Traits[f.endpoint].path)),
         Asc(Mismatch(query.roles = {} /\ f.occurrence.fileRole # "PRODUCTION"))>>

FactKey(f) == <<Asc(f.occurrence.id), Asc(Mismatch(f.direction = "REVERSE")), Asc(f.anchor)>>
Placed(f) == <<Asc(f.occurrence.ordinal), Asc(f.occurrence.byte)>> \o FactKey(f)

\* Graph-first leaves the dense ranks to the second sort.
MetadataSelectionKey(query, f, hits, policy) ==
    MetadataAdmissionPrefix(query, f, policy)
    \o (IF policy = "graph-first" THEN <<>> ELSE <<Asc(Rank(hits, f.anchor)), Asc(Rank(hits, f.endpoint))>>)
    \o Placed(f)

GraphRerankKey(f, hits) ==
    LET a == Rank(hits, f.anchor)
        e == Rank(hits, f.endpoint)
    IN <<Asc(IF e < a THEN e ELSE a), Asc(IF e < a THEN a ELSE e)>> \o Placed(f)

EligibleFact(f) == f.anchor # f.endpoint /\ {f.anchor, f.endpoint} \subseteq Parents

SelectBundleWithPolicy(query, reached, hits, policy) ==
    LET eligible == {f \in reached : EligibleFact(f)}
        prefix(f) == MetadataAdmissionPrefix(query, f, policy)
        admitted == IF policy = "graph-first"
                    THEN {f \in eligible : \A g \in eligible : ~KeyLess(prefix(g), prefix(f))}
                    ELSE eligible
        key(f) == IF policy = "graph-first" THEN GraphRerankKey(f, hits) ELSE MetadataSelectionKey(query, f, hits, policy)
        selected == Least(admitted, LAMBDA f, g : KeyLess(key(f), key(g)))
    IN IF eligible = {} THEN Nothing
       ELSE [Nothing EXCEPT !.selected = selected, !.added = Added(<<selected.anchor, selected.endpoint>>, hits),
                            !.order = prefix(selected)]

-----------------------------------------------------------------------------
(* Policies that weigh edges by how often the graph has them *)

SelectAnchorEdgeBundle(candidates, hits) ==
    LET first == Least(candidates, CandidateLess)
    IN IF candidates = {} THEN Nothing
       ELSE [Nothing EXCEPT !.selected = first, !.order = first.tuple,
                            !.added = Added(<<first.stats.edge.source, first.stats.edge.target>>, hits)]

-----------------------------------------------------------------------------
(* The capped frontier *)

DirectAnchorBridge(anchors, c) ==
    /\ Len(anchors) = 2
    /\ {c.stats.edge.source, c.stats.edge.target} = {anchors[1], anchors[2]}

Bucket(c) == <<c.ordinal, c.direction, c.stats.edge.tier>>
Buckets == (1..2) \X {"FORWARD", "REVERSE"} \X Tiers

\* Best view of each edge.
CanonicalUnion(views) ==
    {Least({v \in views : v.stats.edge = e}, CandidateLess) : e \in {v.stats.edge : v \in views}}

\* Bug: bridges have to make it into a bucket like every other edge.
NothingReserved(eligible, anchors) ==
    [kept |-> [b \in Buckets |-> FirstOf(eligible[b], FrontierBucketLimit, CandidateLess)], overflow |-> FALSE]

\* A bridge that no bucket kept takes the place of the worst other edge of the
\* first bucket that has one.
ReserveBridge(state, views) ==
    LET choices == InOrder(views, CandidateLess)
        full(i) == Cardinality(state.kept[Bucket(choices[i])]) >= FrontierBucketLimit
        others(i) == {v \in state.kept[Bucket(choices[i])] : v.stats.edge \notin state.bridges}
        fits == {i \in 1..Len(choices) : ~full(i) \/ others(i) # {}}
        choice == CHOOSE i \in fits : \A j \in fits : i <= j
        worst == Least(others(choice), LAMBDA v, w : CandidateLess(w, v))
    IN CASE state.overflow \/ \E i \in 1..Len(choices) : choices[i] \in state.kept[Bucket(choices[i])] -> state
         [] OTHER ->
            IF fits = {} THEN [state EXCEPT !.overflow = TRUE]
            ELSE [state EXCEPT !.kept[Bucket(choices[choice])] =
                     (IF full(choice) THEN @ \ {worst} ELSE @) \cup {choices[choice]}]

AssignFrontierBridges(eligible, anchors) ==
    LET bridges == {v \in UNION {eligible[b] : b \in Buckets} : DirectAnchorBridge(anchors, v)}
        order == InOrder(CanonicalUnion(bridges), CandidateLess)
        start == [kept |-> [b \in Buckets |-> FirstOf(eligible[b], FrontierBucketLimit, CandidateLess)],
                  overflow |-> FALSE, bridges |-> {v.stats.edge : v \in bridges}]
        state[i \in 0..Len(order)] ==
            IF i = 0 THEN start ELSE ReserveBridge(state[i - 1], {w \in bridges : w.stats.edge = order[i].stats.edge})
    IN state[Len(order)]

BuildFrontierTrace(candidates, anchors) ==
    LET eligible == [b \in Buckets |-> {c \in candidates : Bucket(c) = b}]
        assigned == AssignFrontierBridges(eligible, anchors)
        provisional == UNION {assigned.kept[b] : b \in Buckets}
    IN [universe |-> candidates, provisional |-> provisional, overflow |-> assigned.overflow,
        final |-> IF assigned.overflow THEN {} ELSE CanonicalUnion(provisional)]

-----------------------------------------------------------------------------
(* The choice among what only the graph knows *)

ParetoDominates(v, w) ==
    LET l == v.stats
        r == w.stats
        share == l.occurrences * r.sourceOccurrences - r.occurrences * l.sourceOccurrences
    IN /\ share >= 0 /\ l.sourceTargets <= r.sourceTargets /\ l.targetSources <= r.targetSources
       /\ share > 0 \/ l.sourceTargets < r.sourceTargets \/ l.targetSources < r.targetSources

\* Bridges go first; then forward edges to parents the dense search did not find.
GraphOnly(final, anchors, hits) ==
    {v \in final : /\ ~DirectAnchorBridge(anchors, v)
                   /\ v.direction = "FORWARD"
                   /\ Rank(hits, v.endpoint) > MaxDenseDepth}

\* Dominance only counts within a tier.
Survivors(tiered) ==
    {v \in tiered : \A w \in tiered : v.stats.edge.tier = w.stats.edge.tier => ~ParetoDominates(w, v)}

FrontierGraphOnlyDecision(final, anchors, hits) ==
    LET bridges == {v \in final : DirectAnchorBridge(anchors, v)}
        survivors == Survivors(GraphOnly(final, anchors, hits))
    IN CASE bridges # {} -> [outcome |-> "DIRECT_BRIDGE", selected |-> Least(bridges, CandidateLess)]
         [] bridges = {} /\ survivors = {} -> [outcome |-> "NO_CANDIDATE", selected |-> None]
         [] bridges = {} /\ Cardinality(survivors) = 1 ->
                [outcome |-> "ONE_WINNER", selected |-> CHOOSE v \in survivors : TRUE]
         [] OTHER -> [outcome |-> "MULTIPLE_WINNERS", selected |-> None]

SelectFrontierBundle(trace, anchors, hits, policy) ==
    LET bridges == {v \in trace.final : DirectAnchorBridge(anchors, v)}
        decision == FrontierGraphOnlyDecision(trace.final, anchors, hits)
        least(S, why) == IF S = {} THEN [selected |-> None, outcome |-> why]
                         ELSE [selected |-> Least(S, CandidateLess), outcome |-> NoReason]
        choice == CASE trace.overflow -> [selected |-> None, outcome |-> "BRIDGE_CAP_OVERFLOW"]
                    [] ~trace.overflow /\ policy = "frontier-cap-only" -> least(trace.final, "NO_FRONTIER_EDGE")
                    [] ~trace.overflow /\ policy = "frontier-bridge" -> least(bridges, "NO_DIRECT_ANCHOR_BRIDGE")
                    [] OTHER -> decision
        v == choice.selected
    IN IF v = None THEN [Nothing EXCEPT !.why = choice.outcome]
       ELSE [Nothing EXCEPT !.selected = v, !.order = v.tuple, !.why = choice.outcome,
                            !.added = Added(<<v.stats.edge.source, v.stats.edge.target>>, hits)]

-----------------------------------------------------------------------------
(* Bodies, then labels *)

PackageRelated(added) ==
    {[parent |-> p, complete |-> Traits[p].bytes <= RelatedBodyLimit] : p \in {added[i] : i \in 1..Len(added)}}

\* A span is the set of parents that contain it.
Match(parents, span) == span \cap parents # {}
GroupHit(parents, g) == \E alternative \in g : \A span \in alternative : Match(parents, span)
CompleteRequirementHit(parents, item) ==
    Len(item.groups) > 0 /\ \A i \in 1..Len(item.groups) : GroupHit(parents, item.groups[i])

ParentClassification(item, p) ==
    IF p \in item.hard THEN "HARD_NEGATIVE" ELSE IF p \in DOMAIN item.grades THEN item.grades[p] ELSE "UNREVIEWED"
ParentRequired(item, p) ==
    \E i \in 1..Len(item.groups) : \E alternative \in item.groups[i] : \E span \in alternative : p \in span

EndsOf(selected) == IF selected = None THEN {} ELSE {selected.anchor, selected.endpoint}
ClassifyAttachments(item, selected, bodies) ==
    {[parent |-> p, classification |-> ParentClassification(item, p), required |-> ParentRequired(item, p)] :
        p \in EndsOf(selected) \cup {b.parent : b \in bodies}}
DiagnosticGate(attachments) ==
    UNION {(IF a.classification = "HARD_NEGATIVE" THEN {<<a.parent, "ATTACHED_HARD_NEGATIVE">>} ELSE {})
           \cup (IF Traits[a.parent].walkXFF THEN {<<a.parent, "WALKXFF_ATTACHED">>} ELSE {}) : a \in attachments}

\* How far the best parent of a span, the worst span of an alternative and the
\* best alternative of a group got.
Extreme(S, otherwise, beats(_, _)) ==
    IF S = {} THEN otherwise ELSE CHOOSE x \in S : \A y \in S : x = y \/ beats(x, y)
Best(S) == Extreme(S, 0, LAMBDA x, y : x > y)
Worst(S) == Extreme(S, 7, LAMBDA x, y : x < y)
StageOfParent(p) ==
    CASE p \in Primary(input.hits) -> 7
      [] p \notin Primary(input.hits) /\ [parent |-> p, complete |-> TRUE] \in related -> 4
      [] p \notin Primary(input.hits) /\ [parent |-> p, complete |-> FALSE] \in related -> 3
      [] OTHER -> IF p \in EndsOf(bundle.selected) THEN 2
                  ELSE IF \E f \in facts : p \in {f.anchor, f.endpoint} THEN 1 ELSE 0
StageOfGroup(g) == Best({Worst({Best({StageOfParent(p) : p \in span}) : span \in alternative}) : alternative \in g})

LossName(s) ==
    CASE s = 0 -> "RELATION_REACHABILITY" [] s = 1 -> "RELATION_ADMISSION" [] s = 2 -> "BUNDLE_PARENT_CAP"
      [] s = 3 -> "RELATED_BODY_PACKAGING" [] OTHER -> "REQUIRED_GROUP_COMPLETENESS"

\* Group after group; 0 stands for "no group yet" as well as for the first stage.
RelationFirstLoss(item) ==
    LossName(FoldLeft(LAMBDA best, g : IF StageOfGroup(g) < best \/ best = 0 THEN StageOfGroup(g) ELSE best,
                      0, item.groups))

-----------------------------------------------------------------------------
(* The steps of Evaluate for a query *)

Init ==
    /\ input \in [graph : Graphs, query : Queries, hits : Rankings, policy : Policies]
    /\ stage = "hits"
    /\ group = <<>> /\ facts = {} /\ bundle = Nothing /\ related = {} /\ labelled = None

SelectAnchors ==
    /\ stage = "hits"
    /\ group' = CASE input.policy = "graph-first" -> GraphFirstSeeds
                  [] input.policy \in FrontierPolicies \cup AnchorEdgePolicies ->
                        SelectAnchorGroup(input.query, input.hits)
                  [] OTHER -> input.hits
    /\ stage' = "anchors"
    /\ UNCHANGED <<input, facts, bundle, related, labelled>>

Reach ==
    /\ stage = "anchors"
    /\ facts' = ReachableFacts(input.graph, {group[i] : i \in 1..Len(group)})
    /\ stage' = "facts"
    /\ UNCHANGED <<input, group, bundle, related, labelled>>

CandidatesUnder(policy) ==
    Candidates(facts, input.query, group, CompleteGraphEdgeStats(input.graph), input.hits, policy)

SelectByMetadata ==
    /\ stage = "facts"
    /\ input.policy \notin FrontierPolicies \cup AnchorEdgePolicies
    /\ bundle' = SelectBundleWithPolicy(input.query, facts, input.hits, input.policy)
    /\ stage' = "bundle"
    /\ UNCHANGED <<input, group, facts, related, labelled>>

SelectByEdges ==
    /\ stage = "facts"
    /\ input.policy \in AnchorEdgePolicies
    /\ LET candidates == CandidatesUnder(input.policy)
       IN /\ bundle' = [SelectAnchorEdgeBundle(candidates, input.hits) EXCEPT !.tiers = TierCounts(input.graph)]
          /\ stage' = IF candidates = {} \/ ValidateAnchorRanking(candidates) THEN "bundle" ELSE "failed"
    /\ UNCHANGED <<input, group, facts, related, labelled>>

SelectInFrontier ==
    /\ stage = "facts"
    /\ input.policy \in FrontierPolicies
    /\ LET trace == BuildFrontierTrace(CandidatesUnder("anchor-edge-bidirectional"), group)
       IN /\ bundle' = [SelectFrontierBundle(trace, group, input.hits, input.policy) EXCEPT !.frontier = trace]
          /\ stage' = IF Cardinality(trace.final) <= FrontierGlobalLimit THEN "bundle" ELSE "failed"
    /\ UNCHANGED <<input, group, facts, related, labelled>>

Package ==
    /\ stage = "bundle"
    /\ related' = PackageRelated(bundle.added)
    /\ stage' = "packaged"
    /\ UNCHANGED <<input, group, facts, bundle, labelled>>

\* Labels come in only now, whatever they are.
Label ==
    /\ stage = "packaged"
    /\ \E item \in Labels :
        LET augmented == CompleteRequirementHit(Primary(input.hits) \cup {b.parent : b \in {r \in related : r.complete}}, item)
            attachments == ClassifyAttachments(item, bundle.selected, related)
        IN labelled' = [item |-> item, baseline |-> CompleteRequirementHit(Primary(input.hits), item),
                        augmented |-> augmented, attachments |-> attachments, gate |-> DiagnosticGate(attachments),
                        firstLoss |-> IF augmented THEN "NO_LOSS" ELSE RelationFirstLoss(item)]
    /\ stage' = "labelled"
    /\ UNCHANGED <<input, group, facts, bundle, related>>

Select == SelectByMetadata \/ SelectByEdges \/ SelectInFrontier
Next == SelectAnchors \/ Reach \/ Select \/ Package \/ Label
Spec == Init /\ [][Next]_vars

-----------------------------------------------------------------------------
(* Properties *)

Chosen == stage \in {"bundle", "failed"}
ByFrontier == Chosen /\ input.policy \in FrontierPolicies
Edges(views) == {v.stats.edge : v \in views}

\* No graph makes the evaluation fail: candidates are told apart by a named
\* component and the global cap is never exceeded.
EvaluationNeverFails == stage # "failed"

\* The caps lose nothing that matters: every direct bridge between the anchors
\* is in the final frontier, no bridge is short of a place, and the frontier
\* still begins with the edge that the uncapped policy selects.  The graph-only
\* policy then abstains for want of candidates only when there are none, and a
\* lone winner beats every other candidate.
LoneWinnerBeatsAll ==
    input.policy = "frontier-graph-only-pareto" =>
        LET candidates == GraphOnly(bundle.frontier.final, group, input.hits)
        IN /\ bundle.why = "NO_CANDIDATE" => candidates = {}
           /\ bundle.why = "ONE_WINNER" => \A v \in candidates \ {bundle.selected} : ParetoDominates(bundle.selected, v)

CapsKeepBridgesAndBest ==
    ByFrontier =>
        LET trace == bundle.frontier
            bridges == {v \in trace.universe : DirectAnchorBridge(group, v)}
        IN /\ ~trace.overflow
           /\ Edges(bridges) \subseteq Edges(trace.final)
           /\ trace.universe # {} => Least(trace.final, CandidateLess) = SelectAnchorEdgeBundle(trace.universe, input.hits).selected
           /\ LoneWinnerBeatsAll
=============================================================================
