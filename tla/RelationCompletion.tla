------------------------- MODULE RelationCompletion -------------------------
(***************************************************************************)
(* Complete of the relation diagnostics for one query                      *)
(* (internal/relationdiag/completion.go): the scores of all segments       *)
(* collapsed into a ranking of parents, and, without labels, what the      *)
(* graph offers around it - endpoints of the capped frontier, closures of  *)
(* the primary parents' contracts and hints.                               *)
(*                                                                         *)
(* A row of the retrieval artifact is [parent, score]; its place in the    *)
(* artifact is its rank.                                                   *)
(***************************************************************************)
EXTENDS RelationSelection

CONSTANTS
    ClosureCountBudgets, ClosureByteBudgets, HintCountBudgets, HintByteBudgets

-----------------------------------------------------------------------------
(* The ranking *)

Tie(segments, i) ==
    LET parents(S) == {segments[j].parent : j \in S}
        above == parents({j \in DOMAIN segments : segments[j].score > segments[i].score})
        level == parents({j \in DOMAIN segments : segments[j].score = segments[i].score})
    IN [first |-> Cardinality(above) + 1, last |-> Cardinality(above \cup level)]

\* Every parent by its best row.
CollapseActiveScores(segments) ==
    LET before(i, j) == segments[i].score > segments[j].score \/ (segments[i].score = segments[j].score /\ i < j)
        winners == {i \in DOMAIN segments : \A j \in DOMAIN segments \ {i} :
                       segments[j].parent = segments[i].parent => before(i, j)}
        order == InOrder(winners, before)
    IN [k \in DOMAIN order |-> [parent |-> segments[order[k]].parent, score |-> segments[order[k]].score,
                              tie |-> Tie(segments, order[k])]]

ValidateCollapsedTopK(values, hits) ==
    /\ Len(values) >= MaxDenseDepth
    /\ \A i \in 1..ProtectedPrimaryK : values[i].parent = hits[i]
\* The product's hits, then the rest of the collapse.
CompletionRankHits(values) == [i \in 1..MaxDenseDepth |-> values[i].parent]

GlobalRank(values, p) == CHOOSE i \in DOMAIN values : values[i].parent = p
Observed(values) == {values[i].parent : i \in DOMAIN values}
NativeScore(values, p) == IF p \in Observed(values) THEN values[GlobalRank(values, p)].score ELSE 0

TieBoundaryStatus(values, p, boundary) ==
    CASE p \notin Observed(values) -> "NOT_OBSERVED"
      [] OTHER ->
         LET tie == values[GlobalRank(values, p)].tie
         IN IF tie.first <= boundary /\ tie.last > boundary THEN "TIE_SPANS_BOUNDARY"
            ELSE IF GlobalRank(values, p) <= boundary THEN "INCLUDED_EXACT" ELSE "EXCLUDED_EXACT"

-----------------------------------------------------------------------------
(* Endpoints of the frontier *)

\* As strings compare: among type references those of a body come first.
EdgeKey(e) == <<Asc(e.source), Asc(e.target), Asc(KindOrder[e.kind]), Desc(e.tier)>>
Representative(views) == Least(views, CandidateLess)

\* Endpoints that were not scored follow in no particular order.
SemanticEndpointRows(frontier, values) ==
    LET endpoints == {v.endpoint : v \in frontier}
        scored == endpoints \cap Observed(values)
        best == Best({NativeScore(values, p) : p \in scored})
        first == IF scored = {} THEN None
                 ELSE CHOOSE p \in scored : NativeScore(values, p) = best /\ \A q \in scored : NativeScore(values, q) = best => p <= q
    IN {LET views == {v \in frontier : v.endpoint = p}
            anchor == Representative(views).anchor
        IN [endpoint |-> p, anchor |-> anchor, views |-> views, edges |-> Edges(views),
            gap |-> NativeScore(values, p) - NativeScore(values, anchor),
            topOne |-> best, topTwo |-> Best({NativeScore(values, q) : q \in scored \ {first}}),
            ambiguous |-> Cardinality(scored) < 2,
            primaryStatus |-> TieBoundaryStatus(values, p, ProtectedPrimaryK),
            denseStatus |-> TieBoundaryStatus(values, p, MaxDenseDepth)] : p \in endpoints}

-----------------------------------------------------------------------------
(* Closures: the declarations that the contract of a primary parent names *)

BudgetsFor(n, grid) == {b \in grid : n <= b}

ClosureRoleClass(role) ==
    CASE role = "TYPE_VALUE_PARAMETER" -> "VALUE_PARAMETER"
      [] role = "TYPE_RETURN" -> "RETURN"
      [] role = "TYPE_PARAMETER" -> "GENERIC_CONSTRAINT"
      [] role = "TYPE_HERITAGE" -> "HERITAGE"
      [] role \in {"TYPE_FIELD", "TYPE_ALIAS", "TYPE_ARGUMENT", "TYPE_OTHER"} -> "SIGNATURE"
      [] OTHER -> "UNDECLARED_SIGNATURE_ROLE"

ContractFacts(graph, primary) ==
    {f \in ReachableFacts(graph, {primary[i] : i \in DOMAIN primary}) :
        f.direction = "FORWARD" /\ f.occurrence.kind = "TYPE_REF" /\ f.occurrence.zone \in {"SIGNATURE", "TYPE_BODY"}}
ClosureKey(f, primary) ==
    <<Asc(AnchorOrdinal(primary, f.anchor)), Asc(f.occurrence.ordinal), Asc(f.occurrence.byte), Asc(f.occurrence.id)>>

\* The first of these that holds is why a row takes no part.
FirstReason(reasons) ==
    LET holding == {i \in DOMAIN reasons : reasons[i][1]}
    IN IF holding = {} THEN NoReason ELSE reasons[CHOOSE i \in holding : \A j \in holding : i <= j][2]

ClosureOmission(f, primary, chosen) ==
    FirstReason(<<
        <<ClosureRoleClass(f.occurrence.role) = "UNDECLARED_SIGNATURE_ROLE", "ROLE_NOT_CONTRACT">>,
        <<f.anchor = f.endpoint, "SELF_CYCLE">>,
        <<\E i \in DOMAIN primary : primary[i] = f.endpoint, "ALREADY_PRIMARY">>,
        <<f.endpoint \notin Parents, "MISSING_TARGET_PARENT">>,
        <<~Traits[f.endpoint].production, "TARGET_NOT_PRODUCTION">>,
        <<Traits[f.endpoint].bytes = 0, "BODY_INCOMPLETE">>,
        <<<<f.anchor, f.endpoint>> \in chosen, "DUPLICATE_TARGET_PARENT_PRIMARY">>,
        <<\E pair \in chosen : pair[2] = f.endpoint, "DUPLICATE_TARGET_PARENT_REQUEST">>>>)

\* Bug: a body is charged again for every primary parent that names it.
ChargePerPrimary(state, f, primary) ==
    LET why == ClosureOmission(f, primary, state.chosen)
        counted == why \in {NoReason, "DUPLICATE_TARGET_PARENT_REQUEST"}
        bytes == state.bytes + Traits[f.endpoint].bytes
        charged == Cardinality({i \in DOMAIN state.rows : state.rows[i].ordinal > 0}) + 1
    IN [rows |-> Append(state.rows, [fact |-> f, why |-> why, ordinal |-> IF counted THEN charged ELSE 0,
                                     primaryOrdinal |-> 0, bytes |-> IF counted THEN bytes ELSE 0]),
        chosen |-> IF counted THEN state.chosen \cup {<<f.anchor, f.endpoint>>} ELSE state.chosen,
        bytes |-> IF counted THEN bytes ELSE state.bytes]

\* A target counts once for each primary parent and is charged once for all.
ClosureRow(state, f, primary) ==
    LET why == ClosureOmission(f, primary, state.chosen)
        counted == why \in {NoReason, "DUPLICATE_TARGET_PARENT_REQUEST"}
        bytes == state.bytes + Traits[f.endpoint].bytes
        charged == Cardinality({i \in DOMAIN state.rows : state.rows[i].ordinal > 0}) + 1
    IN [rows |-> Append(state.rows,
            [fact |-> f, why |-> why, ordinal |-> IF why = NoReason THEN charged ELSE 0,
             primaryOrdinal |-> IF counted THEN Cardinality({pair \in state.chosen : pair[1] = f.anchor}) + 1 ELSE 0,
             bytes |-> IF why = NoReason THEN bytes ELSE 0]),
        chosen |-> IF counted THEN state.chosen \cup {<<f.anchor, f.endpoint>>} ELSE state.chosen,
        bytes |-> IF why = NoReason THEN bytes ELSE state.bytes]

ClosureRowsForQuery(graph, primary) ==
    LET named == ContractFacts(graph, primary)
        order == InOrder(named, LAMBDA f, g : KeyLess(ClosureKey(f, primary), ClosureKey(g, primary)))
        state[i \in 0..Len(order)] ==
            IF i = 0 THEN [rows |-> <<>>, chosen |-> {}, bytes |-> 0] ELSE ClosureRow(state[i - 1], order[i], primary)
    IN state[Len(order)].rows

-----------------------------------------------------------------------------
(* Hints: an endpoint under a kind, a direction and a tier *)

HintGroup(v) == [endpoint |-> v.endpoint, direction |-> v.direction, kind |-> v.stats.edge.kind, tier |-> v.stats.edge.tier]

\* Scored endpoints first, by score.
HintKey(h, values) ==
    <<Asc(Mismatch(h.endpoint \notin Observed(values))), Desc(NativeScore(values, h.endpoint))>> \o EdgeKey(h.first.stats.edge)

HintRowsForQuery(frontier, values) ==
    LET views(g) == {v \in frontier : HintGroup(v) = g}
        hints == {g @@ [first |-> Representative(views(g)), anchor |-> Representative(views(g)).anchor,
                        occurrences |-> MapThenSumSet(LAMBDA v : v.stats.occurrences, views(g))] :
                     g \in {HintGroup(v) : v \in frontier}}
        order == InOrder(hints, LAMBDA g, h : KeyLess(HintKey(g, values), HintKey(h, values)))
        total(i) == FoldLeft(LAMBDA sum, h : sum + Traits[h.endpoint].disclosure, 0, SubSeq(order, 1, i))
    IN [i \in DOMAIN order |-> order[i] @@
            [within |-> BudgetsFor(i, HintCountBudgets) # {} /\ BudgetsFor(total(i), HintByteBudgets) # {}]]

-----------------------------------------------------------------------------
(* Anchors, facts and frontier are those of Evaluate under the capped policy. *)

CompletionEvidence(graph, query, values) ==
    LET hits == CompletionRankHits(values)
        anchors == SelectAnchorGroup(query, hits)
        reached == ReachableFacts(graph, {anchors[i] : i \in DOMAIN anchors})
        frontier == BuildFrontierTrace(Candidates(reached, query, anchors, CompleteGraphEdgeStats(graph), hits,
                                                  "anchor-edge-bidirectional"), anchors).final
        primary == SubSeq(hits, 1, ProtectedPrimaryK)
    IN [values |-> values, primary |-> primary,
        endpoints |-> SemanticEndpointRows(frontier, values),
        closures |-> ClosureRowsForQuery(graph, primary),
        hints |-> HintRowsForQuery(frontier, values)]
=============================================================================
