-------------------------- MODULE RelationPackaging --------------------------
(***************************************************************************)
(* Package of the relation diagnostics (internal/relationdiag/packaging.go) *)
(* replays completed queries under three arms: A attaches only the primary *)
(* parents, B adds siblings from their files, C adds clusters one hop      *)
(* away.  The labels of the closed review then say which arm continues.    *)
(*                                                                         *)
(* The specification starts with an input of RelationSelection, which is   *)
(* either evaluated there or completed and packaged here.                  *)
(***************************************************************************)
EXTENDS RelationCompletion

CONSTANTS
    Segments,       \* rows of the retrieval artifact
    Units,          \* [primary, groups, grades]: what the review prepared and froze for the query
    Contracts       \* [counts, siblingBytes, sibling, files, hopBytes, oneHop, gates]

\* Every row of the artifact is about a parent with a body.
PackagingAssumption ==
    /\ IsFiniteSet(Parents) /\ ProtectedPrimaryK \in Nat
    /\ \A p \in Parents : Traits[p].bytes \in Nat /\ Traits[p].symbol \in Int
    /\ \A segments \in Segments :
          /\ segments \in Seq([parent : Parents, score : Int])
          /\ \A i \in DOMAIN segments : Traits[segments[i].parent].bytes > 0
ASSUME PackagingAssumption

VARIABLES
    completed,      \* the evidence of Complete
    replay          \* the rows and the decision of Package

packagingVars == <<completed, replay>>

-----------------------------------------------------------------------------
(* What is packaged *)

Paths(parents) == {Traits[p].path : p \in parents}
PrimarySet(q) == {q.primary[i] : i \in DOMAIN q.primary}

\* Files in the order of their first primary parent.
FileOrder(q, path) == CHOOSE i \in DOMAIN q.primary :
    /\ Traits[q.primary[i]].path = path
    /\ \A j \in 1..(i - 1) : Traits[q.primary[j]].path # path

SiblingCandidates(q) ==
    {p \in Observed(q.values) \ PrimarySet(q) : Traits[p].path \in Paths(PrimarySet(q))}
SiblingKey(q, p) == <<Asc(FileOrder(q, Traits[p].path)), Asc(Traits[p].symbol), Asc(p)>>

\* One after the other; what does not fit is passed over for what follows.
EmitSibling(state, p, count, bytes) ==
    LET why == FirstReason(<<
            <<Traits[p].bytes <= 0, "SIBLING_MISSING_BODY">>,
            <<Len(state.emitted) >= count, "SIBLING_COUNT_CAP">>,
            <<state.bytes + Traits[p].bytes > bytes, "SIBLING_BYTE_CAP">>>>)
    IN IF why = NoReason
       THEN [emitted |-> Append(state.emitted, p), omissions |-> state.omissions, bytes |-> state.bytes + Traits[p].bytes]
       ELSE [state EXCEPT !.omissions = @ \cup {[parent |-> p, why |-> why]}]

PackageSiblings(q, count, bytes) ==
    LET order == InOrder(SiblingCandidates(q), LAMBDA p, r : KeyLess(SiblingKey(q, p), SiblingKey(q, r)))
        state[i \in 0..Len(order)] ==
            IF i = 0 THEN [emitted |-> <<>>, omissions |-> {}, bytes |-> 0]
            ELSE EmitSibling(state[i - 1], order[i], count, bytes)
    IN state[Len(order)]

\* Hints to scored parents that are not primary; an isolated one leads from a
\* parent that is not primary to a file without a primary parent.
Hop(q, h) == h.endpoint \in Observed(q.values) \ PrimarySet(q)
Kept(q, h) == Traits[h.endpoint].path \in Paths(PrimarySet(q)) \/ h.anchor \in PrimarySet(q) \cap Observed(q.values)

\* Hints to one symbol of one file make a cluster, named after the first.
Clusters(q) ==
    LET kept == SelectSeq(q.hints, LAMBDA h : Hop(q, h) /\ Kept(q, h))
        symbol(i) == <<Traits[kept[i].endpoint].path, Traits[kept[i].endpoint].symbol>>
        firsts == {i \in DOMAIN kept : \A j \in 1..(i - 1) : symbol(j) # symbol(i)}
    IN {[parent |-> kept[i].endpoint, path |-> symbol(i)[1], symbol |-> symbol(i)[2],
         occurrences |-> MapThenSumSet(LAMBDA j : kept[j].occurrences, {j \in DOMAIN kept : symbol(j) = symbol(i)})] :
            i \in firsts}
ClusterKey(c) == <<Asc(c.path), Asc(c.symbol), Asc(c.parent)>>

PackageOneHop(q, files, bytes) ==
    LET isolated == {i \in DOMAIN q.hints : Hop(q, q.hints[i]) /\ ~Kept(q, q.hints[i])}
        accept(state, c) ==
            LET why == FirstReason(<<
                    <<c.path \notin state.files /\ Cardinality(state.files) >= files, "CLUSTER_FILE_CAP">>,
                    <<state.bytes + Traits[c.parent].disclosure > bytes, "CLUSTER_BYTE_CAP">>>>)
            IN IF why = NoReason
               THEN [state EXCEPT !.emitted = Append(@, c.parent), !.files = @ \cup {c.path},
                                  !.bytes = @ + Traits[c.parent].disclosure]
               ELSE [state EXCEPT !.omissions = @ \cup {[parent |-> c.parent, why |-> why]}]
    IN FoldLeft(accept,
                [emitted |-> <<>>, files |-> {}, bytes |-> 0,
                 omissions |-> {[parent |-> q.hints[i].endpoint, why |-> "ISOLATED_HOP_OMITTED"] : i \in isolated}],
                InOrder(Clusters(q), LAMBDA c, d : KeyLess(ClusterKey(c), ClusterKey(d))))

-----------------------------------------------------------------------------
(* What a payload is worth *)

\* A miss that the primary files could mend is told from one they could not.
MissClass(q, sources) ==
    IF Paths(sources \cap Observed(q.values)) \cap Paths(PrimarySet(q)) # {} THEN "SIBLING_NOT_PACKAGED"
    ELSE "NEEDED_FILE_ABSENT"

Missing(q, payload) == {i \in DOMAIN q.groups : q.groups[i] \cap payload = {}}
\* 0 when no source was scored.
BestRank(q, sources) ==
    LET ranks == {GlobalRank(q.values, p) : p \in sources \cap Observed(q.values)}
    IN IF ranks = {} THEN 0 ELSE CHOOSE r \in ranks : \A s \in ranks : r <= s

Gold(q) == UNION {q.groups[i] : i \in DOMAIN q.groups} \cup {p \in DOMAIN q.grades : q.grades[p] = 2}
Symbols(parents) == {Traits[p].symbol : p \in parents}
\* The review's relations are the hints.
Neighbors(q, p) ==
    {q.hints[i].endpoint : i \in {j \in DOMAIN q.hints : q.hints[j].anchor = p}}
    \cup {q.hints[i].anchor : i \in {j \in DOMAIN q.hints : q.hints[j].endpoint = p}}
PackagingAdjacent(q, p) ==
    LET gold == Gold(q) \cap Observed(q.values)
    IN \/ p \in Gold(q) \cup PrimarySet(q)
       \/ Traits[p].path \in Paths(gold \cup PrimarySet(q))
       \/ Traits[p].symbol \in Symbols(gold \cup PrimarySet(q))
       \/ Neighbors(q, p) \cap (Gold(q) \cup PrimarySet(q)) # {}

ScorePackagingQuery(q, arm, cell, package) ==
    LET extras == {package.emitted[i] : i \in DOMAIN package.emitted}
        missing == Missing(q, PrimarySet(q) \cup extras)
        noise == {p \in extras \cap DOMAIN q.grades : q.grades[p] = 0 /\ ~PackagingAdjacent(q, p)}
    IN [query |-> q.id, arm |-> arm, cell |-> cell, extras |-> extras, omissions |-> package.omissions,
        complete |-> missing = {}, missing |-> [i \in missing |-> MissClass(q, q.groups[i])],
        ranks |-> [i \in missing |-> BestRank(q, q.groups[i])],
        noise |-> noise, noiseFiles |-> Paths(noise), unlabeled |-> extras \ DOMAIN q.grades]

\* A row for the baseline and one for every cell of both grids.
EvaluatePackaging(contract, q) ==
    {ScorePackagingQuery(q, "A", <<0, 0>>, [emitted |-> <<>>, omissions |-> {}])}
    \cup {ScorePackagingQuery(q, "B", cell, PackageSiblings(q, cell[1], cell[2])) :
              cell \in contract.counts \X contract.siblingBytes}
    \cup {ScorePackagingQuery(q, "C", cell, PackageOneHop(q, cell[1], cell[2])) :
              cell \in contract.files \X contract.hopBytes}

-----------------------------------------------------------------------------
(* Which arm continues *)

CellRows(rows, arm, cell) == {r \in rows : r.arm = arm /\ r.cell = cell}
CompleteIds(rows) == {r.query : r \in {s \in rows : s.complete}}
WinToLoss(rows, cell) == CompleteIds(CellRows(rows, "A", <<0, 0>>)) \cap {r.query : r \in {s \in cell : ~s.complete}}
Leaked(row) == {p \in row.extras : [parent |-> p, why |-> "ISOLATED_HOP_OMITTED"] \in row.omissions}

DecidePackaging(contract, rows) ==
    LET armA == CellRows(rows, "A", <<0, 0>>)
        armB == CellRows(rows, "B", contract.sibling)
        armC == CellRows(rows, "C", contract.oneHop)
        siblingOK ==
            /\ Cardinality(CompleteIds(armB) \cap contract.gates.sibling) >= contract.gates.minSibling
            /\ WinToLoss(rows, armB) = {}
            /\ MapThenSumSet(LAMBDA r : Cardinality(r.noise), armB) <= contract.sibling[1]
        oneHopOK ==
            /\ Cardinality(CompleteIds(armC) \cap contract.gates.nearby) >= contract.gates.minNearby
            /\ WinToLoss(rows, armC) = {}
            /\ \A r \in armC : Leaked(r) = {}
            /\ (CompleteIds(armC) \ CompleteIds(armA)) \cap contract.gates.limitation = {}
    IN CASE armB = {} \/ armC = {} -> "INCONCLUSIVE"
         [] siblingOK /\ oneHopOK -> "CONTINUE_BOTH_FOR_ONE_COMBINED_TEST"
         [] siblingOK /\ ~oneHopOK -> "CONTINUE_SIBLING_PACKAGING"
         [] ~siblingOK /\ oneHopOK -> "CONTINUE_ONE_HOP_CLUSTERS"
         [] OTHER -> "STOP_DEFAULT_GRAPH_PUSH"

ValidatePackagingContract(contract) ==
    /\ contract.sibling \in contract.counts \X contract.siblingBytes
    /\ contract.oneHop \in contract.files \X contract.hopBytes
    /\ contract.gates.minSibling \in 1..Cardinality(contract.gates.sibling)
    /\ contract.gates.minNearby \in 1..Cardinality(contract.gates.nearby)

-----------------------------------------------------------------------------
(* The steps *)

DiagnosticsInit == Init /\ completed = None /\ replay = None

Evaluate == Next /\ UNCHANGED packagingVars

\* Completion is defined over the capped frontier only, and goes on only when
\* the artifact's segments collapse to the product's hits.
Complete ==
    /\ stage = "hits" /\ input.policy = "frontier-cap-only"
    /\ \E segments \in Segments :
        LET values == CollapseActiveScores(segments)
        IN /\ ValidateCollapsedTopK(values, input.hits)
           /\ completed' = CompletionEvidence(input.graph, input.query, values)
    /\ stage' = "completed"
    /\ UNCHANGED <<input, group, facts, bundle, related, labelled, replay>>

\* The replay is inconclusive when the review was prepared for other hits.
Replay ==
    /\ stage = "completed"
    /\ \E unit \in Units, contract \in Contracts :
        LET q == [id |-> "q", primary |-> completed.primary, values |-> completed.values, hints |-> completed.hints,
                  groups |-> unit.groups, grades |-> unit.grades]
            rows == IF unit.primary # completed.primary THEN {} ELSE EvaluatePackaging(contract, q)
        IN /\ ValidatePackagingContract(contract)
           /\ replay' = [query |-> q, rows |-> rows, decision |-> DecidePackaging(contract, rows)]
    /\ stage' = "replayed"
    /\ UNCHANGED <<input, group, facts, bundle, related, labelled, completed>>

DiagnosticsNext == Evaluate \/ Complete \/ Replay
DiagnosticsSpec == DiagnosticsInit /\ [][DiagnosticsNext]_<<vars, packagingVars>>

-----------------------------------------------------------------------------
(* Properties *)

SumOf(f, S) == MapThenSumSet(LAMBDA x : f[x], S)

\* Whether an endpoint is among the first hits is called exact only when every
\* order of equal scores agrees, so that a tie is never taken for a ranking.
TieStatusExact ==
    stage = "completed" =>
        \A row \in completed.endpoints, b \in {ProtectedPrimaryK, MaxDenseDepth} :
            LET status == IF b = ProtectedPrimaryK THEN row.primaryStatus ELSE row.denseStatus
                score == NativeScore(completed.values, row.endpoint)
                ahead == {p \in Observed(completed.values) : NativeScore(completed.values, p) > score}
                level == {p \in Observed(completed.values) : NativeScore(completed.values, p) >= score}
            IN row.endpoint \in Observed(completed.values) =>
                /\ status = "INCLUDED_EXACT" <=> Cardinality(level) <= b
                /\ status = "EXCLUDED_EXACT" <=> Cardinality(ahead) >= b

\* However many primary parents name a declaration, and however often, its body
\* is charged once to the request and counted once for each of them; charges
\* are consecutive and add up.
ClosureChargesOnce ==
    stage = "completed" =>
        LET rows == completed.closures
            charged == {i \in DOMAIN rows : rows[i].ordinal > 0}
            counted == {i \in DOMAIN rows : rows[i].primaryOrdinal > 0}
            contract == {i \in DOMAIN rows : rows[i].why = NoReason \/ rows[i].why \in
                            {"DUPLICATE_TARGET_PARENT_PRIMARY", "DUPLICATE_TARGET_PARENT_REQUEST"}}
            named(S) == {<<rows[i].fact.anchor, rows[i].fact.endpoint>> : i \in S}
            bodies == [i \in DOMAIN rows |-> Traits[rows[i].fact.endpoint].bytes]
        IN /\ \A i \in contract : \E j \in charged : rows[j].fact.endpoint = rows[i].fact.endpoint
           /\ \A i, j \in charged : rows[i].fact.endpoint = rows[j].fact.endpoint => i = j
           /\ {rows[i].ordinal : i \in charged} = 1..Cardinality(charged)
           /\ \A i \in charged : rows[i].bytes = SumOf(bodies, {j \in charged : rows[j].ordinal <= rows[i].ordinal})
           /\ named(counted) = named(contract) /\ Cardinality(counted) = Cardinality(named(counted))

\* A miss is put down to packaging exactly when some sibling budget would mend
\* it, so that the experiment blames the right part.
MissClassTellsRemedy ==
    stage = "replayed" =>
        LET q == replay.query
            bodies == [p \in Parents |-> Traits[p].bytes]
            all == PackageSiblings(q, Cardinality(Parents), SumOf(bodies, Parents)).emitted
        IN \A row \in replay.rows : \A i \in DOMAIN row.missing :
                row.missing[i] = "SIBLING_NOT_PACKAGED" <=> q.groups[i] \cap {all[k] : k \in DOMAIN all} # {}

\* What a run reports of its queries is exact, so that the experiment blames
\* the right part: charges, ties and misses are what they are called.
ReportExact == ClosureChargesOnce /\ TieStatusExact /\ MissClassTellsRemedy
=============================================================================
