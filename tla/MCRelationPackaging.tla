------------------------ MODULE MCRelationPackaging ------------------------
(* Parents 1, 2 and 3 are dense hits and can be anchors, 1 and 2 are        *)
(* protected; 4 and 5 are reached in the graph, 6 only has a score.  A      *)
(* bucket holds two edges, as in the code.                                  *)
EXTENDS RelationPackaging

O(id, source, target, kind, zone, fileRole, byte) ==
    [id |-> id, source |-> source, target |-> target, kind |-> kind, zone |-> zone,
     role |-> IF kind = "CALLS" THEN "CALL_METHOD" ELSE "TYPE_PARAMETER",
     flow |-> IF byte = 1 THEN "RETURN" ELSE "NONE", fileRole |-> fileRole,
     context |-> IF byte = 1 THEN {"b"} ELSE {}, ordinal |-> 1, byte |-> byte]
Pool ==
    {O(1, 1, 3, "CALLS", "BODY", "PRODUCTION", 1), O(2, 1, 3, "CALLS", "BODY", "TEST", 2),
     O(3, 1, 4, "CALLS", "BODY", "PRODUCTION", 3), O(4, 1, 2, "CALLS", "BODY", "PRODUCTION", 4),
     O(5, 1, 5, "CALLS", "BODY", "PRODUCTION", 4), O(6, 5, 2, "CALLS", "BODY", "PRODUCTION", 1),
     O(7, 3, 5, "CALLS", "BODY", "PRODUCTION", 2), O(8, 2, 4, "TYPE_REF", "SIGNATURE", "PRODUCTION", 1),
     O(9, 1, 4, "TYPE_REF", "SIGNATURE", "PRODUCTION", 5), O(10, 1, 5, "TYPE_REF", "TYPE_BODY", "EXAMPLE", 6),
     O(11, 3, 5, "TYPE_REF", "INITIALIZER", "PRODUCTION", 3), O(12, 4, 2, "CALLS", "BODY", "PRODUCTION", 1)}
MCGraphs == {g \in SUBSET Pool : Cardinality(g) \in {0, 1, 2, 5}}
MCTokens == <<{"a", "b"}, {"b"}, {"a"}, {"c"}, {"a"}, {}>>
MCTraits == [p \in 1..6 |-> [path |-> <<1, 2, 3, 1, 4, 1>>[p], symbol |-> <<1, 2, 3, 5, 4, 6>>[p], deprecated |-> p = 4,
                             bytes |-> IF p \in {4, 5} THEN 2 ELSE 1, disclosure |-> IF p = 5 THEN 2 ELSE 1,
                             production |-> TRUE, walkXFF |-> p = 5]]
Q(direction, tokens, roles, intents) ==
    [direction |-> direction, tokens |-> tokens, anchorTokens |-> tokens, roles |-> roles, intents |-> intents]
MCQueries == {Q("FORWARD", {"b", "c"}, {}, {"signature", "value-parameter", "return"}), Q("REVERSE", {"a"}, {"TEST"}, {"deprecated"})}
MCRankings == {<<1, 2, 3>>}
MCLanes == <<<<2, 1, 3>>, <<4, 2, 1>>>>
MCPolicies == FrontierPolicies \cup AnchorEdgePolicies \cup {"dense-first", "value-parameter-dense-first", "graph-first"}
MCLabels == {[groups |-> <<{{{1}}}, {{{3}}, {{4}, {5}}}>>, hard |-> {5}, grades |-> (4 :> "GRADE_2")],
             [groups |-> <<{{{5}}}, {{{4, 3}}}>>, hard |-> {}, grades |-> (3 :> "GRADE_1")]}

R(p, s) == [parent |-> p, score |-> s]
MCSegments ==
    {<<R(1, 9), R(2, 8), R(3, 7), R(4, 6), R(5, 5), R(6, 4)>>,
     <<R(1, 9), R(2, 8), R(3, 8), R(5, 8), R(4, 1), R(6, 1)>>,
     <<R(4, 2), R(1, 9), R(2, 9), R(3, 5), R(4, 5), R(1, 9), R(6, 1)>>}
MCUnits ==
    {[primary |-> <<1, 2>>, groups |-> <<{1}, {4}>>, grades |-> (6 :> 0 @@ 4 :> 2)],
     [primary |-> <<1, 2>>, groups |-> <<{5}>>, grades |-> (5 :> 2 @@ 3 :> 0 @@ 4 :> 1)],
     [primary |-> <<1, 2>>, groups |-> <<{2}, {3}, {4, 6}>>, grades |-> (3 :> 2)],
     [primary |-> <<2, 1>>, groups |-> <<{5}>>, grades |-> (5 :> 0)]}
MCContracts ==
    {[counts |-> {1, 2}, siblingBytes |-> {1, 3}, sibling |-> <<2, 3>>, files |-> {1, 2}, hopBytes |-> {1, 3}, oneHop |-> <<2, 3>>,
      gates |-> [sibling |-> {"q"}, nearby |-> {"q"}, limitation |-> {}, minSibling |-> 1, minNearby |-> 1]]}
=============================================================================
