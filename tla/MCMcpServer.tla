---------------------------- MODULE MCMcpServer ----------------------------
(* Small instances of McpServer: ids and workers are interchangeable.      *)
EXTENDS McpServer, TLC

McpSymmetry == Permutations(Ids) \cup Permutations(Workers)
=============================================================================
