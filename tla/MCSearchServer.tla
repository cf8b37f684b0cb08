--------------------------- MODULE MCSearchServer ---------------------------
(* Small instances of the three parts of SearchServer: three paid or       *)
(* serving spaces for a search, four chunks of two files to rank, and one  *)
(* configuration over two files with two contents for the tools.           *)
EXTENDS SearchServer

Dim1024 == [index |-> "i1", canonical |-> "c1", source |-> "s1", storage |-> "v1024"]
Dim512  == [index |-> "i1", canonical |-> "c1", source |-> "s1", storage |-> "v512"]
Other   == [index |-> "i1", canonical |-> "c1", source |-> "s2", storage |-> "other"]

MCConfigs == {Dim1024, Dim512, Other}
MCRetired == {}
MCEnabled == [i \in {"i1"} |-> Paths]
MCChunks == [k \in Contents \X {"i1"} |-> IF k[1] = "a" THEN <<"f">> ELSE <<>>]
MCLegacyStorage == {}
MCTablesFound == [Paths -> {"a", Absent}]
MCToolConfigs == {Dim1024}
MCLongContents == {"b"}

-----------------------------------------------------------------------------
(* Two chunks of one input, one with two segments; RRFK = 7, where the     *)
(* sums of up to three floating-point reciprocals of ranks up to 4 do not  *)
(* depend on their order, so that exact sums tie when the code's do.       *)
Name(at, raw, norm) == [at |-> at, raw |-> raw, norm |-> norm]
C(id, path, start, symbol, qualified, words, size, parts) ==
  [id |-> id, path |-> path, start |-> start, symbol |-> symbol, qualified |-> qualified,
   words |-> words, size |-> size, segments |-> parts]
G(id, input, from, to) == [id |-> id, input |-> input, from |-> from, to |-> to]
MCSearchChunks ==
  {C(1, 1, 0, Name(0, "Run", <<"run">>), Name(3, "srv.Run", <<"srv", "run">>), {"srv", "run", "loop"}, 4,
     {G(1, "i1", 0, 2), G(2, "i2", 2, 3)}),
   C(2, 1, 4, Name(0, "Stop", <<"stop">>), Name(1, "srv.Stop", <<"srv", "stop">>), {"srv", "stop", "loop"}, 3, {G(3, "i2", 0, 2)}),
   C(3, 2, 0, Name(0, "Run", <<"run">>), Name(2, "cli.Run", <<"cli", "run">>), {"cli", "run"}, 2, {G(4, "i3", 0, 1)}),
   C(4, 2, 2, Name(0, "Loop", <<"loop">>), Name(4, "cli.Loop", <<"cli", "loop">>), {"cli", "loop", "go"}, 3, {G(5, "i1", 0, 1)})}
MCPathEvidence ==
  <<("cmd/srv.go" :> {1, 3}) @@ ("srv.go" :> {2, 3}) @@ ("cmd/" :> {3}),
    ("cmd/srv.go" :> {}) @@ ("srv.go" :> {}) @@ ("cmd/" :> {3})>>
F(raw, tokens, features) == [raw |-> raw, tokens |-> tokens, features |-> features]
Q(fragments) == [malformed |-> FALSE, longToken |-> FALSE, fragments |-> fragments]
Run == F("Run", <<"run">>, {"upper first"})
SrvRun == F("srv.Run", <<"srv", "run">>, {"separator", "upper inside"})
Loop == F("loop", <<"loop">>, {})
Queries ==
  {Q(<<Run>>), Q(<<Loop>>), Q(<<SrvRun, Loop>>), Q(<<Run, Loop, F("cli", <<"cli">>, {})>>),
   Q(<<F("RUN", <<"run">>, {"upper first", "upper inside"}), SrvRun, F("X", <<"x">>, {"upper first", "one letter"})>>),
   Q(<<F("cmd/", <<"cmd">>, {"slash"}), F("srv.go", <<"srv", "go">>, {"extension", "separator"}), Run>>),
   Q(<<F("cmd/srv.go", <<"cmd", "srv", "go">>, {"slash", "extension", "separator"})>>)}
Unfit == {Q(<<>>), [Q(<<Run>>) EXCEPT !.malformed = TRUE], [Q(<<Run>>) EXCEPT !.longToken = TRUE],
          Q(<<SrvRun, SrvRun, SrvRun, Loop>>)}
R(q, mode, k, budget) == [query |-> q, mode |-> mode, k |-> k, budget |-> budget]
MCRequests ==
  {R(q, m, k, b) : q \in Queries, m \in {"fts", ""}, k \in {0, 3}, b \in {0, 3, 5, 9}}
    \cup {R(q, "fts", 0, 0) : q \in Unfit}
    \cup {R(Q(<<Run>>), "vector", 0, 0), R(Q(<<Run>>), "fts", 4, 0), R(Q(<<Run>>), "fts", 0, 0 - 1)}
BM25s == {<<1, 1, 2, 2>>, <<2, 1, 1, 1>>, <<1, 1, 2, 1>>, <<1, 2, 2, 1>>}
MCSnapshots ==
  {[bm25 |-> b, vectors |-> v, orphan |-> FALSE] : b \in BM25s, v \in [{"i1", "i2", "i3"} -> 0..2]}
    \cup {[bm25 |-> <<1, 1, 1, 1>>, vectors |-> [i \in {"i1", "i2", "i3"} |-> 1], orphan |-> TRUE]}
=============================================================================
