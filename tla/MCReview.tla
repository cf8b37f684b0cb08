------------------------------ MODULE MCReview ------------------------------
(* One query with a protected parent "p" and a target "t" that two parent     *)
(* identities share, in a grid of two closure cells and one hint cell.        *)
EXTENDS Review

MCBodies == [p |-> "body-p", t |-> "body-t", t2 |-> "body-t"]
Row(q, target, omission, counts, sizes, bytes) ==
    [query |-> q, source |-> "p", target |-> target, omission |-> omission,
     counts |-> counts, sizes |-> sizes, bytes |-> bytes]
Accepted ==
    [corpus |-> "corpus", language |-> "go", checksum |-> "accepted", verified |-> TRUE, traces |-> {"q"},
     features |-> {},
     hints |-> {Row("q", "t", "NO_BUDGET", {}, {}, 1)},
     closures |-> {Row("q", "t", "", {1, 2}, {1, 2}, 1), Row("q", "t2", "", {2}, {2}, 1)}]
MCCompletions == [accepted |-> Accepted, replayed |-> [Accepted EXCEPT !.checksum = "replayed"]]
MCContract ==
    [members |-> {[corpus |-> "corpus", checksum |-> "accepted", queries |-> 1]},
     queries |-> 1, features |-> 0, hints |-> 1, closures |-> 2]
MCCells == {[family |-> "closure", count |-> 1, bytes |-> 1], [family |-> "closure", count |-> 2, bytes |-> 2],
            [family |-> "hint", count |-> 1, bytes |-> 1]}
Draft(text, groups) == [q \in {"q"} |-> [text |-> text, protected |-> {"p"}, groups |-> groups, cohorts |-> {"cross-file"}]]
MCInputs == [i1 |-> Draft("a", [g1 |-> {"t"}, g2 |-> {"p"}]), i2 |-> Draft("a", [g1 |-> {"t"}])]
ASSUME ProtectedBodiesDiffer

G(grade, groups) == [grade |-> grade, groups |-> groups, hard |-> FALSE, hardGroups |-> {}, reason |-> ""]
Hard(groups) == [grade |-> 0, groups |-> {}, hard |-> TRUE, hardGroups |-> groups, reason |-> "decoy"]
\* An adjudicator drops or keeps what is contested.
MCRulings == {G(0, {}), G(2, {"g1"})}
Grading(p, t, closure, hint) ==
    [id \in {<<"q", "body-p">>, <<"q", "body-t">>, <<"hint", "q", "p", "t">>,
             <<"closure", "q", "p", "t">>, <<"closure", "q", "p", "t2">>} |->
        CASE id = <<"q", "body-p">> -> p [] id = <<"q", "body-t">> -> t [] id[1] = "hint" -> hint [] OTHER -> closure]
MCGradings == {Grading(G(2, {"g1"}), G(2, {"g1"}), G(2, {"g1"}), G(1, {})),
               Grading(Hard({"g1"}), G(1, {}), G(1, {}), G(1, {}))}
R1 == [id |-> "r1", family |-> "m1"]
MCReviewers == [p \in Passes |-> IF p = "pass-1" THEN {R1} ELSE {R1, [id |-> "r2", family |-> "m2"]}]
=============================================================================
