--------------------------- MODULE MCIndexService ---------------------------
(* Small instances of IndexService: two indexers, two paths.               *)
EXTENDS IndexService, TLC

IndexerSymmetry == Permutations(Indexers)

Cfg(i, c, s, v) == [index |-> i, canonical |-> c, source |-> s, storage |-> v]

(* A database of the previous release, its current equivalent, and one     *)
(* change each of the index, the canonical-text and the source profile.    *)
Legacy   == Cfg("i1", "c1", "s1", "old")
Current  == Cfg("i1", "c1", "s1", "new")
Reshaped == Cfg("i2", "c1", "s1", "new")
Reworded == Cfg("i1", "c2", "s1", "new")
Resold   == Cfg("i1", "c1", "s2", "other")

MCRetired == {Legacy}
MCNoRetired == {}
MCProfileConfigs == {Legacy, Current, Reworded, Resold}
MCTwoConfigs == {Reshaped, Reworded}

(* Profile i2 segments small content "a" differently and drops path "q".   *)
MCEnabled == [i \in {"i1", "i2"} |-> IF i = "i1" THEN Paths ELSE {"p"}]
MCChunks ==
  [k \in Contents \X {"i1", "i2"} |->
     IF k[1] = "a" THEN IF k[2] = "i1" THEN <<"f">> ELSE <<"f1", "f2">>
     ELSE IF k[1] = "b" THEN <<"f", "g">> ELSE <<>>]

(* The vector-space records of old and new differ only in their field      *)
(* names; old and other differ in the source profile as well.              *)
MCLegacyStorage == {<<"old", "new">>, <<"old", "other">>}
=============================================================================
