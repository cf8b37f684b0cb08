--------------------------- MODULE MCEmbedService ---------------------------
(* Small instances of EmbedService: two paths of one segment each.         *)
EXTENDS EmbedService

(* The two serving dimensions: different storage, one paid source.         *)
Dim1024 == [index |-> "i1", canonical |-> "c1", source |-> "s1", storage |-> "v1024"]
Dim512  == [index |-> "i1", canonical |-> "c1", source |-> "s1", storage |-> "v512"]

MCBothDimensions == {Dim1024, Dim512}
MCOneDimension == {Dim1024}
MCRetired == {}
MCEnabled == [i \in {"i1"} |-> Paths]
MCChunks == [k \in Contents \X {"i1"} |-> <<"f">>]
MCLegacyStorage == {}
=============================================================================
