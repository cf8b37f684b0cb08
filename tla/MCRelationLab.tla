--------------------------- MODULE MCRelationLab ---------------------------
(* The small instances of both parts.                                      *)
EXTENDS RelationLab, MCReview, MCRelationPackaging
=============================================================================
