----------------------- MODULE MCRelationshipAnalysis -----------------------
(***************************************************************************)
(* Model-checking instances of RelationshipAnalysis.                        *)
(***************************************************************************)
EXTENDS RelationshipAnalysis
=============================================================================
