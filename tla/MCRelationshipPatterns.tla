----------------------- MODULE MCRelationshipPatterns -----------------------
(***************************************************************************)
(* Model-checking instances of RelationshipPatterns. Patterns, and writes,  *)
(* are interchangeable.                                                     *)
(***************************************************************************)
EXTENDS RelationshipPatterns, TLC

Symmetry == Permutations(Pattern) \cup Permutations(Write)
=============================================================================
