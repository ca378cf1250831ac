--------------------------- MODULE MCSchemaCache ---------------------------
(***************************************************************************)
(* Model-checking instances of SchemaCache. Callers and labels start out    *)
(* alike and nothing orders them.                                           *)
(***************************************************************************)
EXTENDS SchemaCache, TLC

Symmetry == Permutations(Caller) \cup Permutations(Label)
=============================================================================
