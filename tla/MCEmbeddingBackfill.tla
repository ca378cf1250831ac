------------------------- MODULE MCEmbeddingBackfill -------------------------
(***************************************************************************)
(* Model-checking instances of EmbeddingBackfill. Processes and writers are *)
(* interchangeable; records only where all or none of them exist at first.  *)
(***************************************************************************)
EXTENDS EmbeddingBackfill, TLC

Symmetry == Permutations(Proc) \cup Permutations(Writer)
=============================================================================
