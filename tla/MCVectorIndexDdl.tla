--------------------------- MODULE MCVectorIndexDdl ---------------------------
(* Model-checking instances of VectorIndexDdl.                              *)
EXTENDS VectorIndexDdl, TLC
=============================================================================
