------------------------ MODULE MCUserTransactions ------------------------
(* Small instances of UserTransactions for TLC: no symmetry, as the run    *)
(* checks liveness.                                                        *)
EXTENDS UserTransactions, TLC
===========================================================================
