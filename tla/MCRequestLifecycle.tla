-------------------------- MODULE MCRequestLifecycle --------------------------
(* Model-checking instances of RequestLifecycle.                            *)
EXTENDS RequestLifecycle, TLC
=============================================================================
