-------------------------- MODULE MCConnectorLease --------------------------
(***************************************************************************)
(* Model-checking instances of ConnectorLease.                              *)
(***************************************************************************)
EXTENDS ConnectorLease
=============================================================================
