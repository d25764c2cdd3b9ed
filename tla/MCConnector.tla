------------------------------ MODULE MCConnector -----------------------------
(* Instances for TLC: the constants are numbers, given by the configurations. *)
EXTENDS Connector
=============================================================================
