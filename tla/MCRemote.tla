------------------------------ MODULE MCRemote -------------------------------
(***************************************************************************)
(* Instances for TLC; the bounds are in the configurations.                *)
(***************************************************************************)
EXTENDS RemoteCard
=============================================================================
