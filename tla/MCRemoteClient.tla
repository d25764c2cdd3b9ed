--------------------------- MODULE MCRemoteClient ----------------------------
(***************************************************************************)
(* Instances of the client's connections for TLC.                          *)
(***************************************************************************)
EXTENDS RemoteClient
=============================================================================
