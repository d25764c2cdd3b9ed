--------------------------- MODULE MCFileUpdates ---------------------------
(* A list, one picture, the update check; see file_updates.cfg.            *)
EXTENDS FileUpdates
=============================================================================
