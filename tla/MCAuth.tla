------------------------------- MODULE MCAuth -------------------------------
(***************************************************************************)
(* Instances of the authentication for TLC.                                *)
(***************************************************************************)
EXTENDS AuthController

CONSTANTS c1, c2, r1

(* The states the QML user interface leaves unapproved until the user has  *)
(* done something.                                                         *)
QmlHolds == {"GetTcToken", "EditAccessRights", "SelectReader",
             "EnterPacePassword", "UnfortunateCardPosition", "ShowSelfInfo",
             "SendWhitelistSurvey", "FinalState"}
=============================================================================
