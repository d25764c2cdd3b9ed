---------------------------- MODULE MCChangePin -----------------------------
(***************************************************************************)
(* Instances of the PIN change workflow for TLC.                           *)
(***************************************************************************)
EXTENDS ChangePinController, TLC

CONSTANTS c1, c2, r1, r2

(* The states the QML user interface leaves unapproved until the user has  *)
(* done something; every other state it approves on entry.                 *)
QmlHolds == {"SelectReader", "EnterPacePassword", "EnterNewPacePin",
             "UnfortunateCardPosition", "FinalState"}

CardSymmetry == Permutations(Cards)
=============================================================================
