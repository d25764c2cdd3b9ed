--------------------------- MODULE MCAppController ---------------------------
(***************************************************************************)
(* Instances of the AppController for TLC: an authentication, two PIN      *)
(* changes and one of the two actions that never wait.                     *)
(***************************************************************************)
EXTENDS AppController

CONSTANTS a1, p1, p2, s1

ActionOfAll == [r \in {a1, p1, p2, s1} |->
                  CASE r = a1 -> "AUTH"
                    [] r \in {p1, p2} -> "PIN"
                    [] OTHER -> "REMOTE_SERVICE"]

ActionOfTwo == [r \in {a1, p1} |-> IF r = a1 THEN "AUTH" ELSE "PIN"]
=============================================================================
