---------------------------- MODULE MCWebSocket ------------------------------
(***************************************************************************)
(* Instances for TLC: two clients, of which the first sends two requests,  *)
(* and a browser.                                                          *)
(***************************************************************************)
EXTENDS WebSocket

CONSTANTS k1, k2, a1, s1, a2, b1

ActionOfAll == [r \in {a1, s1, a2, b1} |-> IF r = s1 THEN "SELF" ELSE "AUTH"]

ClientOfAll == [r \in {a1, s1, a2, b1} |->
                  CASE r \in {a1, s1} -> k1 [] r = a2 -> k2 [] OTHER -> None]
=============================================================================
