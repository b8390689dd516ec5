---------------------------- MODULE MCTurnContext ----------------------------
(* Small instances of TurnContext for TLC. *)
EXTENDS TurnContext
CONSTANTS w1, w2, t1, t2, c1, j1, j2

Limits == [view \in {"page", "stream"} |-> IF view = "page" THEN 1 ELSE 2]
=============================================================================
