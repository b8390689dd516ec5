----------------------------- MODULE MCTurnLoop -----------------------------
(* TurnLoop for TLC: the answers each run lets the provider give. *)
EXTENDS TurnLoop, TLC

Turns(n) == [d \in Dimension |-> CASE d = "model_turn" -> n [] OTHER -> 3]

\* Two turns, the second with less output left than it asks for.
MCLimit == Turns(2)
\* The output budget is what one turn asks for.
OneTurn == [Turns(2) EXCEPT !["output_tokens"] = 2]

Working == {<<"write", 1>>, <<"final", 1>>, <<"remote", 1>>, <<"unusable", 1>>}
Every == {<<"write", 1>>, <<"read", 1>>, <<"final", 1>>, <<"clarify", 1>>, <<"invalid", 1>>}
Writing == {<<"write", 1>>}
Reading == {<<"read", 1>>}
Asking == {<<"clarify", 1>>, <<"write", 1>>, <<"final", 1>>}
\* Room for a question, a write and two more turns.
FourTurns == [d \in Dimension |-> CASE d = "model_turn" -> 4 [] OTHER -> 8]

\* The workers are alike.
Workers == Permutations(Worker)
=============================================================================
