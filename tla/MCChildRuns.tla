----------------------------- MODULE MCChildRuns -----------------------------
(* Small instances of ChildRuns for TLC. *)
EXTENDS ChildRuns, TLC
CONSTANTS c1, c2

Callers == Permutations(Caller)
=============================================================================
