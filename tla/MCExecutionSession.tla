------------------------- MODULE MCExecutionSession -------------------------
(* A small instance of ExecutionSession for TLC. *)
EXTENDS ExecutionSession, TLC
CONSTANTS t1, t2, p1, p2, a1, a2
Symmetry == Permutations(Thread) \cup Permutations(Process) \cup Permutations(Action)
=============================================================================
