------------------------------ MODULE MCMcpTask ------------------------------
(* Small instances of McpTask for TLC. *)
EXTENDS McpTask
CONSTANTS a1, c1, c2

Unsafe  == [a \in Action |-> "unsafe"]
Callers == Permutations(Thread)
=============================================================================
