--------------------------- MODULE MCResourceStore ---------------------------
(* A small instance of ResourceStore for TLC. *)
EXTENDS ResourceStore, TLC
CONSTANTS c1, c2, k1, k2, x1, x2, g1, f1
Symmetry == Permutations(Client) \cup Permutations(Key) \cup Permutations(Content)
=============================================================================
