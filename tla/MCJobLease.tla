------------------------------ MODULE MCJobLease ------------------------------
(* A small instance of JobLease for TLC. *)
EXTENDS JobLease, TLC
CONSTANTS w1, w2
Workers == Permutations(Worker)
=============================================================================
