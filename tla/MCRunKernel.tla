----------------------------- MODULE MCRunKernel -----------------------------
(* Small instances of RunKernel for TLC. *)
EXTENDS RunKernel
CONSTANTS a1, a2, q1

\* One action of each kind that has a recovery path of its own.
LocalAndRemote == [a \in Action |->
  IF a = a1 THEN "local_transactional" ELSE "remote_idempotent"]
=============================================================================
