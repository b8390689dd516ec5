--------------------------- MODULE MCEffectRecovery ---------------------------
(* Small instances of EffectRecovery for TLC. *)
EXTENDS EffectRecovery
CONSTANTS a1, a2, c1, c2

UnsafeAndRemote == [a \in Action |-> IF a = a1 THEN "unsafe" ELSE "remote_idempotent"]
Callers == Permutations(Caller)

\* Bound: the Run admits one of the two actions.
OneAdmitted == \E a \in Action : \A b \in Action \ {a} : action[b] = "none"
OneSpec == EInit /\ [][ENext /\ OneAdmitted']_recoveryVars
=============================================================================
