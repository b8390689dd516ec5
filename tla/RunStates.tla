------------------------------ MODULE RunStates ------------------------------
(***************************************************************************)
(* The status vocabulary of the kernel: domain/states.py.  Every module    *)
(* that moves a Run or an Action uses these tables.                        *)
(***************************************************************************)

TerminalRun == {"succeeded", "failed", "cancelled", "expired"}

RunStatus ==
  {"queued", "running", "waiting_input", "blocked", "cancelling"} \cup TerminalRun

\* RUN_TRANSITIONS: the statuses a Run may move to from each status.
RunTransitions ==
  [s \in RunStatus |->
     CASE s = "queued"        -> {"running", "cancelling", "failed", "expired"}
       [] s = "running"       -> {"waiting_input", "blocked", "cancelling",
                                  "succeeded", "failed", "expired"}
       [] s = "waiting_input" -> {"queued", "blocked", "cancelling", "failed", "expired"}
       [] s = "blocked"       -> {"queued", "cancelling", "failed", "expired"}
       [] s = "cancelling"    -> {"cancelled", "blocked", "failed"}
       [] OTHER               -> {}]

\* require_run_transition: the guard of a transaction that moves a Run.
CanMove(old, new) == new \in RunTransitions[old]

\* The statuses a request for cancellation settles by itself.
Undispatched == {"proposed", "waiting_input", "ready"}

\* The statuses in which an external effect may have happened.
Uncertain == {"running", "waiting_external", "retry_wait", "outcome_unknown"}

TerminalAction == {"succeeded", "failed", "cancelled"}

ActionStatus == Undispatched \cup Uncertain \cup TerminalAction

AttemptStatus == {"started", "succeeded", "failed", "outcome_unknown"}

RequestStatus == {"none", "pending", "answered", "denied", "expired"}

\* The classes of effect a capability declares.
EffectSemantics == {"read_only", "local_transactional", "remote_idempotent", "unsafe"}
=============================================================================
