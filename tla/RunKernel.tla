------------------------------ MODULE RunKernel ------------------------------
(***************************************************************************)
(* The kernel that owns one Run: application/run_controller.py.  Each      *)
(* controller method is one database transaction that locks the rows it    *)
(* decides on, so each is one action here, its guard the conditions under  *)
(* which the method commits.  A method that raises rolls back and is a     *)
(* stuttering step.  The callers (workers, HTTP handlers, the recovery     *)
(* coordinator) may issue any transaction at any time; modules that EXTEND *)
(* this one restrict who issues which.                                     *)
(***************************************************************************)
EXTENDS RunStates, Naturals, Sequences, SequencesExt

CONSTANTS
  Action,       \* the action slots (turn, call_index) of the Run
  Question,     \* the clarifications the Run may ask, by request hash
  Semantics,    \* the effect semantics of each action
  MaxEpoch,     \* bound: lease epochs a claimed job may carry; 0 is "no lease"
  MaxAttempts,  \* bound: dispatch attempts per action
  MaxVersion,   \* bound: the version of an action
  MaxJobs       \* bound: rows of the job table

ASSUME SemanticsAssumption == Semantics \in [Action -> EffectSemantics]
ASSUME RequestAssumption   == Action \cap Question = {}
ASSUME BoundsAssumption    == /\ MaxEpoch \in Nat /\ MaxAttempts \in Nat
                              /\ MaxVersion \in Nat /\ MaxJobs \in Nat \ {0}

VARIABLES
  run,        \* status of the Run
  intent,     \* a run.cancellation_requested event is in the log
  children,   \* some child Run is not terminal
  action,     \* status of each action; "none" before it is admitted
  version,    \* version of each action
  epoch,      \* lease epoch of the last dispatch of each action
  attempts,   \* the attempt rows of each action, oldest first
  request,    \* status of the latest input request of an action or question
  overdue,    \* the input requests whose expires_at has passed
  ledger,     \* local effects whose idempotency receipt is committed
  jobs        \* the job rows of the Run, oldest first

actionVars == <<action, version, epoch, attempts>>
vars == <<run, intent, children, action, version, epoch, attempts,
          request, overdue, ledger, jobs>>

Request  == Action \cup Question
JobKind  == {"advance_run", "cancel_run"}
JobStatus == {"ready", "leased", "done"}
Job      == [kind : JobKind, status : JobStatus]
NewJob(kind) == [kind |-> kind, status |-> "ready"]

-----------------------------------------------------------------------------
(* Predicates the transactions read *)

\* _has_unresolved_actions
HasUnresolved(act) == \E a \in Action : act[a] \notin TerminalAction \cup {"none"}

\* _has_uncertain_effects
HasUncertain(act) == \E a \in Action : act[a] \in Uncertain

\* _latest_attempt_locked: the latest attempt exists and has this status.
LatestIs(a, status) == attempts[a] # <<>> /\ Last(attempts[a]) = status

\* LEASE_REPLAYABLE_LOCAL_CAPABILITIES: a local effect with a stable key.
Replayable(a) == Semantics[a] = "local_transactional"

(* Updates the transactions make *)

\* The bulk UPDATE that settles what was never dispatched (no version bump).
SettleUndispatched ==
  [a \in Action |-> IF action[a] \in Undispatched THEN "cancelled" ELSE action[a]]

Move(new)     == CanMove(run, new) /\ run' = new
SetAction(a, s) ==
  /\ version[a] < MaxVersion
  /\ action' = [action EXCEPT ![a] = s]
  /\ version' = [version EXCEPT ![a] = @ + 1]
Enqueue(kind) == Len(jobs) < MaxJobs /\ jobs' = Append(jobs, NewJob(kind))
RetireReady   == jobs' = [i \in DOMAIN jobs |->
                            IF jobs[i].status = "ready"
                            THEN [jobs[i] EXCEPT !.status = "done"] ELSE jobs[i]]
SettleAttempt(a, s) ==
  attempts' = [attempts EXCEPT ![a] = [@ EXCEPT ![Len(@)] = s]]

\* Start an attempt under lease epoch e.
StartAttempt(a, e, earlier) ==
  /\ Len(attempts[a]) < MaxAttempts
  /\ SetAction(a, "running")
  /\ epoch' = [epoch EXCEPT ![a] = e]
  /\ attempts' = [attempts EXCEPT ![a] = Append(earlier, "started")]
  /\ UNCHANGED <<run, intent, children, request, overdue, ledger, jobs>>

\* The Run and, for an approval, its action wait for one request.
Ask(r) ==
  /\ Move("waiting_input")
  /\ request' = [request EXCEPT ![r] = "pending"]
  /\ overdue' = overdue \ {r}
  /\ UNCHANGED <<intent, children, epoch, attempts, ledger, jobs>>

-----------------------------------------------------------------------------
(* Mutants: plausible mistakes in the transactions below, which the checked *)
(* properties tell from the code.                                           *)

\* The status of the action is written to the row of its attempt.
MarkRetryWait_SettlesWrong(a) ==
  /\ action[a] = "running" /\ Semantics[a] = "remote_idempotent"
  /\ LatestIs(a, "started")
  /\ SetAction(a, "retry_wait") /\ SettleAttempt(a, "retry_wait")
  /\ UNCHANGED <<run, intent, children, epoch, request, overdue, ledger, jobs>>

\* The attempt is left open.
MarkRetryWait_LeavesOpen(a) ==
  /\ action[a] = "running" /\ Semantics[a] = "remote_idempotent"
  /\ LatestIs(a, "started") /\ SetAction(a, "retry_wait")
  /\ UNCHANGED <<run, intent, children, epoch, attempts, request, overdue, ledger, jobs>>

\* The attempt of the lease that was lost is not settled.
ReclaimLocal_LeavesOpen(a, e) ==
  /\ action[a] = "running" /\ Replayable(a) /\ epoch[a] < e /\ epoch[a] > 0
  /\ run = "running" /\ LatestIs(a, "started")
  /\ StartAttempt(a, e, attempts[a])

\* The status of the action is not part of the guard.
BeginRetry_AnyStatus(a) ==
  /\ action[a] \in {"retry_wait", "running"} /\ Semantics[a] = "remote_idempotent"
  /\ run = "running" /\ StartAttempt(a, epoch[a], attempts[a])

\* A receipt that an action stopped cancels the Run at once.
CancelReceipt_EndsRun(a, stopped) ==
  /\ action[a] # "none" /\ run = "cancelling"
  /\ SetAction(a, IF stopped THEN "cancelled" ELSE "waiting_external")
  /\ IF stopped /\ ~children THEN run' = "cancelled" ELSE UNCHANGED run
  /\ UNCHANGED <<intent, children, epoch, attempts, request, overdue, ledger, jobs>>

\* The live children are not counted.
EndRun_IgnoresChildren(status) ==
  /\ Move(status) /\ RetireReady
  /\ UNCHANGED <<intent, children, actionVars, request, overdue, ledger>>

\* The Run is queued without a wakeup, or whatever it was doing; or the action
\* is made ready although the Run is cancelling.
Reconcile_NoWakeup(a, v, resolution) ==
  /\ version[a] = v /\ action[a] \in {"outcome_unknown", "waiting_external"}
  /\ SetAction(a, "ready") /\ run = "blocked" /\ run' = "queued"
  /\ UNCHANGED <<intent, children, epoch, attempts, request, overdue, ledger, jobs>>

Reconcile_AlwaysQueues(a, v, resolution) ==
  /\ version[a] = v /\ action[a] \in {"outcome_unknown", "waiting_external"}
  /\ SetAction(a, "succeeded") /\ run' = "queued" /\ Enqueue("advance_run")
  /\ UNCHANGED <<intent, children, epoch, attempts, request, overdue, ledger>>

Reconcile_IgnoresCancelling(a, v, resolution) ==
  /\ version[a] = v /\ action[a] \in {"outcome_unknown", "waiting_external"}
  /\ SetAction(a, IF resolution = "confirmed_applied" THEN "succeeded" ELSE "ready")
  /\ UNCHANGED <<run, intent, children, epoch, attempts, request, overdue, ledger, jobs>>

\* A denial returns the Run to the queue, as an answer does.
RespondDeny_Requeues(a) ==
  /\ request[a] = "pending" /\ a \notin overdue /\ run = "waiting_input"
  /\ request' = [request EXCEPT ![a] = "denied"]
  /\ SetAction(a, "cancelled") /\ Move("queued") /\ Enqueue("advance_run")
  /\ UNCHANGED <<intent, children, epoch, attempts, overdue, ledger>>

\* An answer is stored and the Run keeps waiting.
RespondAnswer_LeavesRun(r) ==
  /\ request[r] = "pending" /\ r \notin overdue /\ run = "waiting_input"
  /\ request' = [request EXCEPT ![r] = "answered"]
  /\ UNCHANGED <<run, intent, children, actionVars, overdue, ledger, jobs>>

-----------------------------------------------------------------------------
(* Admission *)

\* admit_run: the Run row and its first wakeup are committed together.
Init ==
  /\ run = "queued" /\ intent = FALSE /\ children = FALSE
  /\ action = [a \in Action |-> "none"]
  /\ version = [a \in Action |-> 0]
  /\ epoch = [a \in Action |-> 0]
  /\ attempts = [a \in Action |-> <<>>]
  /\ request = [r \in Request |-> "none"]
  /\ overdue = {} /\ ledger = {}
  /\ jobs = <<NewJob("advance_run")>>

\* admit_child_run: a live Run may admit a child.
AdmitChild ==
  /\ run \in {"queued", "running"}
  /\ children' = TRUE
  /\ UNCHANGED <<run, intent, actionVars, request, overdue, ledger, jobs>>

\* The last live child reaches a terminal status.
ChildrenSettle ==
  /\ children /\ children' = FALSE
  /\ UNCHANGED <<run, intent, actionVars, request, overdue, ledger, jobs>>

\* get_or_record_admitted_action: a new slot; an existing one is returned.
AdmitAction(a) ==
  /\ action[a] = "none" /\ run \in {"queued", "running"}
  /\ action' = [action EXCEPT ![a] = "ready"]
  /\ UNCHANGED <<run, intent, children, version, epoch, attempts,
                 request, overdue, ledger, jobs>>

EnsureRunning ==
  /\ run = "queued" /\ Move("running")
  /\ UNCHANGED <<intent, children, actionVars, request, overdue, ledger, jobs>>

-----------------------------------------------------------------------------
(* Dispatch and its outcomes *)

\* begin_action_dispatch of a ready action.
BeginDispatch(a, e) ==
  /\ action[a] = "ready" /\ run = "running"
  /\ StartAttempt(a, e, attempts[a])

\* begin_action_dispatch with recovering_local: a later lease takes over a
\* local effect whose receipt was never committed.
ReclaimLocal(a, e) ==
  /\ action[a] = "running" /\ Replayable(a)
  /\ epoch[a] < e /\ epoch[a] > 0
  /\ run = "running"
  /\ LatestIs(a, "started")
  /\ StartAttempt(a, e, [attempts[a] EXCEPT ![Len(attempts[a])] = "outcome_unknown"])

\* The resource service commits a local effect under the key action:{id};
\* it holds no lease, so it may do so long after the attempt started.
LocalEffect(a) ==
  /\ Replayable(a) /\ epoch[a] > 0 /\ attempts[a] # <<>>
  /\ ledger' = ledger \cup {a}
  /\ UNCHANGED <<run, intent, children, actionVars, request, overdue, jobs>>

\* complete_action: no condition on the Run, a late result is still a result.
CompleteAction(a, ok, e) ==
  /\ action[a] = "running" /\ (e = 0 \/ epoch[a] = e)
  /\ LatestIs(a, "started")
  /\ LET s == IF ok THEN "succeeded" ELSE "failed"
     IN  SetAction(a, s) /\ SettleAttempt(a, s)
  /\ UNCHANGED <<run, intent, children, epoch, request, overdue, ledger, jobs>>

MarkOutcomeUnknown(a) ==
  /\ action[a] = "running" /\ LatestIs(a, "started")
  /\ SetAction(a, "outcome_unknown") /\ SettleAttempt(a, "outcome_unknown")
  /\ IF run = "blocked" THEN UNCHANGED run ELSE Move("blocked")
  /\ UNCHANGED <<intent, children, epoch, request, overdue, ledger, jobs>>

MarkRetryWait(a) ==
  /\ action[a] = "running" /\ Semantics[a] = "remote_idempotent"
  /\ LatestIs(a, "started")
  /\ SetAction(a, "retry_wait") /\ SettleAttempt(a, "outcome_unknown")
  /\ UNCHANGED <<run, intent, children, epoch, request, overdue, ledger, jobs>>

BeginRetry(a) ==
  /\ action[a] = "retry_wait" /\ Semantics[a] = "remote_idempotent"
  /\ run = "running" /\ LatestIs(a, "outcome_unknown")
  /\ StartAttempt(a, epoch[a], attempts[a])

-----------------------------------------------------------------------------
(* Input requests *)

\* request_approval: a pending request of the action is returned as it is.
RequestApproval(a) ==
  /\ request[a] # "pending" /\ action[a] = "ready" /\ run = "running"
  /\ SetAction(a, "waiting_input")
  /\ Ask(a)

\* request_clarification: one request per (run, request_hash), ever.
RequestClarification(q) ==
  /\ request[q] = "none" /\ run = "running"
  /\ Ask(q)
  /\ UNCHANGED <<action, version>>

\* expires_at of a request passes (it also bounds an answered approval).
TimePasses(r) ==
  /\ request[r] \in {"pending", "answered"} /\ r \notin overdue
  /\ overdue' = overdue \cup {r}
  /\ UNCHANGED <<run, intent, children, actionVars, request, ledger, jobs>>

\* respond_to_input after expires_at: only the request changes.
RespondExpired(r) ==
  /\ request[r] = "pending" /\ r \in overdue
  /\ request' = [request EXCEPT ![r] = "expired"]
  /\ UNCHANGED <<run, intent, children, actionVars, overdue, ledger, jobs>>

\* respond_to_input with "approve" (an action) or "submit" (a question).
RespondAnswer(r) ==
  /\ request[r] = "pending" /\ r \notin overdue /\ run = "waiting_input"
  /\ request' = [request EXCEPT ![r] = "answered"]
  /\ IF r \in Action THEN SetAction(r, "ready") ELSE UNCHANGED <<action, version>>
  /\ Move("queued") /\ Enqueue("advance_run")
  /\ UNCHANGED <<intent, children, epoch, attempts, overdue, ledger>>

\* respond_to_input with "deny": only an approval can be denied.
RespondDeny(a) ==
  /\ request[a] = "pending" /\ a \notin overdue /\ run = "waiting_input"
  /\ request' = [request EXCEPT ![a] = "denied"]
  /\ SetAction(a, "cancelled")
  /\ Move("failed") /\ ~children
  /\ UNCHANGED <<intent, children, epoch, attempts, overdue, ledger, jobs>>

-----------------------------------------------------------------------------
(* Reconciliation and cancellation *)

Resolution == {"confirmed_applied", "confirmed_not_applied", "confirmed_stopped"}

ResolvedStatus(resolution) ==
  CASE resolution = "confirmed_applied" -> "succeeded"
    [] resolution = "confirmed_not_applied" /\ run # "cancelling" -> "ready"
    [] OTHER -> "cancelled"

\* The Run is cancelled by the transaction that settles its last action.
CancelIfSettled ==
  run' = IF HasUnresolved(action') \/ children THEN run ELSE "cancelled"

\* reconcile_action with expected_version v.
Reconcile(a, v, resolution) ==
  /\ version[a] = v /\ action[a] \in {"outcome_unknown", "waiting_external"}
  /\ SetAction(a, ResolvedStatus(resolution))
  /\ CASE run = "blocked"    -> run' = "queued" /\ Enqueue("advance_run")
       [] run = "cancelling" -> CancelIfSettled /\ UNCHANGED jobs
       [] OTHER              -> UNCHANGED <<run, jobs>>
  /\ UNCHANGED <<intent, children, epoch, attempts, request, overdue, ledger>>

\* record_action_cancel_receipt: no condition on the status of the action.
CancelReceipt(a, stopped) ==
  /\ action[a] # "none" /\ run = "cancelling"
  /\ SetAction(a, IF stopped THEN "cancelled" ELSE "waiting_external")
  /\ IF stopped THEN CancelIfSettled ELSE UNCHANGED run
  /\ UNCHANGED <<intent, children, epoch, attempts, request, overdue, ledger, jobs>>

\* request_cancellation; on a cancelling Run it only stores the replay record.
\* Children are told to cancel in the same transaction and stay live.
RequestCancellation ==
  /\ Move("cancelling")
  /\ intent' = TRUE
  /\ action' = SettleUndispatched
  /\ Enqueue("cancel_run")
  /\ UNCHANGED <<children, version, epoch, attempts, request, overdue, ledger>>

FinalizeCancellation ==
  /\ run = "cancelling" /\ ~HasUnresolved(action) /\ ~children
  /\ Move("cancelled") /\ RetireReady
  /\ UNCHANGED <<intent, children, actionVars, request, overdue, ledger>>

\* reconcile_local_action_for_cancellation: the receipt proves the effect.
ReconcileLocal(a) ==
  /\ action[a] = "running" /\ Replayable(a) /\ epoch[a] > 0
  /\ run = "cancelling" /\ a \in ledger /\ LatestIs(a, "started")
  /\ SetAction(a, "succeeded") /\ SettleAttempt(a, "succeeded")
  /\ UNCHANGED <<run, intent, children, epoch, request, overdue, ledger, jobs>>

-----------------------------------------------------------------------------
(* The ends of a Run *)

\* A terminal transition of the Run, which retires its ready wakeups.
EndRun(status) ==
  /\ Move(status) /\ ~children /\ RetireReady
  /\ UNCHANGED <<intent, children, actionVars, request, overdue, ledger>>

BlockRun ==
  /\ Move("blocked")
  /\ UNCHANGED <<intent, children, actionVars, request, overdue, ledger, jobs>>

FailRun == EndRun("failed")

\* record_completion with verified evidence.
RecordCompletion == EndRun("succeeded")

FinishImplicit(ok) == EndRun(IF ok THEN "succeeded" ELSE "failed")

\* terminate_run: no new work, but an uncertain effect keeps the Run open.
TerminateRun ==
  /\ run \notin TerminalRun
  /\ action' = SettleUndispatched
  /\ IF HasUncertain(action) THEN Move("blocked") ELSE Move("failed") /\ ~children
  /\ RetireReady
  /\ UNCHANGED <<intent, children, version, epoch, attempts, request, overdue, ledger>>

-----------------------------------------------------------------------------
\* ActionGateway.execute refuses to dispatch any other effect under a lease.
LeaseSafe(a) == Semantics[a] \in {"read_only", "local_transactional"}
Epochs(a) == IF LeaseSafe(a) THEN 0..MaxEpoch ELSE {0}

ActionStep(a) ==
  \/ AdmitAction(a)
  \/ \E e \in Epochs(a) : BeginDispatch(a, e) \/ ReclaimLocal(a, e)
  \/ \E e \in Epochs(a), ok \in BOOLEAN : CompleteAction(a, ok, e)
  \/ LocalEffect(a) \/ MarkOutcomeUnknown(a) \/ MarkRetryWait(a) \/ BeginRetry(a)
  \/ RequestApproval(a) \/ RespondDeny(a)
  \/ \E res \in Resolution : Reconcile(a, version[a], res)
  \/ \E stopped \in BOOLEAN : CancelReceipt(a, stopped)
  \/ ReconcileLocal(a)

RequestStep(r) == TimePasses(r) \/ RespondExpired(r) \/ RespondAnswer(r)

RunStep ==
  \/ AdmitChild \/ ChildrenSettle \/ EnsureRunning
  \/ \E q \in Question : RequestClarification(q)
  \/ RequestCancellation \/ FinalizeCancellation
  \/ BlockRun \/ FailRun \/ RecordCompletion \/ TerminateRun
  \/ \E ok \in BOOLEAN : FinishImplicit(ok)

Next ==
  \/ \E a \in Action : ActionStep(a)
  \/ \E r \in Request : RequestStep(r)
  \/ RunStep

Spec == Init /\ [][Next]_vars

-----------------------------------------------------------------------------
(* Properties *)

\* The columns of the kernel's tables hold values of their enumerations.
TypeOK ==
  /\ run \in RunStatus /\ intent \in BOOLEAN /\ children \in BOOLEAN
  /\ action \in [Action -> ActionStatus \cup {"none"}]
  /\ version \in [Action -> 0..MaxVersion]
  /\ epoch \in [Action -> 0..MaxEpoch]
  /\ attempts \in [Action -> Seq(AttemptStatus)]
  /\ request \in [Request -> RequestStatus]
  /\ overdue \subseteq Request /\ ledger \subseteq Action
  /\ jobs \in Seq(Job)

\* _latest_attempt_locked refuses a transaction whose attempt is not the one
\* it expects.  A running action always has its latest attempt open and one
\* waiting for a retry has it settled as unknown: no action is stranded
\* because its own attempt row contradicts it.
AttemptMatchesAction ==
  \A a \in Action :
    /\ action[a] = "running" => LatestIs(a, "started")
    /\ action[a] = "retry_wait" =>
         Semantics[a] = "remote_idempotent" /\ LatestIs(a, "outcome_unknown")

\* Until a cancellation is requested an attempt is open only while its action
\* runs, and only the latest one: whatever takes the action over (a later
\* lease, a retry, a reconciliation) has first settled the attempt before it.
OneOpenAttempt ==
  ~intent => \A a \in Action : \A i \in DOMAIN attempts[a] :
    attempts[a][i] = "started" => i = Len(attempts[a]) /\ action[a] = "running"

\* A Run is cancelled only when every effect has settled, whichever of the
\* three transactions confirms it, and no late result or receipt reopens an
\* action afterwards.
CancelledRunIsSettled == run = "cancelled" => ~HasUnresolved(action)

\* Every transaction that ends a Run finds its children terminal, and a
\* terminal Run admits no child.
TerminalRunHasNoLiveChild == run \in TerminalRun => ~children

\* A denied approval ends the Run with its action cancelled, and nothing that
\* arrives later makes that action dispatchable.
DeniedIsFinal ==
  \A a \in Action :
    request[a] = "denied" => run = "failed" /\ action[a] = "cancelled"

\* A queued Run has a live advance_run job: no transaction returns a Run to
\* the queue relying on a wakeup that another one has retired.
QueuedHasWakeup ==
  run = "queued" => \E i \in DOMAIN jobs :
    jobs[i].kind = "advance_run" /\ jobs[i].status # "done"

\* A Run that waits for input has a request that was put to the user and not
\* decided; an answer, a denial or a cancellation moves the Run on.
WaitingHasUndecidedRequest ==
  run = "waiting_input" => \E r \in Request : request[r] \in {"pending", "expired"}

\* Every step of a Run is in RUN_TRANSITIONS, also in the transactions that
\* assign the status without asking require_run_transition; in particular no
\* step leaves a terminal status.
RunFollowsTable == [][CanMove(run, run')]_run

\* While a Run is cancelling no transaction makes an action ready or running:
\* late evidence that an effect did not happen cancels the action.
NoWorkWhileCancelling ==
  [][run = "cancelling" => \A a \in Action :
       action'[a] \in {"ready", "running"} => action'[a] = action[a]]_vars

-----------------------------------------------------------------------------
(* What the repository's documents say and the code does not do *)

\* contracts/state_machines.json, guards.cancel_race: once the cancellation is
\* committed no new attempt is dispatched.
CommittedCancellationPreventsDispatch ==
  [][intent => \A a \in Action : Len(attempts'[a]) = Len(attempts[a])]_vars

\* docs/03_runtime_recovery.md section 2: a terminal action is immutable.
TerminalActionIsImmutable ==
  [][\A a \in Action : action[a] \in TerminalAction => action'[a] = action[a]]_action

\* contracts/state_machines.json, guards.run_to_terminal: a Run does not end
\* while an external effect is unresolved.
RunEndsWithoutUncertainEffects ==
  [][run \notin TerminalRun /\ run' \in TerminalRun => ~HasUncertain(action)]_vars

\* docs/03_runtime_recovery.md section 1: waiting_input means that there is a
\* question or an approval that can be answered.
WaitingInputIsAnswerable ==
  run = "waiting_input" => \E r \in Request : request[r] = "pending"
=============================================================================
