--------------------------- MODULE EffectRecovery ---------------------------
(***************************************************************************)
(* External effects and their recovery: application/recovery.py composed   *)
(* with the kernel.  Callers (threads of the process) run the coordinator's *)
(* dispatch, reconcile and cancel; between two kernel transactions they    *)
(* talk to an external service over a network that delays and loses        *)
(* requests, and they may crash.  The service applies an unsafe operation  *)
(* each time it arrives and saves the result of an idempotency key.        *)
(***************************************************************************)
EXTENDS RunKernel

CONSTANTS Caller   \* threads that may run the coordinator

VARIABLES
  caller,    \* what each caller is doing
  wire,      \* requests sent and neither handled nor lost
  answered,  \* requests whose response exists
  saved,     \* the service's saved result of each key
  applied    \* how many times the effect of each action has happened

serviceVars == <<wire, answered, saved, applied>>
recoveryVars == <<vars, caller, serviceVars>>

RequestId == Action \X (1..MaxAttempts)
Result == {"none", "ok", "refused"}

\* The key the service sees: hnh:{action.id} for a remote_idempotent action,
\* none for the others, whose every request is a new operation.
Key == Action \X (0..MaxAttempts)
KeyOf_PerAttempt(id) == id   \* mutant: a retry is a new operation
KeyOf(id) == IF Semantics[id[1]] = "remote_idempotent" THEN <<id[1], 0>> ELSE id

\* num is the attempt number of a dispatch and the version a reconciler read.
Idle == [pc |-> "idle"]
Doing(pc, a, num, fact) == [pc |-> pc, act |-> a, num |-> num, fact |-> fact]
At(c, pc) == caller[c].pc = pc
Goto(c, state) == caller' = [caller EXCEPT ![c] = state]
Id(c) == <<caller[c].act, caller[c].num>>

EInit ==
  /\ Init
  /\ caller = [c \in Caller |-> Idle]
  /\ wire = {} /\ answered = {}
  /\ saved = [k \in Key |-> "none"]
  /\ applied = [a \in Action |-> 0]

\* A transaction that raises leaves the kernel as it is and ends the caller.
Commit(c, accepted, Transaction) ==
  /\ IF accepted THEN Transaction ELSE UNCHANGED vars
  /\ Goto(c, Idle)
  /\ UNCHANGED serviceVars

-----------------------------------------------------------------------------
(* Mutants *)

\* The request does not carry the attempt.
Send_NoAttempt(c) ==
  /\ At(c, "begun") /\ wire' = wire \cup {caller[c].act}
  /\ Goto(c, Doing("sent", caller[c].act, caller[c].num, "none"))
  /\ UNCHANGED <<vars, answered, saved, applied>>

\* A timeout is taken for a failure.
Ambiguous_Fails(c) ==
  /\ At(c, "sent")
  /\ Commit(c, action[caller[c].act] = "running", CompleteAction(caller[c].act, FALSE, 0))

\* Evidence is not bound to the version it was asked for.
CommitEvidence_AnyVersion(c) ==
  /\ At(c, "evidence")
  /\ LET a == caller[c].act
     IN  Commit(c, action[a] \in {"outcome_unknown", "waiting_external"},
                Reconcile(a, version[a], caller[c].fact))

-----------------------------------------------------------------------------
(* RecoveryCoordinator.dispatch *)

\* begin_action_dispatch or begin_retry_dispatch commits before the request.
Begin(c, a) ==
  /\ At(c, "idle")
  /\ BeginDispatch(a, 0) \/ BeginRetry(a)
  /\ Goto(c, Doing("begun", a, Len(attempts[a]) + 1, "none"))
  /\ UNCHANGED serviceVars

\* driver.dispatch puts the request on the network.
Send(c) ==
  /\ At(c, "begun")
  /\ wire' = wire \cup {Id(c)}
  /\ Goto(c, Doing("sent", caller[c].act, caller[c].num, "none"))
  /\ UNCHANGED <<vars, answered, saved, applied>>

\* A definite response: 2xx, or a refusal that says applied is False.
Receive(c) ==
  /\ At(c, "sent") /\ Id(c) \in answered
  /\ LET a == caller[c].act
     IN  Commit(c, action[a] = "running",
                CompleteAction(a, saved[KeyOf(Id(c))] = "ok", 0))

\* AmbiguousDispatch, or a response that does not say whether it applied.
Ambiguous(c) ==
  /\ At(c, "sent")
  /\ LET a == caller[c].act
     IN  IF Semantics[a] = "remote_idempotent"
         THEN Commit(c, action[a] = "running", MarkRetryWait(a))
         ELSE Commit(c, action[a] = "running" /\ (run = "blocked" \/ CanMove(run, "blocked")),
                     MarkOutcomeUnknown(a))

-----------------------------------------------------------------------------
(* RecoveryCoordinator.reconcile and the reconciliation endpoint *)

\* get_action: the version the decision will be bound to.
ReadUnknown(c, a) ==
  /\ At(c, "idle") /\ action[a] \in {"outcome_unknown", "waiting_external"}
  /\ Goto(c, Doing("read", a, version[a], "none"))
  /\ UNCHANGED <<vars, serviceVars>>

\* No request of the action can still reach the service.
Quiet(a) ==
  /\ \A id \in wire : id[1] # a
  /\ \A c \in Caller : At(c, "begun") => caller[c].act # a

\* Evidence is true and final when it is given; without it the call fails.
Evidence(a) ==
  IF applied[a] > 0 THEN {"confirmed_applied"}
  ELSE IF Quiet(a) THEN {"confirmed_not_applied", "confirmed_stopped"} ELSE {}

GetEvidence(c) ==
  /\ At(c, "read")
  /\ \E fact \in Evidence(caller[c].act) :
       Goto(c, Doing("evidence", caller[c].act, caller[c].num, fact))
  /\ UNCHANGED <<vars, serviceVars>>

CommitEvidence(c) ==
  /\ At(c, "evidence")
  /\ LET a == caller[c].act
         accepted == /\ version[a] = caller[c].num
                     /\ action[a] \in {"outcome_unknown", "waiting_external"}
     IN  Commit(c, accepted, Reconcile(a, caller[c].num, caller[c].fact))

-----------------------------------------------------------------------------
(* RecoveryCoordinator.cancel *)

\* driver.cancel: the service stops what it has not applied, or acknowledges.
\* The coordinator checks nothing of the action; that it was dispatched, so
\* that the service can know it, is all the model assumes.
AskStop(c, a) ==
  /\ At(c, "idle") /\ attempts[a] # <<>>
  /\ \/ Quiet(a) /\ applied[a] = 0 /\ Goto(c, Doing("stop", a, 0, "stopped"))
     \/ Goto(c, Doing("stop", a, 0, "acknowledged"))
  /\ UNCHANGED <<vars, serviceVars>>

CommitStop(c) ==
  /\ At(c, "stop")
  /\ Commit(c, run = "cancelling",
            CancelReceipt(caller[c].act, caller[c].fact = "stopped"))

-----------------------------------------------------------------------------
(* The service, the network and crashes *)

Handle(id, result) ==
  /\ id \in wire
  /\ wire' = wire \ {id} /\ answered' = answered \cup {id}
  /\ LET k == KeyOf(id)
     IN  IF saved[k] = "none"
         THEN /\ saved' = [saved EXCEPT ![k] = result]
              /\ applied' = IF result = "ok"
                            THEN [applied EXCEPT ![id[1]] = @ + 1] ELSE applied
         ELSE UNCHANGED <<saved, applied>>
  /\ UNCHANGED <<vars, caller>>

Lose(id) ==
  /\ id \in wire /\ wire' = wire \ {id}
  /\ UNCHANGED <<vars, caller, answered, saved, applied>>

Crash(c) ==
  /\ ~At(c, "idle") /\ Goto(c, Idle)
  /\ UNCHANGED <<vars, serviceVars>>

\* The rest of the process: the runner admits work and ends the Run, clients
\* cancel it.
Kernel ==
  /\ \/ \E a \in Action : AdmitAction(a)
     \/ EnsureRunning \/ RequestCancellation \/ FinalizeCancellation
     \/ FailRun \/ TerminateRun
  /\ UNCHANGED <<caller, serviceVars>>

CallerStep(c) ==
  \/ Send(c) \/ Receive(c) \/ Ambiguous(c)
  \/ GetEvidence(c) \/ CommitEvidence(c) \/ CommitStop(c)

ENext ==
  \/ \E c \in Caller, a \in Action : Begin(c, a) \/ ReadUnknown(c, a) \/ AskStop(c, a)
  \/ \E c \in Caller : CallerStep(c) \/ Crash(c)
  \/ \E id \in RequestId : Lose(id) \/ \E result \in {"ok", "refused"} : Handle(id, result)
  \/ Kernel

ESpec == EInit /\ [][ENext]_recoveryVars

-----------------------------------------------------------------------------
(* Properties *)

\* The kernel's tables keep their types, and a caller is at a known point of
\* the coordinator.
ETypeOK ==
  /\ TypeOK
  /\ caller \in [Caller -> {Idle} \cup
       [pc : {"begun", "sent", "read", "evidence", "stop"}, act : Action,
        num : Nat, fact : {"none", "stopped", "acknowledged"} \cup Resolution]]
  /\ wire \subseteq RequestId /\ answered \subseteq RequestId
  /\ saved \in [Key -> Result] /\ applied \in [Action -> Nat]

\* The effect of an action happens at most once: a retry reuses the key, an
\* unsafe action is dispatched again only on evidence that the attempt before
\* it did not and will not apply, and stale evidence is refused.
EffectAtMostOnce == \A a \in Action : applied[a] <= 1

\* Until a cancellation is requested, an action the kernel calls succeeded has
\* had its effect and one it calls failed has not: responses and evidence of
\* several attempts never settle it the wrong way.
OutcomeIsTrue ==
  ~intent => \A a \in Action :
    /\ action[a] = "succeeded" => applied[a] = 1
    /\ action[a] = "failed" => applied[a] = 0

\* An action that is ready or waits for a retry has nobody about to send a
\* request for it: unless cancelled, it is dispatched by one caller at a time.
OneDispatcherAtATime ==
  ~intent => \A a \in Action :
    LET busy == {c \in Caller : caller[c].pc \in {"begun", "sent"} /\ caller[c].act = a}
    IN  Cardinality(busy) <= IF action[a] = "running" THEN 1 ELSE 0

-----------------------------------------------------------------------------
(* What the repository's documents say and the code does not do *)

\* docs/03_runtime_recovery.md section 5: an old worker commits no new fact.
\* A caller that ends a dispatch settles the attempt it sent or none.
OldCallerCommitsNoNewFact ==
  [][\A c \in Caller : At(c, "sent") /\ caller'[c] = Idle =>
       attempts' = attempts \/ Len(attempts[caller[c].act]) = caller[c].num]_recoveryVars

\* docs/03_runtime_recovery.md section 7: an action that was running when its
\* process went down is treated by its effect semantics; it does not stay
\* running.
RunningIsRecovered ==
  \A a \in Action : action[a] = "running" ~> action[a] # "running"

\* Threads that do not crash go on; nobody is obliged to admit or cancel.
FairESpec ==
  /\ ESpec
  /\ \A c \in Caller : WF_recoveryVars(CallerStep(c))
  /\ \A c \in Caller, a \in Action :
       WF_recoveryVars(Begin(c, a)) /\ WF_recoveryVars(ReadUnknown(c, a))
=============================================================================
