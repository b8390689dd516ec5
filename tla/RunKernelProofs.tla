--------------------------- MODULE RunKernelProofs ---------------------------
(***************************************************************************)
(* Theorems about the kernel of one Run, about the external effects that   *)
(* are started through it, and about the call of an MCP tool, for any set  *)
(* of actions and questions, any effect semantics, any number of callers   *)
(* and threads and any bounds.  Everything up to the section on external   *)
(* effects is about RunKernel alone; the sections on the MCP call are      *)
(* about McpTask, and use no theorem about EffectRecovery.                 *)
(***************************************************************************)
EXTENDS EffectRecovery, McpTask, SumTheorems, SequenceTheorems

(* Lemmas about the rows that the transactions append and settle *)

\* Appending a row makes it the latest.
LEMMA AppendRow ==
  ASSUME NEW S, NEW s \in Seq(S), NEW x \in S
  PROVE  /\ Append(s, x) \in Seq(S) /\ Append(s, x) # <<>>
         /\ Last(Append(s, x)) = x
         /\ Len(Append(s, x)) = Len(s) + 1
         /\ \A i \in 1..Len(s) : Append(s, x)[i] = s[i]
BY DEF Last

\* Settling the latest row changes its status and no other row.
LEMMA SettleRow ==
  ASSUME NEW S, NEW s \in Seq(S), s # <<>>, NEW x \in S
  PROVE  LET t == [s EXCEPT ![Len(s)] = x]
         IN  /\ t \in Seq(S) /\ t # <<>> /\ Last(t) = x /\ Len(t) = Len(s)
             /\ \A i \in 1..Len(s) : i # Len(s) => t[i] = s[i]
<1>1. Len(s) \in 1..Len(s)
  BY EmptySeq
<1>2. QED
  BY <1>1, ExceptSeq, EmptySeq DEF Last

\* Retiring the ready wakeups keeps the job table well formed.
LEMMA RetireKeepsJobs == ASSUME jobs \in Seq(Job), RetireReady PROVE jobs' \in Seq(Job)
<1>1. /\ DOMAIN jobs = 1..Len(jobs) /\ Len(jobs) \in Nat
      /\ \A i \in DOMAIN jobs : jobs[i] \in Job
  BY LenProperties, ElementOfSeq
<1>2. \A i \in DOMAIN jobs : jobs'[i] \in Job
  BY <1>1 DEF RetireReady, Job, JobStatus
<1>3. jobs' \in [1..Len(jobs) -> Job]
  BY <1>1, <1>2 DEF RetireReady
<1>4. QED
  BY <1>1, <1>3, SeqDef

\* Adding a wakeup keeps the job table well formed.
LEMMA EnqueueKeepsJobs ==
  ASSUME jobs \in Seq(Job), NEW kind \in JobKind, Enqueue(kind) PROVE jobs' \in Seq(Job)
BY AppendRow DEF Enqueue, NewJob, Job, JobStatus

-----------------------------------------------------------------------------
(* Types *)

\* Moving an action keeps the columns of its row in their types.
LEMMA SetActionType ==
  ASSUME TypeOK, NEW a \in Action, NEW s \in ActionStatus, SetAction(a, s)
  PROVE  /\ action' \in [Action -> ActionStatus \cup {"none"}]
         /\ version' \in [Action -> 0..MaxVersion]
BY BoundsAssumption DEF TypeOK, SetAction

\* Settling an attempt keeps the attempt rows well formed.
LEMMA SettleAttemptType ==
  ASSUME TypeOK, NEW a \in Action, attempts[a] # <<>>, NEW s \in AttemptStatus,
         SettleAttempt(a, s)
  PROVE  attempts' \in [Action -> Seq(AttemptStatus)]
BY SettleRow DEF TypeOK, SettleAttempt

\* Starting an attempt keeps the action row and its attempt rows well formed.
LEMMA StartAttemptType ==
  ASSUME TypeOK, NEW a \in Action, NEW e \in 0..MaxEpoch,
         NEW earlier \in Seq(AttemptStatus), StartAttempt(a, e, earlier)
  PROVE  TypeOK'
<1> "running" \in ActionStatus /\ "started" \in AttemptStatus
  BY DEF ActionStatus, Uncertain, AttemptStatus
<1>1. /\ action' \in [Action -> ActionStatus \cup {"none"}]
      /\ version' \in [Action -> 0..MaxVersion]
  BY SetActionType DEF StartAttempt
<1>2. attempts' \in [Action -> Seq(AttemptStatus)]
  BY AppendRow DEF StartAttempt, TypeOK
<1>3. epoch' \in [Action -> 0..MaxEpoch]
  BY DEF StartAttempt, TypeOK
<1>4. QED
  BY <1>1, <1>2, <1>3 DEF StartAttempt, TypeOK

\* The statuses that the transactions write are in the enumerations.
LEMMA StatusNames ==
  /\ {"queued", "running", "waiting_input", "blocked", "cancelling", "succeeded",
      "failed", "cancelled", "expired"} \subseteq RunStatus
  /\ {"proposed", "waiting_input", "ready", "running", "waiting_external", "retry_wait",
      "outcome_unknown", "succeeded", "failed", "cancelled"} \subseteq ActionStatus
  /\ {"started", "succeeded", "failed", "outcome_unknown"} \subseteq AttemptStatus
  /\ {"none", "pending", "answered", "denied", "expired"} \subseteq RequestStatus
  /\ {"advance_run", "cancel_run"} \subseteq JobKind
BY DEF RunStatus, TerminalRun, ActionStatus, Undispatched, Uncertain, TerminalAction,
       AttemptStatus, RequestStatus, JobKind

\* A dispatch writes an epoch that is 0 or that of a lease.
LEMMA EpochsType == ASSUME NEW a \in Action, NEW e \in Epochs(a) PROVE e \in 0..MaxEpoch
BY BoundsAssumption DEF Epochs

\* An admitted Run is well formed.
LEMMA InitType == Init => TypeOK
<1> SUFFICES ASSUME Init PROVE TypeOK
  OBVIOUS
<1>1. jobs \in Seq(Job)
  BY StatusNames DEF Init, NewJob, Job, JobStatus
<1>2. <<>> \in Seq(AttemptStatus)
  BY EmptySeq
<1>3. /\ version \in [Action -> 0..MaxVersion]
      /\ epoch \in [Action -> 0..MaxEpoch]
  BY BoundsAssumption DEF Init
<1>4. /\ action \in [Action -> ActionStatus \cup {"none"}]
      /\ request \in [Request -> RequestStatus]
  BY StatusNames DEF Init
<1>5. attempts \in [Action -> Seq(AttemptStatus)]
  BY <1>2 DEF Init
<1>6. QED
  BY <1>1, <1>3, <1>4, <1>5, StatusNames DEF Init, TypeOK

\* Every transaction keeps the tables well formed.
LEMMA StepType == TypeOK /\ [Next]_vars => TypeOK'
<1> SUFFICES ASSUME TypeOK, [Next]_vars PROVE TypeOK'
  OBVIOUS
<1> USE StatusNames DEF actionVars
<1>1. ASSUME NEW a \in Action, ActionStep(a) PROVE TypeOK'
  <2>1. CASE AdmitAction(a)
    BY <2>1 DEF AdmitAction, TypeOK
  <2>2. ASSUME NEW e \in Epochs(a), BeginDispatch(a, e) PROVE TypeOK'
    BY <2>2, EpochsType, StartAttemptType DEF BeginDispatch, TypeOK
  <2>3. ASSUME NEW e \in Epochs(a), ReclaimLocal(a, e) PROVE TypeOK'
    <3>1. [attempts[a] EXCEPT ![Len(attempts[a])] = "outcome_unknown"] \in Seq(AttemptStatus)
      BY <2>3, SettleRow DEF ReclaimLocal, LatestIs, TypeOK
    <3>2. QED
      BY <2>3, <3>1, EpochsType, StartAttemptType DEF ReclaimLocal
  <2>4. ASSUME NEW ok \in BOOLEAN, NEW e \in Epochs(a), CompleteAction(a, ok, e) PROVE TypeOK'
    BY <2>4, SetActionType, SettleAttemptType DEF CompleteAction, LatestIs, TypeOK
  <2>5. CASE LocalEffect(a)
    BY <2>5 DEF LocalEffect, TypeOK
  <2>6. CASE MarkOutcomeUnknown(a)
    BY <2>6, SetActionType, SettleAttemptType DEF MarkOutcomeUnknown, LatestIs, TypeOK, Move
  <2>7. CASE MarkRetryWait(a)
    BY <2>7, SetActionType, SettleAttemptType DEF MarkRetryWait, LatestIs, TypeOK
  <2>8. CASE BeginRetry(a)
    BY <2>8, StartAttemptType DEF BeginRetry, TypeOK
  <2>9. CASE RequestApproval(a)
    BY <2>9, SetActionType DEF RequestApproval, Ask, Move, TypeOK, Request
  <2>10. CASE RespondDeny(a)
    BY <2>10, SetActionType DEF RespondDeny, Move, TypeOK, Request
  <2>11. ASSUME NEW res \in Resolution, Reconcile(a, version[a], res) PROVE TypeOK'
    <3>1. ResolvedStatus(res) \in ActionStatus
      BY DEF ResolvedStatus
    <3>2. /\ action' \in [Action -> ActionStatus \cup {"none"}]
          /\ version' \in [Action -> 0..MaxVersion]
      BY <2>11, <3>1, SetActionType DEF Reconcile
    <3>3. run' \in RunStatus /\ jobs' \in Seq(Job)
      BY <2>11, EnqueueKeepsJobs DEF Reconcile, CancelIfSettled, TypeOK
    <3>4. QED
      BY <2>11, <3>2, <3>3 DEF Reconcile, TypeOK
  <2>12. ASSUME NEW stopped \in BOOLEAN, CancelReceipt(a, stopped) PROVE TypeOK'
    BY <2>12, SetActionType DEF CancelReceipt, CancelIfSettled, TypeOK
  <2>13. CASE ReconcileLocal(a)
    BY <2>13, SetActionType, SettleAttemptType DEF ReconcileLocal, LatestIs, TypeOK
  <2>14. QED
    BY <1>1, <2>1, <2>2, <2>3, <2>4, <2>5, <2>6, <2>7, <2>8, <2>9, <2>10, <2>11,
       <2>12, <2>13 DEF ActionStep
<1>2. ASSUME NEW r \in Request, RequestStep(r) PROVE TypeOK'
  <2>1. CASE TimePasses(r)
    BY <2>1 DEF TimePasses, TypeOK
  <2>2. CASE RespondExpired(r)
    BY <2>2 DEF RespondExpired, TypeOK
  <2>3. CASE RespondAnswer(r)
    <3>1. /\ action' \in [Action -> ActionStatus \cup {"none"}]
          /\ version' \in [Action -> 0..MaxVersion]
      BY <2>3, SetActionType DEF RespondAnswer, TypeOK
    <3>2. jobs' \in Seq(Job)
      BY <2>3, EnqueueKeepsJobs DEF RespondAnswer, TypeOK
    <3>3. QED
      BY <2>3, <3>1, <3>2 DEF RespondAnswer, Move, TypeOK
  <2>4. QED
    BY <1>2, <2>1, <2>2, <2>3 DEF RequestStep
<1>3. ASSUME NEW status \in RunStatus, EndRun(status) PROVE TypeOK'
  BY <1>3, RetireKeepsJobs DEF EndRun, Move, TypeOK
<1>4. CASE RunStep
  <2>1. CASE AdmitChild \/ ChildrenSettle \/ EnsureRunning \/ BlockRun
    BY <2>1 DEF AdmitChild, ChildrenSettle, EnsureRunning, BlockRun, Move, TypeOK
  <2>2. ASSUME NEW q \in Question, RequestClarification(q) PROVE TypeOK'
    BY <2>2 DEF RequestClarification, Ask, Move, TypeOK, Request
  <2>3. CASE RequestCancellation
    <3>1. jobs' \in Seq(Job)
      BY <2>3, EnqueueKeepsJobs DEF RequestCancellation, TypeOK
    <3>2. QED
      BY <2>3, <3>1 DEF RequestCancellation, SettleUndispatched, Move, TypeOK
  <2>4. CASE FinalizeCancellation
    BY <2>4, RetireKeepsJobs DEF FinalizeCancellation, Move, TypeOK
  <2>5. CASE FailRun
    BY <2>5, <1>3 DEF FailRun
  <2>6. CASE RecordCompletion
    BY <2>6, <1>3 DEF RecordCompletion
  <2>7. ASSUME NEW ok \in BOOLEAN, FinishImplicit(ok) PROVE TypeOK'
    BY <2>7, <1>3 DEF FinishImplicit
  <2>8. CASE TerminateRun
    <3>1. jobs' \in Seq(Job)
      BY <2>8, RetireKeepsJobs DEF TerminateRun, TypeOK
    <3>2. QED
      BY <2>8, <3>1 DEF TerminateRun, SettleUndispatched, Move, TypeOK
  <2>9. QED
    BY <1>4, <2>1, <2>2, <2>3, <2>4, <2>5, <2>6, <2>7, <2>8 DEF RunStep
<1>5. CASE UNCHANGED vars
  BY <1>5 DEF vars, TypeOK
<1>6. QED
  BY <1>1, <1>2, <1>4, <1>5 DEF Next

\* The columns of the kernel's tables hold values of their enumerations.
THEOREM TypeCorrect == Spec => []TypeOK
BY InitType, StepType, PTL DEF Spec

-----------------------------------------------------------------------------
(* Attempts *)

\* What OneOpenAttempt says of one action.
OpenIsLatest(a) ==
  \A i \in DOMAIN attempts[a] :
    attempts[a][i] = "started" => i = Len(attempts[a]) /\ action[a] = "running"

\* An undecided approval belongs to an action that waits for it, or that
\* terminate_run has settled: deciding it leaves no attempt open.
ApprovalInv ==
  ~intent => \A a \in Action :
    request[a] = "pending" => action[a] \in {"waiting_input", "cancelled"}

\* The rows agree with the action, and a Run is cancelling only after a
\* request: the receipts that leave an attempt open need that request.
AttemptInv ==
  /\ AttemptMatchesAction
  /\ OneOpenAttempt
  /\ run = "cancelling" => intent

\* A transaction that starts the only open attempt as its action starts to run.
LEMMA StartAttemptInv ==
  ASSUME TypeOK, AttemptInv, NEW a \in Action, NEW e \in 0..MaxEpoch,
         NEW earlier \in Seq(AttemptStatus),
         ~intent => \A i \in DOMAIN earlier : earlier[i] # "started",
         StartAttempt(a, e, earlier)
  PROVE  AttemptInv'
<1>1. /\ attempts'[a] # <<>> /\ Last(attempts'[a]) = "started"
      /\ DOMAIN attempts'[a] = 1..Len(earlier) + 1 /\ Len(attempts'[a]) = Len(earlier) + 1
      /\ \A i \in 1..Len(earlier) : attempts'[a][i] = earlier[i]
      /\ DOMAIN earlier = 1..Len(earlier) /\ Len(earlier) \in Nat
  <2>1. attempts'[a] = Append(earlier, "started")
    BY DEF StartAttempt, TypeOK
  <2>2. "started" \in AttemptStatus
    BY StatusNames
  <2>3. QED
    BY <2>1, <2>2, AppendRow, LenProperties
<1>2. \A b \in Action \ {a} : attempts'[b] = attempts[b] /\ action'[b] = action[b]
  BY DEF StartAttempt, SetAction, TypeOK
<1>3. action'[a] = "running" /\ UNCHANGED <<run, intent>>
  BY DEF StartAttempt, SetAction, TypeOK
<1>4. AttemptMatchesAction'
  BY <1>1, <1>2, <1>3 DEF AttemptInv, AttemptMatchesAction, LatestIs
<1>5. OneOpenAttempt'
  BY <1>1, <1>2, <1>3 DEF AttemptInv, OneOpenAttempt
<1>6. QED
  BY <1>3, <1>4, <1>5 DEF AttemptInv

\* A transaction that settles the latest attempt as it moves the action on.
LEMMA SettleAttemptInv ==
  ASSUME TypeOK, AttemptInv, NEW a \in Action, action[a] = "running",
         NEW s \in ActionStatus \ {"running"}, NEW t \in AttemptStatus \ {"started"},
         s = "retry_wait" => Semantics[a] = "remote_idempotent" /\ t = "outcome_unknown",
         SetAction(a, s), SettleAttempt(a, t), UNCHANGED intent,
         run' = "cancelling" => run = "cancelling"
  PROVE  AttemptInv'
<1>1. attempts[a] # <<>> /\ Last(attempts[a]) = "started"
  BY DEF AttemptInv, AttemptMatchesAction, LatestIs
<1>2. /\ attempts'[a] # <<>> /\ Last(attempts'[a]) = t /\ attempts'[a][Len(attempts[a])] = t
      /\ DOMAIN attempts'[a] = 1..Len(attempts[a]) /\ Len(attempts'[a]) = Len(attempts[a])
      /\ \A i \in 1..Len(attempts[a]) :
           i # Len(attempts[a]) => attempts'[a][i] = attempts[a][i]
      /\ DOMAIN attempts[a] = 1..Len(attempts[a])
  <2>1. attempts'[a] = [attempts[a] EXCEPT ![Len(attempts[a])] = t]
    BY DEF SettleAttempt, TypeOK
  <2>2. attempts[a] \in Seq(AttemptStatus)
    BY DEF TypeOK
  <2>3. QED
    BY <1>1, <2>1, <2>2, SettleRow, LenProperties DEF Last
<1>3. \A b \in Action \ {a} : attempts'[b] = attempts[b] /\ action'[b] = action[b]
  BY DEF SettleAttempt, SetAction, TypeOK
<1>4. action'[a] = s
  BY DEF SetAction, TypeOK
<1>5. AttemptMatchesAction'
  BY <1>2, <1>3, <1>4 DEF AttemptInv, AttemptMatchesAction, LatestIs
<1>6. OneOpenAttempt'
  BY <1>2, <1>3, <1>4 DEF AttemptInv, OneOpenAttempt
<1>7. QED
  BY <1>5, <1>6 DEF AttemptInv

\* A transaction that leaves the attempts alone and moves actions which have
\* no open attempt, none of them into running or retry_wait.
LEMMA OtherAttemptInv ==
  ASSUME TypeOK, AttemptInv, UNCHANGED attempts, intent => intent',
         run' = "cancelling" => intent',
         \A a \in Action : action'[a] = action[a] \/
            (action'[a] \notin {"running", "retry_wait"} /\
               (action[a] # "running" \/ intent'))
  PROVE  AttemptInv'
<1>1. AttemptMatchesAction'
  BY DEF AttemptInv, AttemptMatchesAction, LatestIs
<1>2. OneOpenAttempt'
  BY DEF AttemptInv, OneOpenAttempt
<1>3. QED
  BY <1>1, <1>2 DEF AttemptInv

\* After every transaction a pending approval belongs to an action that waits
\* or is cancelled.
LEMMA ApprovalInvStep ==
  TypeOK /\ ApprovalInv /\ AttemptInv /\ [Next]_vars => ApprovalInv'
<1> SUFFICES ASSUME TypeOK, ApprovalInv, AttemptInv, [Next]_vars PROVE ApprovalInv'
  OBVIOUS
<1> USE DEF actionVars, ApprovalInv, TypeOK
<1>1. ASSUME NEW a \in Action, ActionStep(a) PROVE ApprovalInv'
  <2>1. CASE AdmitAction(a)
    BY <2>1 DEF AdmitAction
  <2>2. ASSUME NEW e \in Epochs(a), BeginDispatch(a, e) \/ ReclaimLocal(a, e) PROVE ApprovalInv'
    BY <2>2 DEF BeginDispatch, ReclaimLocal, StartAttempt, SetAction
  <2>3. ASSUME NEW ok \in BOOLEAN, NEW e \in Epochs(a), CompleteAction(a, ok, e)
        PROVE  ApprovalInv'
    BY <2>3 DEF CompleteAction, SetAction
  <2>4. CASE LocalEffect(a)
    BY <2>4 DEF LocalEffect
  <2>5. CASE MarkOutcomeUnknown(a) \/ MarkRetryWait(a)
    BY <2>5 DEF MarkOutcomeUnknown, MarkRetryWait, SetAction
  <2>6. CASE BeginRetry(a)
    BY <2>6 DEF BeginRetry, StartAttempt, SetAction
  <2>7. CASE RequestApproval(a)
    BY <2>7 DEF RequestApproval, Ask, SetAction, Request
  <2>8. CASE RespondDeny(a)
    BY <2>8 DEF RespondDeny, SetAction, Request
  <2>9. ASSUME NEW res \in Resolution, Reconcile(a, version[a], res) PROVE ApprovalInv'
    BY <2>9 DEF Reconcile, SetAction
  <2>10. ASSUME NEW stopped \in BOOLEAN, CancelReceipt(a, stopped) PROVE ApprovalInv'
    BY <2>10 DEF CancelReceipt, AttemptInv
  <2>11. CASE ReconcileLocal(a)
    BY <2>11 DEF ReconcileLocal, SetAction
  <2>12. QED
    BY <1>1, <2>1, <2>2, <2>3, <2>4, <2>5, <2>6, <2>7, <2>8, <2>9, <2>10, <2>11
    DEF ActionStep
<1>2. ASSUME NEW r \in Request, RequestStep(r) PROVE ApprovalInv'
  BY <1>2 DEF RequestStep, TimePasses, RespondExpired, RespondAnswer, SetAction, Request
<1>3. CASE RunStep
  <2>1. CASE AdmitChild \/ ChildrenSettle \/ EnsureRunning \/ BlockRun
    BY <2>1 DEF AdmitChild, ChildrenSettle, EnsureRunning, BlockRun
  <2>2. ASSUME NEW q \in Question, RequestClarification(q) PROVE ApprovalInv'
    BY <2>2, RequestAssumption DEF RequestClarification, Ask, Request
  <2>3. CASE RequestCancellation
    BY <2>3 DEF RequestCancellation
  <2>4. CASE FinalizeCancellation
    BY <2>4 DEF FinalizeCancellation
  <2>5. CASE FailRun \/ RecordCompletion \/ \E ok \in BOOLEAN : FinishImplicit(ok)
    BY <2>5 DEF FailRun, RecordCompletion, FinishImplicit, EndRun
  <2>6. CASE TerminateRun
    BY <2>6 DEF TerminateRun, SettleUndispatched
  <2>7. QED
    BY <1>3, <2>1, <2>2, <2>3, <2>4, <2>5, <2>6 DEF RunStep
<1>4. CASE UNCHANGED vars
  BY <1>4 DEF vars
<1>5. QED
  BY <1>1, <1>2, <1>3, <1>4 DEF Next

\* Every transaction keeps the attempts in step with their actions.
LEMMA AttemptInvStep == TypeOK /\ ApprovalInv /\ AttemptInv /\ [Next]_vars => AttemptInv'
<1> SUFFICES ASSUME TypeOK, ApprovalInv, AttemptInv, [Next]_vars PROVE AttemptInv'
  OBVIOUS
<1> USE StatusNames DEF actionVars
<1>1. ASSUME NEW a \in Action, ActionStep(a) PROVE AttemptInv'
  <2>1. CASE AdmitAction(a)
    BY <2>1, OtherAttemptInv DEF AdmitAction, TypeOK, AttemptInv
  <2>2. ASSUME NEW e \in Epochs(a), BeginDispatch(a, e) PROVE AttemptInv'
    <3>1. ~intent => \A i \in DOMAIN attempts[a] : attempts[a][i] # "started"
      BY <2>2 DEF BeginDispatch, AttemptInv, OneOpenAttempt
    <3>2. QED
      BY <2>2, <3>1, EpochsType, StartAttemptInv DEF BeginDispatch, TypeOK
  <2>3. ASSUME NEW e \in Epochs(a), ReclaimLocal(a, e) PROVE AttemptInv'
    <3> DEFINE earlier == [attempts[a] EXCEPT ![Len(attempts[a])] = "outcome_unknown"]
    <3>1. attempts[a] \in Seq(AttemptStatus) /\ attempts[a] # <<>>
      BY <2>3 DEF ReclaimLocal, LatestIs, TypeOK
    <3>2. /\ earlier \in Seq(AttemptStatus) /\ Len(earlier) = Len(attempts[a])
          /\ earlier[Len(attempts[a])] = "outcome_unknown"
          /\ \A i \in 1..Len(attempts[a]) :
               i # Len(attempts[a]) => earlier[i] = attempts[a][i]
      BY <3>1, SettleRow DEF Last
    <3>3. DOMAIN earlier = 1..Len(attempts[a]) /\ DOMAIN attempts[a] = 1..Len(attempts[a])
      BY <3>1, <3>2, LenProperties
    <3>4. ~intent => \A i \in DOMAIN earlier : earlier[i] # "started"
      BY <3>2, <3>3 DEF AttemptInv, OneOpenAttempt
    <3>5. StartAttempt(a, e, earlier)
      BY <2>3 DEF ReclaimLocal
    <3>6. QED
      BY <3>2, <3>4, <3>5, EpochsType, StartAttemptInv
  <2>4. ASSUME NEW ok \in BOOLEAN, NEW e \in Epochs(a), CompleteAction(a, ok, e)
        PROVE  AttemptInv'
    BY <2>4, SettleAttemptInv DEF CompleteAction
  <2>5. CASE LocalEffect(a)
    BY <2>5, OtherAttemptInv DEF LocalEffect, AttemptInv
  <2>6. CASE MarkOutcomeUnknown(a)
    BY <2>6, SettleAttemptInv DEF MarkOutcomeUnknown, Move
  <2>7. CASE MarkRetryWait(a)
    BY <2>7, SettleAttemptInv DEF MarkRetryWait
  <2>8. CASE BeginRetry(a)
    <3>1. ~intent => \A i \in DOMAIN attempts[a] : attempts[a][i] # "started"
      BY <2>8 DEF BeginRetry, AttemptInv, OneOpenAttempt
    <3>2. QED
      BY <2>8, <3>1, StartAttemptInv DEF BeginRetry, TypeOK
  <2>9. CASE RequestApproval(a)
    BY <2>9, OtherAttemptInv DEF RequestApproval, Ask, Move, SetAction, TypeOK, AttemptInv
  <2>10. CASE RespondDeny(a)
    <3>1. action[a] # "running" \/ intent
      BY <2>10 DEF RespondDeny, ApprovalInv
    <3>2. QED
      BY <2>10, <3>1, OtherAttemptInv DEF RespondDeny, Move, SetAction, TypeOK, AttemptInv
  <2>11. ASSUME NEW res \in Resolution, Reconcile(a, version[a], res) PROVE AttemptInv'
    <3>1. ResolvedStatus(res) \notin {"running", "retry_wait"}
      BY DEF ResolvedStatus
    <3>2. run' = "cancelling" => run = "cancelling"
      BY <2>11 DEF Reconcile, CancelIfSettled
    <3>3. QED
      BY <2>11, <3>1, <3>2, OtherAttemptInv DEF Reconcile, SetAction, TypeOK, AttemptInv
  <2>12. ASSUME NEW stopped \in BOOLEAN, CancelReceipt(a, stopped) PROVE AttemptInv'
    BY <2>12, OtherAttemptInv DEF CancelReceipt, CancelIfSettled, SetAction, TypeOK, AttemptInv
  <2>13. CASE ReconcileLocal(a)
    BY <2>13, SettleAttemptInv DEF ReconcileLocal
  <2>14. QED
    BY <1>1, <2>1, <2>2, <2>3, <2>4, <2>5, <2>6, <2>7, <2>8, <2>9, <2>10, <2>11,
       <2>12, <2>13 DEF ActionStep
<1>2. ASSUME NEW r \in Request, RequestStep(r) PROVE AttemptInv'
  <2>1. CASE TimePasses(r) \/ RespondExpired(r)
    BY <2>1, OtherAttemptInv DEF TimePasses, RespondExpired, AttemptInv
  <2>2. CASE RespondAnswer(r)
    <3>1. CASE r \in Action
      <4>1. action[r] # "running" \/ intent
        BY <2>2, <3>1 DEF RespondAnswer, ApprovalInv
      <4>2. action' = [action EXCEPT ![r] = "ready"]
        BY <2>2, <3>1 DEF RespondAnswer, SetAction
      <4>3. QED
        BY <2>2, <3>1, <4>1, <4>2, OtherAttemptInv DEF RespondAnswer, Move, TypeOK, AttemptInv
    <3>2. CASE r \notin Action
      BY <2>2, <3>2, OtherAttemptInv DEF RespondAnswer, Move, AttemptInv
    <3>3. QED
      BY <3>1, <3>2
  <2>3. QED
    BY <1>2, <2>1, <2>2 DEF RequestStep
<1>3. ASSUME NEW status \in RunStatus \ {"cancelling"}, EndRun(status) PROVE AttemptInv'
  BY <1>3, OtherAttemptInv DEF EndRun, Move, AttemptInv
<1>4. \A a \in Action : SettleUndispatched[a] = action[a] \/
        (SettleUndispatched[a] = "cancelled" /\ action[a] # "running")
  BY DEF SettleUndispatched, Undispatched
<1>5. CASE RunStep
  <2>1. CASE AdmitChild \/ ChildrenSettle \/ EnsureRunning \/ BlockRun
    BY <2>1, OtherAttemptInv
    DEF AdmitChild, ChildrenSettle, EnsureRunning, BlockRun, Move, AttemptInv
  <2>2. ASSUME NEW q \in Question, RequestClarification(q) PROVE AttemptInv'
    BY <2>2, OtherAttemptInv DEF RequestClarification, Ask, Move, AttemptInv
  <2>3. CASE RequestCancellation
    BY <2>3, <1>4, OtherAttemptInv DEF RequestCancellation
  <2>4. CASE FinalizeCancellation
    BY <2>4, OtherAttemptInv DEF FinalizeCancellation, Move, AttemptInv
  <2>5. CASE FailRun \/ RecordCompletion
    BY <2>5, <1>3 DEF FailRun, RecordCompletion
  <2>6. ASSUME NEW ok \in BOOLEAN, FinishImplicit(ok) PROVE AttemptInv'
    BY <2>6, <1>3 DEF FinishImplicit
  <2>7. CASE TerminateRun
    BY <2>7, <1>4, OtherAttemptInv DEF TerminateRun, Move, AttemptInv
  <2>8. QED
    BY <1>5, <2>1, <2>2, <2>3, <2>4, <2>5, <2>6, <2>7 DEF RunStep
<1>6. CASE UNCHANGED vars
  BY <1>6, OtherAttemptInv DEF vars, AttemptInv
<1>7. QED
  BY <1>1, <1>2, <1>5, <1>6 DEF Next

\* An admitted Run has no attempts.
LEMMA InitAttemptInv == Init => ApprovalInv /\ AttemptInv
<1> SUFFICES ASSUME Init PROVE ApprovalInv /\ AttemptInv
  OBVIOUS
<1>1. \A a \in Action : attempts[a] = <<>> /\ action[a] = "none" /\ request[a] = "none"
  BY DEF Init, Request
<1>2. AttemptMatchesAction
  BY <1>1 DEF AttemptMatchesAction
<1>3. OneOpenAttempt
  BY <1>1 DEF OneOpenAttempt
<1>4. QED
  BY <1>1, <1>2, <1>3 DEF Init, ApprovalInv, AttemptInv

\* The inductive invariant behind the theorems on attempts.
THEOREM AttemptInvariant == Spec => [](TypeOK /\ ApprovalInv /\ AttemptInv)
BY InitType, StepType, InitAttemptInv, ApprovalInvStep, AttemptInvStep, PTL DEF Spec

\* No transaction finds that the latest attempt of a running or retrying
\* action contradicts it.
THEOREM AttemptsMatch == Spec => []AttemptMatchesAction
BY AttemptInvariant, PTL DEF AttemptInv

\* Until a cancellation is requested an action has at most one open attempt,
\* its latest, and only while it runs.
THEOREM OneOpen == Spec => []OneOpenAttempt
BY AttemptInvariant, PTL DEF AttemptInv

-----------------------------------------------------------------------------
(* The ends of a Run *)

EndInv == CancelledRunIsSettled /\ TerminalRunHasNoLiveChild /\ DeniedIsFinal

\* Where a transaction may move a Run that it finds terminal: nowhere.
LEMMA TerminalStays ==
  ASSUME run \in TerminalRun, NEW s \in RunStatus PROVE ~CanMove(run, s)
BY DEF CanMove, RunTransitions, RunStatus, TerminalRun

\* Every transaction keeps what is promised of the ends of a Run.
LEMMA EndInvStep == TypeOK /\ EndInv /\ [Next]_vars => EndInv'
<1> SUFFICES ASSUME TypeOK, EndInv, [Next]_vars PROVE EndInv'
  OBVIOUS
<1> USE StatusNames, TerminalStays
    DEF actionVars, EndInv, TypeOK, CancelledRunIsSettled, TerminalRunHasNoLiveChild,
        DeniedIsFinal, HasUnresolved, TerminalRun, TerminalAction, Move
<1>1. ASSUME NEW a \in Action, ActionStep(a) PROVE EndInv'
  <2>1. CASE AdmitAction(a)
    BY <2>1 DEF AdmitAction
  <2>2. ASSUME NEW e \in Epochs(a), BeginDispatch(a, e) \/ ReclaimLocal(a, e) PROVE EndInv'
    BY <2>2 DEF BeginDispatch, ReclaimLocal, StartAttempt, SetAction
  <2>3. ASSUME NEW ok \in BOOLEAN, NEW e \in Epochs(a), CompleteAction(a, ok, e)
        PROVE  EndInv'
    BY <2>3 DEF CompleteAction, SetAction
  <2>4. CASE LocalEffect(a)
    BY <2>4 DEF LocalEffect
  <2>5. CASE MarkOutcomeUnknown(a) \/ MarkRetryWait(a)
    <3>1. /\ action[a] = "running" /\ action'[a] # "none" /\ action'[a] \notin TerminalAction
          /\ \A b \in Action \ {a} : action'[b] = action[b]
          /\ UNCHANGED <<children, request>>
      BY <2>5 DEF MarkOutcomeUnknown, MarkRetryWait, SetAction
    <3>2. run' = run \/ (run' = "blocked" /\ run \notin TerminalRun)
      BY <2>5 DEF MarkOutcomeUnknown, MarkRetryWait
    <3>3. QED
      BY <3>1, <3>2
  <2>6. CASE BeginRetry(a)
    BY <2>6 DEF BeginRetry, StartAttempt, SetAction
  <2>7. CASE RequestApproval(a)
    BY <2>7 DEF RequestApproval, Ask, SetAction, Request
  <2>8. CASE RespondDeny(a)
    BY <2>8 DEF RespondDeny, SetAction, Request
  <2>9. ASSUME NEW res \in Resolution, Reconcile(a, version[a], res) PROVE EndInv'
    BY <2>9 DEF Reconcile, SetAction, CancelIfSettled
  <2>10. ASSUME NEW stopped \in BOOLEAN, CancelReceipt(a, stopped) PROVE EndInv'
    BY <2>10 DEF CancelReceipt, SetAction, CancelIfSettled
  <2>11. CASE ReconcileLocal(a)
    BY <2>11 DEF ReconcileLocal, SetAction
  <2>12. QED
    BY <1>1, <2>1, <2>2, <2>3, <2>4, <2>5, <2>6, <2>7, <2>8, <2>9, <2>10, <2>11
    DEF ActionStep
<1>2. ASSUME NEW r \in Request, RequestStep(r) PROVE EndInv'
  <2>1. CASE TimePasses(r)
    BY <2>1 DEF TimePasses
  <2>2. CASE RespondExpired(r)
    BY <2>2 DEF RespondExpired, Request
  <2>3. CASE RespondAnswer(r)
    BY <2>3 DEF RespondAnswer, SetAction, Request
  <2>4. QED
    BY <1>2, <2>1, <2>2, <2>3 DEF RequestStep
<1>3. ASSUME NEW status \in RunStatus \ {"cancelled"}, EndRun(status) PROVE EndInv'
  BY <1>3 DEF EndRun
<1>4. CASE RunStep
  <2>1. CASE AdmitChild \/ ChildrenSettle \/ EnsureRunning \/ BlockRun
    BY <2>1 DEF AdmitChild, ChildrenSettle, EnsureRunning, BlockRun
  <2>2. ASSUME NEW q \in Question, RequestClarification(q) PROVE EndInv'
    BY <2>2, RequestAssumption DEF RequestClarification, Ask, Request
  <2>3. CASE RequestCancellation
    BY <2>3 DEF RequestCancellation
  <2>4. CASE FinalizeCancellation
    BY <2>4 DEF FinalizeCancellation
  <2>5. CASE FailRun \/ RecordCompletion
    BY <2>5, <1>3 DEF FailRun, RecordCompletion
  <2>6. ASSUME NEW ok \in BOOLEAN, FinishImplicit(ok) PROVE EndInv'
    BY <2>6, <1>3 DEF FinishImplicit
  <2>7. CASE TerminateRun
    BY <2>7 DEF TerminateRun, SettleUndispatched
  <2>8. QED
    BY <1>4, <2>1, <2>2, <2>3, <2>4, <2>5, <2>6, <2>7 DEF RunStep
<1>5. CASE UNCHANGED vars
  BY <1>5 DEF vars
<1>6. QED
  BY <1>1, <1>2, <1>4, <1>5 DEF Next

\* An admitted Run has not ended and nothing of it is denied.
LEMMA InitEndInv == Init => EndInv
BY DEF Init, EndInv, CancelledRunIsSettled, TerminalRunHasNoLiveChild, DeniedIsFinal,
       HasUnresolved, Request, TerminalRun

\* The inductive invariant behind the theorems on the ends of a Run: a settled
\* Run stays settled.
THEOREM EndInvariant == Spec => [](TypeOK /\ EndInv)
BY InitType, StepType, InitEndInv, EndInvStep, PTL DEF Spec

\* A cancelled Run has no unsettled action, then and ever after.
THEOREM CancelledIsSettled == Spec => []CancelledRunIsSettled
BY EndInvariant, PTL DEF EndInv

\* A Run ends after its children.
THEOREM ChildrenEndFirst == Spec => []TerminalRunHasNoLiveChild
BY EndInvariant, PTL DEF EndInv

\* A denied action is never dispatched.
THEOREM DenialIsFinal == Spec => []DeniedIsFinal
BY EndInvariant, PTL DEF EndInv

-----------------------------------------------------------------------------
(* Steps of the Run *)

\* Every transaction moves the Run by the table or leaves it.
LEMMA StepFollowsTable == [Next]_vars => UNCHANGED run \/ CanMove(run, run')
<1> SUFFICES ASSUME [Next]_vars PROVE UNCHANGED run \/ CanMove(run, run')
  OBVIOUS
<1> USE DEF Move, actionVars
<1>1. CanMove("blocked", "queued") /\ CanMove("cancelling", "cancelled")
  BY DEF CanMove, RunTransitions, RunStatus, TerminalRun
<1>2. ASSUME NEW a \in Action, ActionStep(a) PROVE UNCHANGED run \/ CanMove(run, run')
  <2>1. ASSUME NEW res \in Resolution, Reconcile(a, version[a], res)
        PROVE  UNCHANGED run \/ CanMove(run, run')
    BY <1>1, <2>1 DEF Reconcile, CancelIfSettled
  <2>2. ASSUME NEW stopped \in BOOLEAN, CancelReceipt(a, stopped)
        PROVE  UNCHANGED run \/ CanMove(run, run')
    BY <1>1, <2>2 DEF CancelReceipt, CancelIfSettled
  <2>3. ASSUME NEW e \in Epochs(a), NEW ok \in BOOLEAN,
               BeginDispatch(a, e) \/ ReclaimLocal(a, e) \/ CompleteAction(a, ok, e)
        PROVE  UNCHANGED run
    BY <2>3 DEF BeginDispatch, ReclaimLocal, StartAttempt, CompleteAction
  <2>4. CASE AdmitAction(a) \/ LocalEffect(a) \/ MarkRetryWait(a) \/ ReconcileLocal(a) \/ BeginRetry(a)
    BY <2>4 DEF AdmitAction, LocalEffect, MarkRetryWait, ReconcileLocal, BeginRetry, StartAttempt
  <2>5. CASE MarkOutcomeUnknown(a)
    BY <2>5 DEF MarkOutcomeUnknown
  <2>6. CASE RequestApproval(a)
    BY <2>6 DEF RequestApproval, Ask
  <2>7. CASE RespondDeny(a)
    BY <2>7 DEF RespondDeny
  <2>8. QED
    BY <1>2, <2>1, <2>2, <2>3, <2>4, <2>5, <2>6, <2>7 DEF ActionStep
<1>3. ASSUME NEW r \in Request, RequestStep(r) PROVE UNCHANGED run \/ CanMove(run, run')
  BY <1>3 DEF RequestStep, TimePasses, RespondExpired, RespondAnswer
<1>4. CASE RunStep
  BY <1>4 DEF RunStep, AdmitChild, ChildrenSettle, EnsureRunning, RequestClarification, Ask,
       RequestCancellation, FinalizeCancellation, BlockRun, FailRun, RecordCompletion,
       TerminateRun, FinishImplicit, EndRun
<1>5. CASE UNCHANGED vars
  BY <1>5 DEF vars
<1>6. QED
  BY <1>2, <1>3, <1>4, <1>5 DEF Next

\* Every step of a Run is in RUN_TRANSITIONS.
THEOREM RunMovesByTable == Spec => RunFollowsTable
BY StepFollowsTable, PTL DEF Spec, RunFollowsTable

\* No transaction on a cancelling Run makes an action ready or running.
LEMMA CancellingStartsNothing ==
  ASSUME TypeOK, [Next]_vars, run = "cancelling", NEW b \in Action,
         action'[b] \in {"ready", "running"}
  PROVE  action'[b] = action[b]
<1> USE DEF TypeOK, actionVars
<1>1. \A s \in {"waiting_input", "queued", "running"} : ~CanMove(run, s)
  BY DEF CanMove, RunTransitions, RunStatus, TerminalRun
<1>2. ASSUME NEW a \in Action, ActionStep(a) PROVE action'[b] = action[b]
  <2>1. CASE AdmitAction(a)
    BY <2>1 DEF AdmitAction
  <2>2. ASSUME NEW e \in Epochs(a), BeginDispatch(a, e) PROVE FALSE
    BY <2>2 DEF BeginDispatch
  <2>3. ASSUME NEW e \in Epochs(a), ReclaimLocal(a, e) PROVE FALSE
    BY <2>3 DEF ReclaimLocal
  <2>4. ASSUME NEW ok \in BOOLEAN, NEW e \in Epochs(a), CompleteAction(a, ok, e)
        PROVE  action'[b] = action[b]
    BY <2>4 DEF CompleteAction, SetAction
  <2>5. CASE LocalEffect(a)
    BY <2>5 DEF LocalEffect
  <2>6. CASE MarkOutcomeUnknown(a) \/ MarkRetryWait(a)
    BY <2>6 DEF MarkOutcomeUnknown, MarkRetryWait, SetAction
  <2>7. CASE BeginRetry(a) \/ RequestApproval(a) \/ RespondDeny(a)
    BY <2>7 DEF BeginRetry, RequestApproval, RespondDeny
  <2>8. ASSUME NEW res \in Resolution, Reconcile(a, version[a], res)
        PROVE  action'[b] = action[b]
    <3>1. ResolvedStatus(res) \notin {"ready", "running"}
      BY DEF ResolvedStatus
    <3>2. QED
      BY <2>8, <3>1 DEF Reconcile, SetAction
  <2>9. ASSUME NEW stopped \in BOOLEAN, CancelReceipt(a, stopped) PROVE action'[b] = action[b]
    BY <2>9 DEF CancelReceipt, SetAction
  <2>10. CASE ReconcileLocal(a)
    BY <2>10 DEF ReconcileLocal, SetAction
  <2>11. QED
    BY <1>2, <2>1, <2>2, <2>3, <2>4, <2>5, <2>6, <2>7, <2>8, <2>9, <2>10 DEF ActionStep
<1>3. ASSUME NEW r \in Request, RequestStep(r) PROVE action'[b] = action[b]
  BY <1>3 DEF RequestStep, TimePasses, RespondExpired, RespondAnswer
<1>4. CASE RunStep
  <2>1. SettleUndispatched[b] \notin {"ready", "running"} \/ SettleUndispatched[b] = action[b]
    BY DEF SettleUndispatched
  <2>2. QED
    BY <1>1, <1>4, <2>1 DEF RunStep, AdmitChild, ChildrenSettle, EnsureRunning,
       RequestClarification, Ask, RequestCancellation, FinalizeCancellation, BlockRun,
       FailRun, RecordCompletion, TerminateRun, FinishImplicit, EndRun
<1>5. CASE UNCHANGED vars
  BY <1>5 DEF vars
<1>6. QED
  BY <1>2, <1>3, <1>4, <1>5 DEF Next

\* While a Run is cancelling nothing becomes dispatchable or is dispatched.
THEOREM CancellingIsQuiet == Spec => NoWorkWhileCancelling
<1>1. TypeOK /\ [Next]_vars =>
        [run = "cancelling" => \A a \in Action :
           action'[a] \in {"ready", "running"} => action'[a] = action[a]]_vars
  BY CancellingStartsNothing
<1>2. QED
  BY <1>1, TypeCorrect, PTL DEF Spec, NoWorkWhileCancelling
-----------------------------------------------------------------------------
(* Wakeups and requests *)

\* A queued or waiting Run is where the transaction found it, with the same
\* jobs, or the transaction has given it a wakeup or a request.
WakesOrAsks ==
  /\ run' = "queued" => \/ UNCHANGED <<run, jobs>>
                        \/ jobs' = Append(jobs, NewJob("advance_run"))
  /\ run' = "waiting_input" =>
       \/ \E r \in Request : request'[r] = "pending"
       \/ UNCHANGED run /\ \A r \in Request : request'[r] \in {request[r], "expired"}

\* A question that is put to the user is pending.
LEMMA AskIsPending == ASSUME TypeOK, NEW r \in Request, Ask(r) PROVE WakesOrAsks
BY DEF Ask, Move, TypeOK, WakesOrAsks

\* No transaction leaves a Run queued or waiting without what wakes it up.
LEMMA StepWakesOrAsks == TypeOK /\ [Next]_vars => WakesOrAsks
<1> SUFFICES ASSUME TypeOK, [Next]_vars PROVE WakesOrAsks
  OBVIOUS
<1> USE DEF WakesOrAsks, actionVars, Move
<1>1. ASSUME NEW a \in Action, ActionStep(a) PROVE WakesOrAsks
  <2>1. CASE AdmitAction(a) \/ LocalEffect(a) \/ MarkRetryWait(a) \/ BeginRetry(a)
    BY <2>1 DEF AdmitAction, LocalEffect, MarkRetryWait, BeginRetry, StartAttempt
  <2>2. ASSUME NEW e \in Epochs(a), NEW ok \in BOOLEAN,
               BeginDispatch(a, e) \/ ReclaimLocal(a, e) \/ CompleteAction(a, ok, e)
        PROVE  WakesOrAsks
    BY <2>2 DEF BeginDispatch, ReclaimLocal, StartAttempt, CompleteAction
  <2>3. CASE MarkOutcomeUnknown(a) \/ RespondDeny(a) \/ ReconcileLocal(a)
    BY <2>3 DEF MarkOutcomeUnknown, RespondDeny, ReconcileLocal
  <2>4. CASE RequestApproval(a)
    BY <2>4, AskIsPending DEF RequestApproval, Request
  <2>5. ASSUME NEW res \in Resolution, Reconcile(a, version[a], res) PROVE WakesOrAsks
    BY <2>5 DEF Reconcile, CancelIfSettled, Enqueue
  <2>6. ASSUME NEW stopped \in BOOLEAN, CancelReceipt(a, stopped) PROVE WakesOrAsks
    BY <2>6 DEF CancelReceipt, CancelIfSettled
  <2>7. QED
    BY <1>1, <2>1, <2>2, <2>3, <2>4, <2>5, <2>6 DEF ActionStep
<1>2. ASSUME NEW r \in Request, RequestStep(r) PROVE WakesOrAsks
  <2>1. CASE TimePasses(r)
    BY <2>1 DEF TimePasses
  <2>2. CASE RespondExpired(r)
    BY <2>2 DEF RespondExpired, TypeOK
  <2>3. CASE RespondAnswer(r)
    BY <2>3 DEF RespondAnswer, Enqueue
  <2>4. QED
    BY <1>2, <2>1, <2>2, <2>3 DEF RequestStep
<1>3. ASSUME NEW status \in {"succeeded", "failed"}, EndRun(status) PROVE WakesOrAsks
  BY <1>3 DEF EndRun
<1>4. CASE RunStep
  <2>1. CASE AdmitChild \/ ChildrenSettle \/ EnsureRunning \/ BlockRun
    BY <2>1 DEF AdmitChild, ChildrenSettle, EnsureRunning, BlockRun
  <2>2. ASSUME NEW q \in Question, RequestClarification(q) PROVE WakesOrAsks
    BY <2>2, AskIsPending DEF RequestClarification, Request
  <2>3. CASE RequestCancellation \/ FinalizeCancellation \/ TerminateRun
    BY <2>3 DEF RequestCancellation, FinalizeCancellation, TerminateRun
  <2>4. CASE FailRun \/ RecordCompletion
    BY <2>4, <1>3 DEF FailRun, RecordCompletion
  <2>5. ASSUME NEW ok \in BOOLEAN, FinishImplicit(ok) PROVE WakesOrAsks
    BY <2>5, <1>3 DEF FinishImplicit
  <2>6. QED
    BY <1>4, <2>1, <2>2, <2>3, <2>4, <2>5 DEF RunStep
<1>5. CASE UNCHANGED vars
  BY <1>5 DEF vars
<1>6. QED
  BY <1>1, <1>2, <1>4, <1>5 DEF Next

\* A wakeup that is in the table stays there when a row is added, and a new
\* one is live.
LEMMA QueuedStep == TypeOK /\ QueuedHasWakeup /\ [Next]_vars => QueuedHasWakeup'
<1> SUFFICES ASSUME TypeOK, QueuedHasWakeup, [Next]_vars, run' = "queued"
             PROVE  \E i \in DOMAIN jobs' :
                      jobs'[i].kind = "advance_run" /\ jobs'[i].status # "done"
  BY DEF QueuedHasWakeup
<1>1. CASE UNCHANGED <<run, jobs>>
  BY <1>1 DEF QueuedHasWakeup
<1>2. CASE jobs' = Append(jobs, NewJob("advance_run"))
  <2>1. NewJob("advance_run") \in Job /\ jobs \in Seq(Job)
    BY DEF TypeOK, NewJob, Job, JobKind, JobStatus
  <2>2. /\ jobs'[Len(jobs) + 1] = NewJob("advance_run")
        /\ Len(jobs) + 1 \in DOMAIN jobs'
    BY <1>2, <2>1, AppendProperties
  <2>3. QED
    BY <2>2 DEF NewJob
<1>3. QED
  BY <1>1, <1>2, StepWakesOrAsks DEF WakesOrAsks

\* An undecided request stays undecided while the Run waits.
LEMMA WaitingStep ==
  TypeOK /\ WaitingHasUndecidedRequest /\ [Next]_vars => WaitingHasUndecidedRequest'
<1>1. UNCHANGED Request
  BY DEF Request
<1>2. QED
  BY <1>1, StepWakesOrAsks DEF WakesOrAsks, WaitingHasUndecidedRequest

\* A queued Run always has a wakeup: no transaction retires the jobs of a Run
\* that it leaves in the queue.
THEOREM QueuedIsWoken == Spec => []QueuedHasWakeup
<1>1. Init => QueuedHasWakeup
  BY DEF Init, QueuedHasWakeup, NewJob
<1>2. QED
  BY <1>1, InitType, StepType, QueuedStep, PTL DEF Spec

\* A Run that waits for input has a request to wait for.
THEOREM WaitsForARequest == Spec => []WaitingHasUndecidedRequest
<1>1. Init => WaitingHasUndecidedRequest
  BY DEF Init, WaitingHasUndecidedRequest
<1>2. QED
  BY <1>1, InitType, StepType, WaitingStep, PTL DEF Spec

-----------------------------------------------------------------------------
(* External effects                                                         *)

Remote(a) == Semantics[a] = "remote_idempotent"
Clean(a)  == Quiet(a) /\ applied[a] = 0
Busy(c)   == caller[c].pc \in {"begun", "sent"}

(* The inductive invariant behind EffectAtMostOnce *)

\* A caller with a request has an attempt within the bound; one with evidence
\* has a resolution.
CallerOK ==
  \A c \in Caller :
    /\ Busy(c) => Id(c) \in RequestId
    /\ At(c, "evidence") => caller[c].fact \in Resolution

\* Evidence that an effect has not happened stays true as long as the version
\* it was asked for is the version of the action.
EvidenceOK ==
  \A c \in Caller :
    /\ caller[c].pc \in {"read", "evidence"} => caller[c].num <= version[caller[c].act]
    /\ /\ At(c, "evidence")
       /\ caller[c].num = version[caller[c].act]
       /\ caller[c].fact # "confirmed_applied"
       => Clean(caller[c].act)

\* At most one request of an action is on the network or about to be sent.
OnePending(a) ==
  /\ \A x, y \in wire : x[1] = a /\ y[1] = a => x = y
  /\ \A c \in Caller : At(c, "begun") /\ caller[c].act = a =>
       /\ \A x \in wire : x[1] # a
       /\ \A d \in Caller : At(d, "begun") /\ caller[d].act = a => d = c

\* An action without a key: it is dispatched from a clean slate, and the
\* request that applied it was the only one.
UnsafeOnce(a) ==
  /\ OnePending(a)
  /\ action[a] \in {"none", "ready"} => Clean(a)
  /\ applied[a] = 0 \/ (applied[a] = 1 /\ Quiet(a))

\* An action with a key: it is applied when the result of its key is saved.
RemoteOnce(a) == applied[a] = IF saved[<<a, 0>>] = "ok" THEN 1 ELSE 0

OnceInv ==
  /\ CallerOK /\ EvidenceOK
  /\ \A a \in Action : IF Remote(a) THEN RemoteOnce(a) ELSE UnsafeOnce(a)

(* The inductive invariant behind OutcomeIsTrue and OneDispatcherAtATime *)

\* Evidence that an effect has happened is true for ever.
AppliedOK ==
  \A c \in Caller :
    At(c, "evidence") /\ caller[c].fact = "confirmed_applied" => applied[caller[c].act] > 0

\* A caller with a request is the only one of its action, which is running
\* its attempt, and only that attempt tells whether the effect has happened.
BusyOK(c) ==
  LET a == caller[c].act
  IN  /\ action[a] = "running" /\ caller[c].num = Len(attempts[a])
      /\ \A d \in Caller : Busy(d) /\ caller[d].act = a => d = c
      /\ At(c, "begun") => Id(c) \notin wire \cup answered
      /\ ~Remote(a) => /\ applied[a] = 1 <=> saved[Id(c)] = "ok"
                       /\ \A x \in wire : x[1] = a => x = Id(c)

\* No request is beyond the attempts of its action, and what is answered is
\* off the network and saved.
WireOK ==
  /\ \A x \in wire \cup answered : x[2] <= Len(attempts[x[1]])
  /\ \A x \in RequestId : saved[x] # "none" => x[2] <= Len(attempts[x[1]])
  /\ wire \cap answered = {}
  /\ \A x \in answered : saved[KeyOf(x)] # "none"

\* The effect has not happened and will not.
Refused(a) == applied[a] = 0 /\ IF Remote(a) THEN saved[<<a, 0>>] = "refused" ELSE Quiet(a)

OutcomeOK(a) ==
  /\ action[a] = "succeeded" => applied[a] = 1
  /\ action[a] = "failed" => Refused(a)

TruthInv ==
  /\ AppliedOK
  /\ ~intent => /\ WireOK
                /\ \A c \in Caller : Busy(c) => BusyOK(c)
                /\ \A a \in Action : OutcomeOK(a)
-----------------------------------------------------------------------------
(* Callers and the kernel *)

CallerState ==
  {Idle} \cup [pc : {"begun", "sent", "read", "evidence", "stop"}, act : Action,
               num : Nat, fact : {"none", "stopped", "acknowledged"} \cup Resolution]

\* A caller that is not idle has an action, a number and a fact.
LEMMA CallerFields ==
  ASSUME ETypeOK, NEW c \in Caller, ~At(c, "idle")
  PROVE  /\ caller[c] \in CallerState /\ caller[c].act \in Action /\ caller[c].num \in Nat
         /\ caller[c] = Doing(caller[c].pc, caller[c].act, caller[c].num, caller[c].fact)
         /\ caller[c].pc \in {"begun", "sent", "read", "evidence", "stop"}
BY DEF ETypeOK, CallerState, At, Idle, Doing

\* A caller that moves is the only one that moves.
LEMMA GotoOne ==
  ASSUME ETypeOK, NEW c \in Caller, NEW s, Goto(c, s)
  PROVE  /\ caller'[c] = s /\ \A d \in Caller : d # c => caller'[d] = caller[d]
         /\ s \in CallerState => caller' \in [Caller -> CallerState]
BY DEF ETypeOK, Goto, CallerState

\* The states the steps of the coordinator go to.
LEMMA States ==
  /\ Idle \in CallerState /\ Idle.pc = "idle"
  /\ \A a \in Action, n \in Nat :
       /\ Doing("begun", a, n, "none") \in CallerState
       /\ Doing("sent", a, n, "none") \in CallerState
       /\ Doing("read", a, n, "none") \in CallerState
       /\ \A fact \in Resolution : Doing("evidence", a, n, fact) \in CallerState
       /\ Doing("stop", a, n, "stopped") \in CallerState
       /\ Doing("stop", a, n, "acknowledged") \in CallerState
BY DEF Idle, Doing, CallerState

\* Every step of the composition is a transaction of the kernel or leaves its
\* tables alone.
LEMMA KernelStep == ETypeOK /\ CallerOK /\ [ENext]_recoveryVars => [Next]_vars
<1> SUFFICES ASSUME ETypeOK, CallerOK, [ENext]_recoveryVars PROVE [Next]_vars
  OBVIOUS
<1>1. ASSUME NEW c \in Caller, NEW a \in Action, Begin(c, a) PROVE [Next]_vars
  <2>1. 0 \in Epochs(a)
    BY BoundsAssumption DEF Epochs
  <2>2. QED
    BY <1>1, <2>1 DEF Begin, Next, ActionStep
<1>2. ASSUME NEW c \in Caller, NEW a \in Action, ReadUnknown(c, a) \/ AskStop(c, a)
      PROVE  [Next]_vars
  BY <1>2 DEF ReadUnknown, AskStop
<1>3. ASSUME NEW c \in Caller, Send(c) \/ GetEvidence(c) \/ Crash(c) PROVE [Next]_vars
  BY <1>3 DEF Send, GetEvidence, Crash
<1>4. ASSUME NEW c \in Caller, Receive(c) \/ Ambiguous(c) \/ CommitEvidence(c) \/ CommitStop(c)
      PROVE  [Next]_vars
  <2>1. ~At(c, "idle") /\ caller[c].act \in Action
    BY <1>4, CallerFields DEF Receive, Ambiguous, CommitEvidence, CommitStop, At
  <2> DEFINE a == caller[c].act
  <2>2. CASE Receive(c)
    <3>1. 0 \in Epochs(a)
      BY BoundsAssumption DEF Epochs
    <3>2. UNCHANGED vars \/ \E ok \in BOOLEAN : CompleteAction(a, ok, 0)
      BY <2>2 DEF Receive, Commit
    <3>3. QED
      BY <2>1, <3>1, <3>2 DEF Next, ActionStep
  <2>3. CASE Ambiguous(c)
    BY <2>1, <2>3 DEF Ambiguous, Commit, Next, ActionStep
  <2>4. CASE CommitEvidence(c)
    <3>1. caller[c].fact \in Resolution
      BY <2>4 DEF CommitEvidence, CallerOK
    <3>2. UNCHANGED vars \/ Reconcile(a, version[a], caller[c].fact)
      BY <2>4 DEF CommitEvidence, Commit
    <3>3. QED
      BY <2>1, <3>1, <3>2 DEF Next, ActionStep
  <2>5. CASE CommitStop(c)
    <3>1. UNCHANGED vars \/ \E stopped \in BOOLEAN : CancelReceipt(a, stopped)
      BY <2>5 DEF CommitStop, Commit
    <3>2. QED
      BY <2>1, <3>1 DEF Next, ActionStep
  <2>6. QED
    BY <1>4, <2>2, <2>3, <2>4, <2>5
<1>5. ASSUME NEW x \in RequestId, Lose(x) \/ \E result \in {"ok", "refused"} : Handle(x, result)
      PROVE  [Next]_vars
  BY <1>5 DEF Lose, Handle
<1>6. CASE Kernel
  BY <1>6 DEF Kernel, Next, ActionStep, RunStep
<1>7. CASE UNCHANGED recoveryVars
  BY <1>7 DEF recoveryVars
<1>8. QED
  BY <1>1, <1>2, <1>3, <1>4, <1>5, <1>6, <1>7 DEF ENext, CallerStep

\* Every step keeps the callers and the service well formed.
LEMMA EStepType == ETypeOK /\ CallerOK /\ [ENext]_recoveryVars => ETypeOK'
<1> SUFFICES ASSUME ETypeOK, CallerOK, [ENext]_recoveryVars PROVE ETypeOK'
  OBVIOUS
<1>1. TypeOK'
  BY KernelStep, StepType DEF ETypeOK
<1> SUFFICES /\ caller' \in [Caller -> CallerState] /\ wire' \subseteq RequestId
             /\ answered' \subseteq RequestId /\ saved' \in [Key -> Result]
             /\ applied' \in [Action -> Nat]
  BY <1>1 DEF ETypeOK, CallerState
<1>2. /\ caller \in [Caller -> CallerState] /\ wire \subseteq RequestId
      /\ answered \subseteq RequestId /\ saved \in [Key -> Result]
      /\ applied \in [Action -> Nat]
  BY DEF ETypeOK, CallerState
<1> USE DEF serviceVars
<1>3. ASSUME NEW c \in Caller, NEW a \in Action, Begin(c, a) \/ ReadUnknown(c, a) \/ AskStop(c, a)
      PROVE  caller' \in [Caller -> CallerState] /\ UNCHANGED serviceVars
  <2>1. Len(attempts[a]) + 1 \in Nat /\ version[a] \in Nat /\ 0 \in Nat
    BY LenProperties DEF ETypeOK, TypeOK
  <2>2. QED
    BY <1>3, <2>1, GotoOne, States DEF Begin, ReadUnknown, AskStop
<1>4. ASSUME NEW c \in Caller, Receive(c) \/ Ambiguous(c) \/ CommitEvidence(c) \/ CommitStop(c) \/ Crash(c)
      PROVE  caller' \in [Caller -> CallerState] /\ UNCHANGED serviceVars
  BY <1>4, GotoOne, States DEF Receive, Ambiguous, CommitEvidence, CommitStop, Crash, Commit
<1>5. ASSUME NEW c \in Caller, Send(c)
      PROVE  /\ caller' \in [Caller -> CallerState] /\ wire' \subseteq RequestId
             /\ UNCHANGED <<answered, saved, applied>>
  <2>1. Id(c) \in RequestId
    BY <1>5 DEF Send, CallerOK, Busy, At
  <2>2. Doing("sent", caller[c].act, caller[c].num, "none") \in CallerState
    BY <1>5, CallerFields, States DEF Send, At
  <2>3. QED
    BY <1>2, <1>5, <2>1, <2>2, GotoOne DEF Send
<1>6. ASSUME NEW c \in Caller, GetEvidence(c)
      PROVE  caller' \in [Caller -> CallerState] /\ UNCHANGED serviceVars
  <2>1. PICK fact \in Evidence(caller[c].act) :
          Goto(c, Doing("evidence", caller[c].act, caller[c].num, fact))
    BY <1>6 DEF GetEvidence
  <2>2. fact \in Resolution
    BY DEF Evidence, Resolution
  <2>3. Doing("evidence", caller[c].act, caller[c].num, fact) \in CallerState
    BY <1>6, <2>2, CallerFields, States DEF GetEvidence, At
  <2>4. QED
    BY <1>6, <2>1, <2>3, GotoOne DEF GetEvidence
<1>7. ASSUME NEW x \in RequestId, Lose(x)
      PROVE  caller' = caller /\ wire' \subseteq wire /\ UNCHANGED <<answered, saved, applied>>
  BY <1>7 DEF Lose
<1>8. ASSUME NEW x \in RequestId, NEW result \in {"ok", "refused"}, Handle(x, result)
      PROVE  /\ caller' = caller /\ wire' \subseteq wire /\ answered' \subseteq RequestId
             /\ saved' \in [Key -> Result] /\ applied' \in [Action -> Nat]
  BY <1>2, <1>8 DEF Handle, Result, RequestId
<1>9. CASE Kernel \/ UNCHANGED recoveryVars
  BY <1>2, <1>9 DEF Kernel, recoveryVars
<1>10. QED
  BY <1>2, <1>3, <1>4, <1>5, <1>6, <1>7, <1>8, <1>9 DEF ENext, CallerStep
-----------------------------------------------------------------------------
(* An effect happens at most once *)

\* What the transactions of the kernel do to the version of an action.
LEMMA SetActionVersion ==
  ASSUME TypeOK, NEW a \in Action, NEW s, SetAction(a, s)
  PROVE  /\ version[a] < version'[a] /\ action'[a] = s
         /\ \A b \in Action : version[b] <= version'[b]
         /\ \A b \in Action \ {a} : action'[b] = action[b]
BY BoundsAssumption DEF SetAction, TypeOK

\* The version of an action is a natural number.
LEMMA VersionNat == ASSUME TypeOK, NEW a \in Action PROVE version[a] \in Nat
BY BoundsAssumption DEF TypeOK

\* A step that sends and applies nothing, gives no evidence and clears no
\* action for dispatch.
Calm ==
  /\ wire' \subseteq wire /\ UNCHANGED <<saved, applied>>
  /\ \A d \in Caller :
       \/ caller'[d] = caller[d]
       \/ caller'[d].pc \in {"idle", "stop"}
       \/ caller'[d].pc = "read" /\ caller'[d].num <= version[caller'[d].act]
  /\ \A a \in Action :
       /\ version[a] <= version'[a]
       /\ action'[a] \in {"none", "ready"} => action[a] \in {"none", "ready"}

\* Nothing can reach the service after a step that sends nothing.
LEMMA CalmQuiet ==
  ASSUME wire' \subseteq wire,
         \A d \in Caller : caller'[d] = caller[d] \/ caller'[d].pc # "begun",
         NEW a, Quiet(a)
  PROVE  Quiet(a)'
BY DEF Quiet, At

\* A calm step keeps the invariant.
LEMMA CalmOnce == ASSUME ETypeOK, ETypeOK', OnceInv, Calm PROVE OnceInv'
<1>1. \A d \in Caller : caller'[d] = caller[d] \/ caller'[d].pc \notin {"begun", "sent", "evidence"}
  BY DEF Calm
<1>2. ASSUME NEW a \in Action, Clean(a) PROVE Clean(a)'
  BY <1>1, <1>2, CalmQuiet DEF Calm, Clean
<1>3. CallerOK'
  BY <1>1 DEF OnceInv, CallerOK, Busy, At, Id
<1>4. EvidenceOK'
  <2> SUFFICES ASSUME NEW c \in Caller, (caller[c].pc \in {"read", "evidence"})'
               PROVE  /\ caller'[c].num <= version'[caller'[c].act]
                      /\ /\ caller'[c].pc = "evidence"
                         /\ caller'[c].num = version'[caller'[c].act]
                         /\ caller'[c].fact # "confirmed_applied"
                         => Clean(caller[c].act)'
    BY DEF EvidenceOK, At
  <2> DEFINE a == caller'[c].act
  <2>1. a \in Action /\ caller'[c].num \in Nat
    BY DEF ETypeOK, Idle
  <2>2. version[a] \in Nat /\ version'[a] \in Nat /\ version[a] <= version'[a]
    BY <2>1, VersionNat, BoundsAssumption DEF Calm, ETypeOK, TypeOK
  <2>3. CASE caller'[c] = caller[c]
    <3>1. caller'[c].num <= version[a]
      BY <2>3 DEF OnceInv, EvidenceOK
    <3>2. caller'[c].num = version'[a] => caller'[c].num = version[a]
      BY <3>1, <2>1, <2>2
    <3>3. QED
      BY <1>2, <2>1, <2>2, <2>3, <3>1, <3>2 DEF OnceInv, EvidenceOK, At
  <2>4. CASE caller'[c] # caller[c]
    <3>1. caller'[c].pc = "read" /\ caller'[c].num <= version[a]
      BY <2>4 DEF Calm
    <3>2. QED
      BY <2>1, <2>2, <3>1
  <2>5. QED
    BY <2>3, <2>4
<1>5. ASSUME NEW a \in Action, Remote(a) PROVE RemoteOnce(a)'
  BY <1>5 DEF OnceInv, RemoteOnce, Calm
<1>6. ASSUME NEW a \in Action, ~Remote(a) PROVE UnsafeOnce(a)'
  <2>1. UnsafeOnce(a)
    BY <1>6 DEF OnceInv
  <2>2. OnePending(a)'
    BY <1>1, <2>1 DEF UnsafeOnce, OnePending, Calm, At
  <2>3. Quiet(a) => Quiet(a)'
    BY <1>1, CalmQuiet DEF Calm
  <2>4. QED
    BY <1>2, <2>1, <2>2, <2>3 DEF UnsafeOnce, Calm
<1>7. QED
  BY <1>3, <1>4, <1>5, <1>6 DEF OnceInv, Remote

\* The steps that send and apply nothing, give no evidence and commit none.
CalmStep ==
  \/ \E c \in Caller, a \in Action : ReadUnknown(c, a) \/ AskStop(c, a)
  \/ \E c \in Caller : Receive(c) \/ Ambiguous(c) \/ CommitStop(c) \/ Crash(c)
  \/ \E x \in RequestId : Lose(x)
  \/ Kernel \/ UNCHANGED recoveryVars

\* They are calm.
LEMMA CalmSteps == ASSUME ETypeOK, CalmStep PROVE Calm
<1> USE VersionNat DEF serviceVars, ETypeOK
<1>1. ASSUME NEW c \in Caller, NEW a \in Action, ReadUnknown(c, a) PROVE Calm
  BY <1>1, GotoOne DEF ReadUnknown, Calm, Doing, vars, actionVars
<1>2. ASSUME NEW c \in Caller, NEW a \in Action, AskStop(c, a) PROVE Calm
  BY <1>2, GotoOne DEF AskStop, Calm, Doing, vars, actionVars
<1>3. ASSUME NEW c \in Caller, Receive(c) \/ Ambiguous(c) \/ CommitStop(c) PROVE Calm
  <2>1. caller[c].act \in Action
    BY <1>3, CallerFields DEF Receive, Ambiguous, CommitStop, At
  <2>2. \A d \in Caller : caller'[d] = caller[d] \/ caller'[d].pc = "idle"
    BY <1>3, GotoOne, States DEF Receive, Ambiguous, CommitStop, Commit
  <2>3. \/ UNCHANGED vars
        \/ \E s \in {"succeeded", "failed", "retry_wait", "outcome_unknown", "cancelled",
                     "waiting_external"} : SetAction(caller[c].act, s)
    BY <1>3 DEF Receive, Ambiguous, CommitStop, Commit, CompleteAction, MarkRetryWait,
                MarkOutcomeUnknown, CancelReceipt
  <2>4. \A b \in Action :
          /\ version[b] <= version'[b]
          /\ action'[b] \in {"none", "ready"} => action[b] \in {"none", "ready"}
    BY <2>1, <2>3, SetActionVersion DEF vars, actionVars
  <2>5. QED
    BY <1>3, <2>2, <2>4 DEF Receive, Ambiguous, CommitStop, Commit, Calm
<1>4. ASSUME NEW c \in Caller, Crash(c) PROVE Calm
  BY <1>4, GotoOne, States DEF Crash, Calm, vars, actionVars
<1>5. CASE UNCHANGED recoveryVars \/ \E x \in RequestId : Lose(x)
  BY <1>5 DEF Lose, Calm, vars, actionVars, recoveryVars
<1>6. CASE Kernel
  <2>1. \A b \in Action :
          /\ version[b] <= version'[b]
          /\ action'[b] \in {"none", "ready"} => action[b] \in {"none", "ready"}
    BY <1>6 DEF Kernel, AdmitAction, EnsureRunning, RequestCancellation, FinalizeCancellation,
       FailRun, EndRun, TerminateRun, SettleUndispatched, TypeOK, actionVars
  <2>2. QED
    BY <1>6, <2>1 DEF Kernel, Calm
<1>7. QED
  BY <1>1, <1>2, <1>3, <1>4, <1>5, <1>6 DEF CalmStep

\* A dispatch starts from a clean slate and leaves one request pending.
LEMMA BeginOnce ==
  ASSUME ETypeOK, ETypeOK', OnceInv, AttemptInv,
         NEW c \in Caller, NEW a \in Action, Begin(c, a)
  PROVE  OnceInv'
<1>1. /\ action[a] = "ready" \/ (action[a] = "retry_wait" /\ Remote(a))
      /\ SetAction(a, "running") /\ Len(attempts[a]) < MaxAttempts
  BY DEF Begin, BeginDispatch, BeginRetry, StartAttempt, Remote
<1>2. /\ action'[a] = "running" /\ version[a] < version'[a]
      /\ \A b \in Action : version[b] <= version'[b]
      /\ \A b \in Action \ {a} : action'[b] = action[b]
  BY <1>1, SetActionVersion DEF ETypeOK
<1>3. /\ At(c, "idle") /\ caller'[c] = Doing("begun", a, Len(attempts[a]) + 1, "none")
      /\ \A d \in Caller : d # c => caller'[d] = caller[d]
      /\ UNCHANGED <<wire, answered, saved, applied>>
  BY GotoOne DEF Begin, serviceVars
<1>4. /\ caller'[c].pc = "begun" /\ caller'[c].act = a /\ caller'[c].num = Len(attempts[a]) + 1
  BY <1>3 DEF Doing
<1>5. Len(attempts[a]) + 1 \in 1..MaxAttempts
  BY <1>1, LenProperties, BoundsAssumption DEF ETypeOK, TypeOK
<1>6. ASSUME NEW b \in Action, b # a, Quiet(b) PROVE Quiet(b)'
  BY <1>3, <1>4, <1>6 DEF Quiet, At
<1>7. CallerOK'
  <2>1. Id(c)' \in RequestId
    BY <1>4, <1>5 DEF Id, RequestId
  <2>2. QED
    BY <1>3, <1>4, <2>1 DEF OnceInv, CallerOK, Busy, At, Id
<1>8. EvidenceOK'
  <2> SUFFICES ASSUME NEW d \in Caller, (caller[d].pc \in {"read", "evidence"})'
               PROVE  /\ caller'[d].num <= version'[caller'[d].act]
                      /\ /\ caller'[d].pc = "evidence"
                         /\ caller'[d].num = version'[caller'[d].act]
                         /\ caller'[d].fact # "confirmed_applied"
                         => Clean(caller[d].act)'
    BY DEF EvidenceOK, At
  <2> DEFINE b == caller[d].act
  <2>1. d # c /\ caller'[d] = caller[d] /\ b \in Action /\ caller[d].num \in Nat
    BY <1>3, <1>4, CallerFields DEF At
  <2>2. caller[d].num <= version[b]
    BY <2>1 DEF OnceInv, EvidenceOK
  <2>3. version[b] \in Nat /\ version'[b] \in Nat /\ version[b] <= version'[b]
    BY <1>2, <2>1, VersionNat, BoundsAssumption DEF ETypeOK, TypeOK
  <2>4. CASE b = a
    <3>1. caller[d].num < version'[b]
      BY <1>2, <2>1, <2>2, <2>3, <2>4
    <3>2. QED
      BY <2>1, <2>3, <3>1
  <2>5. CASE b # a
    <3>1. caller[d].num = version'[b] => caller[d].num = version[b]
      BY <2>1, <2>2, <2>3
    <3>2. Clean(b) => Clean(b)'
      BY <1>3, <1>6, <2>1, <2>5 DEF Clean
    <3>3. caller[d].num <= version'[b]
      BY <2>1, <2>2, <2>3
    <3>4. QED
      BY <2>1, <3>1, <3>2, <3>3 DEF OnceInv, EvidenceOK, At
  <2>6. QED
    BY <2>4, <2>5
<1>9. ASSUME NEW b \in Action, Remote(b) PROVE RemoteOnce(b)'
  BY <1>3, <1>9 DEF OnceInv, RemoteOnce
<1>10. ASSUME NEW b \in Action, ~Remote(b) PROVE UnsafeOnce(b)'
  <2>1. UnsafeOnce(b)
    BY <1>10 DEF OnceInv
  <2>2. CASE b = a
    <3>1. Quiet(a) /\ applied[a] = 0
      BY <1>1, <1>10, <2>1, <2>2 DEF UnsafeOnce, Clean
    <3>2. OnePending(a)'
      BY <1>3, <1>4, <3>1 DEF Quiet, OnePending, At
    <3>3. QED
      BY <1>2, <1>3, <2>2, <3>1, <3>2 DEF UnsafeOnce
  <2>3. CASE b # a
    <3>1. OnePending(b)'
      BY <1>3, <1>4, <2>1, <2>3 DEF UnsafeOnce, OnePending, At
    <3>2. QED
      BY <1>2, <1>3, <1>6, <2>1, <2>3, <3>1 DEF UnsafeOnce, Clean
  <2>4. QED
    BY <2>2, <2>3
<1>11. QED
  BY <1>7, <1>8, <1>9, <1>10 DEF OnceInv, Remote

\* The pending request moves to the network.
LEMMA SendOnce ==
  ASSUME ETypeOK, ETypeOK', OnceInv, NEW c \in Caller, Send(c)
  PROVE  OnceInv'
<1> DEFINE a == caller[c].act
<1>1. /\ At(c, "begun") /\ a \in Action /\ Id(c) \in RequestId /\ Id(c)[1] = a
  BY CallerFields DEF Send, At, OnceInv, CallerOK, Busy, Id
<1>2. /\ caller'[c].pc = "sent" /\ caller'[c].act = a /\ caller'[c].num = caller[c].num
      /\ \A d \in Caller : d # c => caller'[d] = caller[d]
      /\ wire' = wire \cup {Id(c)}
      /\ UNCHANGED <<action, version, answered, saved, applied>>
  BY GotoOne DEF Send, Doing, vars, actionVars
<1>3. ~Quiet(a)
  BY <1>1 DEF Quiet, At
<1>4. ASSUME NEW b \in Action, Quiet(b) PROVE Quiet(b)'
  BY <1>1, <1>2, <1>3, <1>4 DEF Quiet, At
<1>5. CallerOK'
  BY <1>1, <1>2 DEF OnceInv, CallerOK, Busy, At, Id
<1>6. EvidenceOK'
  <2> SUFFICES ASSUME NEW d \in Caller, caller'[d].pc \in {"read", "evidence"}
               PROVE  /\ caller'[d].num <= version'[caller'[d].act]
                      /\ /\ caller'[d].pc = "evidence"
                         /\ caller'[d].num = version'[caller'[d].act]
                         /\ caller'[d].fact # "confirmed_applied"
                         => Clean(caller[d].act)'
    BY DEF EvidenceOK, At
  <2>1. d # c /\ caller'[d] = caller[d]
    BY <1>2
  <2>2. caller[d].act \in Action
    BY <2>1, CallerFields DEF At
  <2>3. Clean(caller[d].act) => Clean(caller[d].act)'
    BY <1>2, <1>4, <2>1, <2>2 DEF Clean
  <2>4. QED
    BY <1>2, <2>1, <2>3 DEF OnceInv, EvidenceOK, At
<1>7. ASSUME NEW b \in Action, Remote(b) PROVE RemoteOnce(b)'
  BY <1>2, <1>7 DEF OnceInv, RemoteOnce
<1>8. ASSUME NEW b \in Action, ~Remote(b) PROVE UnsafeOnce(b)'
  <2>1. UnsafeOnce(b)
    BY <1>8 DEF OnceInv
  <2>2. OnePending(b)'
    <3>1. CASE b = a
      <4>1. /\ \A x \in wire : x[1] # a
            /\ \A d \in Caller : At(d, "begun") /\ caller[d].act = a => d = c
        BY <1>1, <2>1, <3>1 DEF UnsafeOnce, OnePending
      <4>2. \A x \in wire' : x[1] = a => x = Id(c)
        BY <1>2, <4>1
      <4>3. \A d \in Caller : ~(caller'[d].pc = "begun" /\ caller'[d].act = a)
        BY <1>2, <4>1 DEF At
      <4>4. QED
        BY <3>1, <4>2, <4>3 DEF OnePending, At
    <3>2. CASE b # a
      BY <1>1, <1>2, <2>1, <3>2 DEF UnsafeOnce, OnePending, At
    <3>3. QED
      BY <3>1, <3>2
  <2>3. QED
    BY <1>2, <1>4, <2>1, <2>2 DEF UnsafeOnce, Clean
<1>9. QED
  BY <1>5, <1>6, <1>7, <1>8 DEF OnceInv, Remote

\* Evidence that an effect has not happened is given when it will not.
LEMMA EvidenceOnce ==
  ASSUME ETypeOK, ETypeOK', OnceInv, NEW c \in Caller, GetEvidence(c)
  PROVE  OnceInv'
<1> DEFINE a == caller[c].act
<1>1. PICK fact \in Evidence(a) : Goto(c, Doing("evidence", a, caller[c].num, fact))
  BY DEF GetEvidence
<1>2. /\ caller'[c].pc = "evidence" /\ caller'[c].act = a /\ caller'[c].num = caller[c].num
      /\ caller'[c].fact = fact
      /\ \A d \in Caller : d # c => caller'[d] = caller[d]
      /\ UNCHANGED <<wire, action, version, answered, saved, applied>>
  BY <1>1, GotoOne DEF GetEvidence, Doing, vars, actionVars, serviceVars
<1>3. At(c, "read") /\ a \in Action
  BY CallerFields DEF GetEvidence, At
<1>4. \A b : Quiet(b) => Quiet(b)'
  BY <1>2 DEF Quiet, At
<1>5. fact # "confirmed_applied" => Clean(a)
  BY <1>3 DEF Evidence, Clean, ETypeOK
<1>6. fact \in Resolution
  BY DEF Evidence, Resolution
<1>7. CallerOK'
  BY <1>2, <1>6 DEF OnceInv, CallerOK, Busy, At, Id
<1>8. EvidenceOK'
  <2> SUFFICES ASSUME NEW d \in Caller, caller'[d].pc \in {"read", "evidence"}
               PROVE  /\ caller'[d].num <= version'[caller'[d].act]
                      /\ /\ caller'[d].pc = "evidence"
                         /\ caller'[d].num = version'[caller'[d].act]
                         /\ caller'[d].fact # "confirmed_applied"
                         => Clean(caller[d].act)'
    BY DEF EvidenceOK, At
  <2>1. \A b : Clean(b) => Clean(b)'
    BY <1>2, <1>4 DEF Clean
  <2>2. CASE d = c
    BY <1>2, <1>3, <1>5, <2>1, <2>2 DEF OnceInv, EvidenceOK, At
  <2>3. CASE d # c
    BY <1>2, <2>1, <2>3 DEF OnceInv, EvidenceOK, At
  <2>4. QED
    BY <2>2, <2>3
<1>9. ASSUME NEW b \in Action, Remote(b) PROVE RemoteOnce(b)'
  BY <1>2, <1>9 DEF OnceInv, RemoteOnce
<1>10. ASSUME NEW b \in Action, ~Remote(b) PROVE UnsafeOnce(b)'
  <2>1. UnsafeOnce(b)
    BY <1>10 DEF OnceInv
  <2>2. OnePending(b)'
    BY <1>2, <2>1 DEF UnsafeOnce, OnePending, At
  <2>3. QED
    BY <1>2, <1>4, <2>1, <2>2 DEF UnsafeOnce, Clean
<1>11. QED
  BY <1>7, <1>8, <1>9, <1>10 DEF OnceInv, Remote

\* Evidence that is committed is evidence for the version it was asked for: it
\* makes an action ready only from a clean slate.
LEMMA ReconcileOnce ==
  ASSUME ETypeOK, ETypeOK', OnceInv, NEW c \in Caller, CommitEvidence(c)
  PROVE  OnceInv'
<1> DEFINE a == caller[c].act
<1>1. At(c, "evidence") /\ a \in Action /\ caller[c].fact \in Resolution
  BY CallerFields DEF CommitEvidence, At, OnceInv, CallerOK
<1>2. /\ caller'[c].pc = "idle" /\ \A d \in Caller : d # c => caller'[d] = caller[d]
      /\ UNCHANGED <<wire, answered, saved, applied>>
  BY GotoOne, States DEF CommitEvidence, Commit, serviceVars
<1>3. \/ UNCHANGED vars
      \/ version[a] = caller[c].num /\ SetAction(a, ResolvedStatus(caller[c].fact))
  BY DEF CommitEvidence, Commit, Reconcile
<1>4. CASE ~(Clean(a) /\ action'[a] = "ready")
  <2>1. \A b \in Action : version[b] <= version'[b]
    BY <1>1, <1>3, SetActionVersion, VersionNat DEF ETypeOK, vars, actionVars
  <2>2. \A b \in Action : action'[b] \in {"none", "ready"} => action[b] \in {"none", "ready"}
    <3>1. CASE UNCHANGED vars
      BY <3>1 DEF vars, actionVars
    <3>2. CASE version[a] = caller[c].num /\ SetAction(a, ResolvedStatus(caller[c].fact))
      <4>1. /\ action'[a] = ResolvedStatus(caller[c].fact)
            /\ \A b \in Action \ {a} : action'[b] = action[b]
        BY <1>1, <3>2, SetActionVersion DEF ETypeOK
      <4>2. caller[c].fact # "confirmed_applied" => Clean(a)
        BY <1>1, <3>2 DEF OnceInv, EvidenceOK
      <4>3. action'[a] \notin {"none", "ready"}
        BY <1>1, <1>4, <4>1, <4>2 DEF ResolvedStatus, Resolution
      <4>4. QED
        BY <4>1, <4>3
    <3>3. QED
      BY <1>3, <3>1, <3>2
  <2>3. Calm
    BY <1>2, <2>1, <2>2 DEF Calm
  <2>4. QED
    BY <2>3, CalmOnce
<1>5. CASE Clean(a) /\ action'[a] = "ready"
  <2>1. /\ \A b \in Action : version[b] <= version'[b]
        /\ \A b \in Action \ {a} : action'[b] = action[b]
    BY <1>1, <1>3, SetActionVersion, VersionNat DEF ETypeOK, vars, actionVars
  <2>2. \A b : Quiet(b) => Quiet(b)'
    BY <1>2 DEF Quiet, At
  <2>3. \A b : Clean(b) => Clean(b)'
    BY <1>2, <2>2 DEF Clean
  <2>4. CallerOK'
    BY <1>2 DEF OnceInv, CallerOK, Busy, At, Id
  <2>5. EvidenceOK'
    <3> SUFFICES ASSUME NEW d \in Caller, caller'[d].pc \in {"read", "evidence"}
                 PROVE  /\ caller'[d].num <= version'[caller'[d].act]
                        /\ /\ caller'[d].pc = "evidence"
                           /\ caller'[d].num = version'[caller'[d].act]
                           /\ caller'[d].fact # "confirmed_applied"
                           => Clean(caller[d].act)'
      BY DEF EvidenceOK, At
    <3>1. d # c /\ caller'[d] = caller[d]
      BY <1>2
    <3>2. caller[d].act \in Action /\ caller[d].num \in Nat
      BY <3>1, CallerFields DEF At
    <3>3. caller[d].num <= version[caller[d].act]
      BY <3>1 DEF OnceInv, EvidenceOK
    <3>4. /\ version[caller[d].act] \in Nat /\ version'[caller[d].act] \in Nat
          /\ version[caller[d].act] <= version'[caller[d].act]
      BY <2>1, <3>2, VersionNat, BoundsAssumption DEF ETypeOK, TypeOK
    <3>5. /\ caller[d].num <= version'[caller[d].act]
          /\ caller[d].num = version'[caller[d].act] => caller[d].num = version[caller[d].act]
      BY <3>2, <3>3, <3>4
    <3>6. QED
      BY <2>3, <3>1, <3>5 DEF OnceInv, EvidenceOK, At
  <2>6. ASSUME NEW b \in Action, Remote(b) PROVE RemoteOnce(b)'
    BY <1>2, <2>6 DEF OnceInv, RemoteOnce
  <2>7. ASSUME NEW b \in Action, ~Remote(b) PROVE UnsafeOnce(b)'
    <3>1. UnsafeOnce(b)
      BY <2>7 DEF OnceInv
    <3>2. OnePending(b)'
      BY <1>2, <3>1 DEF UnsafeOnce, OnePending, At
    <3>3. action'[b] \in {"none", "ready"} => Clean(b)
      BY <1>5, <2>1, <3>1 DEF UnsafeOnce
    <3>4. QED
      BY <1>2, <2>2, <2>3, <3>1, <3>2, <3>3 DEF UnsafeOnce
  <2>8. QED
    BY <2>4, <2>5, <2>6, <2>7 DEF OnceInv, Remote
<1>6. QED
  BY <1>4, <1>5

\* A request that the service handles was the pending one, or one that asks
\* again under a key.
LEMMA HandleOnce ==
  ASSUME ETypeOK, ETypeOK', OnceInv, NEW x \in RequestId, NEW result \in {"ok", "refused"},
         Handle(x, result)
  PROVE  OnceInv'
<1> DEFINE a == x[1]
<1>1. /\ a \in Action /\ x \in wire /\ wire' = wire \ {x}
      /\ UNCHANGED <<caller, action, version>>
  BY DEF Handle, RequestId, vars, actionVars
<1>2. ~Quiet(a) /\ KeyOf(x) \in Key
  BY <1>1, BoundsAssumption DEF Quiet, KeyOf, Key, RequestId
<1>3. \A b : Quiet(b) => Quiet(b)'
  BY <1>1 DEF Quiet, At
<1>4. \A b \in Action : b # a => applied'[b] = applied[b]
  BY <1>1 DEF Handle, ETypeOK
<1>5. \/ saved[KeyOf(x)] # "none" /\ applied' = applied /\ saved' = saved
      \/ /\ saved[KeyOf(x)] = "none" /\ saved' = [saved EXCEPT ![KeyOf(x)] = result]
         /\ applied'[a] = IF result = "ok" THEN applied[a] + 1 ELSE applied[a]
  BY <1>1 DEF Handle, ETypeOK
<1>6. \A b \in Action : Clean(b) => Clean(b)'
  BY <1>2, <1>3, <1>4 DEF Clean
<1>7. CallerOK'
  BY <1>1 DEF OnceInv, CallerOK, Busy, At, Id
<1>8. EvidenceOK'
  <2>1. \A d \in Caller : At(d, "evidence") => caller[d].act \in Action
    BY CallerFields DEF At
  <2>2. QED
    BY <1>1, <1>6, <2>1 DEF OnceInv, EvidenceOK, At
<1>9. ASSUME NEW b \in Action, Remote(b) PROVE RemoteOnce(b)'
  <2>1. RemoteOnce(b) /\ <<b, 0>> \in Key /\ saved[<<b, 0>>] \in Result
    BY <1>9, BoundsAssumption DEF OnceInv, Key, ETypeOK
  <2>2. CASE b = a
    <3>1. KeyOf(x) = <<b, 0>>
      BY <1>9, <2>2 DEF KeyOf, Remote
    <3>2. CASE saved[<<b, 0>>] = "none"
      <4>1. applied[b] = 0 /\ saved'[<<b, 0>>] = result
        BY <1>5, <2>1, <3>1, <3>2 DEF RemoteOnce, ETypeOK
      <4>2. QED
        BY <1>5, <2>2, <3>1, <3>2, <4>1 DEF RemoteOnce
    <3>3. CASE saved[<<b, 0>>] # "none"
      BY <1>5, <2>1, <3>1, <3>3 DEF RemoteOnce
    <3>4. QED
      BY <3>2, <3>3
  <2>3. CASE b # a
    <3>1. KeyOf(x) # <<b, 0>>
      BY <2>3 DEF KeyOf
    <3>2. saved'[<<b, 0>>] = saved[<<b, 0>>]
      BY <1>5, <2>1, <3>1 DEF ETypeOK
    <3>3. QED
      BY <1>4, <2>1, <2>3, <3>2 DEF RemoteOnce
  <2>4. QED
    BY <2>2, <2>3
<1>10. ASSUME NEW b \in Action, ~Remote(b) PROVE UnsafeOnce(b)'
  <2>1. UnsafeOnce(b)
    BY <1>10 DEF OnceInv
  <2>2. OnePending(b)'
    BY <1>1, <2>1 DEF UnsafeOnce, OnePending, At
  <2>3. CASE b = a
    <3>1. applied[b] = 0
      BY <1>2, <2>1, <2>3 DEF UnsafeOnce
    <3>2. Quiet(b)'
      BY <1>1, <2>1, <2>3 DEF UnsafeOnce, OnePending, Quiet, At
    <3>3. applied'[b] \in {0, 1}
      BY <1>5, <2>3, <3>1
    <3>4. action[b] \notin {"none", "ready"}
      BY <1>2, <2>1, <2>3 DEF UnsafeOnce, Clean
    <3>5. QED
      BY <1>1, <2>2, <3>2, <3>3, <3>4 DEF UnsafeOnce
  <2>4. CASE b # a
    BY <1>1, <1>3, <1>4, <1>6, <2>1, <2>2, <2>4 DEF UnsafeOnce
  <2>5. QED
    BY <2>3, <2>4
<1>11. QED
  BY <1>7, <1>8, <1>9, <1>10 DEF OnceInv, Remote

OnceIInv == ETypeOK /\ ApprovalInv /\ AttemptInv /\ OnceInv

\* At first nothing is sent, asked or applied.
LEMMA InitOnce == EInit => OnceIInv
<1> SUFFICES ASSUME EInit PROVE OnceIInv
  OBVIOUS
<1>1. TypeOK /\ ApprovalInv /\ AttemptInv
  BY InitType, InitAttemptInv DEF EInit
<1>2. ETypeOK
  BY <1>1 DEF EInit, ETypeOK, Result
<1>3. \A c \in Caller : caller[c].pc = "idle"
  BY DEF EInit, Idle
<1>4. CallerOK /\ EvidenceOK
  BY <1>3 DEF CallerOK, EvidenceOK, Busy, At
<1>5. \A a \in Action : UnsafeOnce(a)
  BY <1>3 DEF EInit, UnsafeOnce, OnePending, Clean, Quiet, At
<1>6. \A a \in Action : RemoteOnce(a)
  <2>1. \A a \in Action : <<a, 0>> \in Key
    BY BoundsAssumption DEF Key
  <2>2. QED
    BY <2>1 DEF EInit, RemoteOnce
<1>7. QED
  BY <1>1, <1>2, <1>4, <1>5, <1>6 DEF OnceIInv, OnceInv

\* Every step of the composition keeps the invariant.
LEMMA StepOnce == OnceIInv /\ [ENext]_recoveryVars => OnceIInv'
<1> SUFFICES ASSUME OnceIInv, [ENext]_recoveryVars PROVE OnceIInv'
  OBVIOUS
<1> USE DEF OnceIInv
<1>1. ETypeOK'
  BY EStepType DEF OnceInv
<1>2. ApprovalInv' /\ AttemptInv'
  BY KernelStep, ApprovalInvStep, AttemptInvStep DEF OnceInv, ETypeOK
<1>3. ASSUME CalmStep PROVE OnceInv'
  BY <1>1, <1>3, CalmSteps, CalmOnce
<1>4. ASSUME NEW c \in Caller, NEW a \in Action, Begin(c, a) PROVE OnceInv'
  BY <1>1, <1>4, BeginOnce
<1>5. ASSUME NEW c \in Caller, Send(c) PROVE OnceInv'
  BY <1>1, <1>5, SendOnce
<1>6. ASSUME NEW c \in Caller, GetEvidence(c) PROVE OnceInv'
  BY <1>1, <1>6, EvidenceOnce
<1>7. ASSUME NEW c \in Caller, CommitEvidence(c) PROVE OnceInv'
  BY <1>1, <1>7, ReconcileOnce
<1>8. ASSUME NEW x \in RequestId, NEW result \in {"ok", "refused"}, Handle(x, result)
      PROVE  OnceInv'
  BY <1>1, <1>8, HandleOnce
<1>9. QED
  BY <1>1, <1>2, <1>3, <1>4, <1>5, <1>6, <1>7, <1>8 DEF ENext, CallerStep, CalmStep

\* The composition does only what the kernel does, so that the theorems on the
\* kernel hold of it.
THEOREM RecoveryIsKernel == ESpec => Spec
<1>1. EInit => Init
  BY DEF EInit
<1>2. OnceIInv /\ [ENext]_recoveryVars => [Next]_vars
  BY KernelStep DEF OnceIInv, OnceInv
<1>3. QED
  BY <1>1, <1>2, InitOnce, StepOnce, PTL DEF ESpec, Spec

\* The tables, the callers and the service are well formed.
THEOREM RecoveryTypeCorrect == ESpec => []ETypeOK
BY InitOnce, StepOnce, PTL DEF ESpec, OnceIInv

\* The invariant bounds what has been applied.
LEMMA OnceSuffices == OnceInv => EffectAtMostOnce
<1> SUFFICES ASSUME OnceInv, NEW a \in Action PROVE applied[a] <= 1
  BY DEF EffectAtMostOnce
<1>1. applied[a] \in {0, 1}
  <2>1. CASE Remote(a)
    BY <2>1 DEF OnceInv, RemoteOnce
  <2>2. CASE ~Remote(a)
    BY <2>2 DEF OnceInv, UnsafeOnce
  <2>3. QED
    BY <2>1, <2>2
<1>2. QED
  BY <1>1

\* The effect of an action happens at most once, however requests are lost,
\* delayed or repeated and wherever a caller crashes.
THEOREM EffectsHappenOnce == ESpec => []EffectAtMostOnce
BY OnceSuffices, InitOnce, StepOnce, PTL DEF ESpec, OnceIInv

-----------------------------------------------------------------------------
(* What the kernel records is what happened *)

\* What a step may do that neither begins a dispatch, nor sends, nor handles:
\* it may give an action an outcome, which must be true.
Truthful ==
  /\ wire' \subseteq wire /\ UNCHANGED <<answered, saved, applied>>
  /\ intent => intent'
  /\ \A c \in Caller : Busy(c)' => caller'[c] = caller[c]
  /\ ~intent' =>
       /\ \A a \in Action : Len(attempts'[a]) = Len(attempts[a])
       /\ \A c \in Caller : Busy(c)' => action'[caller[c].act] = "running"
       /\ \A a \in Action :
            /\ action'[a] = "succeeded" => applied[a] = 1
            /\ action'[a] = "failed" => Refused(a)

\* Such a step keeps the invariant.
LEMMA TruthfulKeeps ==
  ASSUME ETypeOK, ETypeOK', TruthInv, Truthful, AppliedOK' PROVE TruthInv'
<1> SUFFICES ASSUME ~intent'
             PROVE  /\ WireOK' /\ \A a \in Action : OutcomeOK(a)'
                    /\ \A c \in Caller : Busy(c)' => BusyOK(c)'
  BY DEF TruthInv
<1>1. ~intent /\ WireOK /\ \A c \in Caller : Busy(c) => BusyOK(c)
  BY DEF TruthInv, Truthful
<1>2. /\ wire' \subseteq wire /\ UNCHANGED <<answered, saved, applied>>
      /\ \A a \in Action : Len(attempts'[a]) = Len(attempts[a])
  BY DEF Truthful
<1>3. WireOK'
  <2>1. \A x \in RequestId : x[1] \in Action
    BY DEF RequestId
  <2>2. wire \subseteq RequestId /\ answered \subseteq RequestId
    BY DEF ETypeOK
  <2>3. QED
    BY <1>1, <1>2, <2>1, <2>2 DEF WireOK
<1>4. \A b : Quiet(b) => Quiet(b)'
  <2>1. \A d \in Caller : caller'[d] = caller[d] \/ caller'[d].pc # "begun"
    BY DEF Truthful, Busy
  <2>2. QED
    BY <1>2, <2>1, CalmQuiet
<1>5. \A a \in Action : OutcomeOK(a)'
  <2>1. \A a \in Action : Refused(a) => Refused(a)'
    BY <1>2, <1>4 DEF Refused, Remote
  <2>2. QED
    BY <1>2, <2>1 DEF OutcomeOK, Truthful
<1>6. ASSUME NEW c \in Caller, Busy(c)' PROVE BusyOK(c)'
  <2>1. caller'[c] = caller[c] /\ Busy(c)
    BY <1>6 DEF Truthful, Busy
  <2>2. BusyOK(c) /\ caller[c].act \in Action
    BY <1>1, <2>1, CallerFields DEF Busy, At
  <2>3. action'[caller[c].act] = "running"
    BY <1>6 DEF Truthful
  <2>4. \A d \in Caller : Busy(d)' => Busy(d) /\ caller'[d] = caller[d]
    BY DEF Truthful, Busy
  <2>5. QED
    BY <1>2, <2>1, <2>2, <2>3, <2>4 DEF BusyOK, At, Id, Remote
<1>7. QED
  BY <1>3, <1>5, <1>6

\* The effect of an action stays applied, and evidence says so when it is.
LEMMA AppliedStep ==
  ASSUME OnceIInv, OnceIInv', AppliedOK, [ENext]_recoveryVars PROVE AppliedOK'
<1> USE DEF OnceIInv, AppliedOK, At
<1>1. \A d \in Caller : caller[d].pc = "evidence" => caller[d].act \in Action
  BY CallerFields DEF At
<1>2. ASSUME \A d \in Caller : caller'[d] = caller[d] \/ caller'[d].pc # "evidence",
             UNCHANGED applied
      PROVE  AppliedOK'
  BY <1>2
<1>3. ASSUME NEW c \in Caller, NEW a \in Action,
             Begin(c, a) \/ ReadUnknown(c, a) \/ AskStop(c, a)
      PROVE  AppliedOK'
  BY <1>2, <1>3, GotoOne DEF Begin, ReadUnknown, AskStop, Doing, serviceVars
<1>4. ASSUME NEW c \in Caller,
             Receive(c) \/ Ambiguous(c) \/ CommitEvidence(c) \/ CommitStop(c) \/ Crash(c)
      PROVE  AppliedOK'
  BY <1>2, <1>4, GotoOne, States
  DEF Receive, Ambiguous, CommitEvidence, CommitStop, Crash, Commit, serviceVars
<1>5. ASSUME NEW c \in Caller, Send(c) PROVE AppliedOK'
  BY <1>2, <1>5, GotoOne DEF Send, Doing
<1>6. ASSUME NEW c \in Caller, GetEvidence(c) PROVE AppliedOK'
  <2>1. PICK fact \in Evidence(caller[c].act) :
          Goto(c, Doing("evidence", caller[c].act, caller[c].num, fact))
    BY <1>6 DEF GetEvidence
  <2>2. fact = "confirmed_applied" => applied[caller[c].act] > 0
    BY DEF Evidence
  <2>3. QED
    BY <1>6, <2>1, <2>2, GotoOne DEF GetEvidence, Doing, serviceVars
<1>7. ASSUME NEW x \in RequestId, NEW result \in {"ok", "refused"}, Handle(x, result)
      PROVE  AppliedOK'
  <2>1. UNCHANGED caller /\ \A a \in Action : applied[a] \in Nat /\ applied'[a] \in Nat
    BY <1>7 DEF Handle, ETypeOK
  <2>2. \A a \in Action : applied[a] > 0 => applied'[a] > 0
    BY <1>7, <2>1 DEF Handle, ETypeOK
  <2>3. QED
    BY <1>1, <2>1, <2>2
<1>8. CASE Kernel \/ UNCHANGED recoveryVars \/ \E x \in RequestId : Lose(x)
  BY <1>2, <1>8 DEF Kernel, Lose, recoveryVars, serviceVars
<1>9. QED
  BY <1>3, <1>4, <1>5, <1>6, <1>7, <1>8 DEF ENext, CallerStep

\* A step that leaves the kernel alone gives no outcome.
LEMMA QuietTruthful ==
  ASSUME ETypeOK, TruthInv, UNCHANGED vars,
         wire' \subseteq wire, UNCHANGED <<answered, saved, applied>>,
         \A c \in Caller : Busy(c)' => caller'[c] = caller[c]
  PROVE  Truthful
<1>1. UNCHANGED <<intent, action, attempts>>
  BY DEF vars, actionVars
<1>2. \A c \in Caller : Busy(c)' => Busy(c)
  BY DEF Busy
<1>3. QED
  BY <1>1, <1>2 DEF Truthful, TruthInv, BusyOK, OutcomeOK

\* The transaction that ends a dispatch: the caller is the only one of its
\* action, and the outcome it commits is true.
LEMMA SettleTruthful ==
  ASSUME OnceIInv, TruthInv, NEW c \in Caller, Busy(c), action[caller[c].act] = "running",
         NEW s \in ActionStatus, SetAction(caller[c].act, s),
         NEW t \in AttemptStatus, SettleAttempt(caller[c].act, t),
         UNCHANGED intent, Goto(c, Idle), UNCHANGED serviceVars,
         ~intent => /\ s = "succeeded" => applied[caller[c].act] = 1
                    /\ s = "failed" => Refused(caller[c].act)
  PROVE  Truthful
<1> DEFINE a == caller[c].act
<1> USE DEF OnceIInv
<1>1. a \in Action
  BY CallerFields DEF Busy, At
<1>2. /\ ~Busy(c)' /\ \A d \in Caller : d # c => caller'[d] = caller[d]
      /\ UNCHANGED <<wire, answered, saved, applied>>
  BY GotoOne, States DEF Busy, serviceVars
<1>3. action'[a] = s /\ \A b \in Action \ {a} : action'[b] = action[b]
  BY <1>1, SetActionVersion DEF ETypeOK
<1>4. \A b \in Action : Len(attempts'[b]) = Len(attempts[b])
  <2>1. attempts[a] # <<>> /\ attempts[a] \in Seq(AttemptStatus)
    BY <1>1 DEF AttemptInv, AttemptMatchesAction, LatestIs, ETypeOK, TypeOK
  <2>2. /\ attempts'[a] = [attempts[a] EXCEPT ![Len(attempts[a])] = t]
        /\ \A b \in Action \ {a} : attempts'[b] = attempts[b]
    BY <1>1 DEF SettleAttempt, ETypeOK, TypeOK
  <2>3. Len(attempts'[a]) = Len(attempts[a])
    BY <2>1, <2>2, SettleRow
  <2>4. QED
    BY <2>2, <2>3
<1>5. ASSUME ~intent, NEW d \in Caller, Busy(d)' PROVE action'[caller[d].act] = "running"
  <2>1. d # c /\ Busy(d) /\ caller[d].act \in Action
    BY <1>2, <1>5, CallerFields DEF Busy, At
  <2>2. caller[d].act # a
    BY <1>5, <2>1 DEF TruthInv, BusyOK
  <2>3. QED
    BY <1>3, <1>5, <2>1, <2>2 DEF TruthInv, BusyOK
<1>6. QED
  BY <1>2, <1>3, <1>4, <1>5 DEF Truthful, TruthInv, OutcomeOK

\* A response says what happened: its attempt is the only one that can have.
LEMMA ReceiveTruthful ==
  ASSUME OnceIInv, TruthInv, NEW c \in Caller, Receive(c) PROVE Truthful
<1> USE DEF OnceIInv
<1> DEFINE a == caller[c].act
<1>1. /\ At(c, "sent") /\ Busy(c) /\ a \in Action /\ Id(c) \in answered
      /\ Goto(c, Idle) /\ UNCHANGED serviceVars
  BY CallerFields DEF Receive, Commit, At, Busy
<1>2. CASE UNCHANGED vars
  BY <1>1, <1>2, GotoOne, States, QuietTruthful DEF Busy, serviceVars
<1>3. CASE CompleteAction(a, saved[KeyOf(Id(c))] = "ok", 0)
  <2> DEFINE s == IF saved[KeyOf(Id(c))] = "ok" THEN "succeeded" ELSE "failed"
  <2>1. /\ action[a] = "running" /\ SetAction(a, s) /\ SettleAttempt(a, s) /\ UNCHANGED intent
        /\ s \in ActionStatus /\ s \in AttemptStatus
    BY <1>3, StatusNames DEF CompleteAction
  <2>2. ASSUME ~intent
        PROVE  IF saved[KeyOf(Id(c))] = "ok" THEN applied[a] = 1 ELSE Refused(a)
    <3>1. BusyOK(c) /\ WireOK
      BY <1>1, <2>2 DEF TruthInv
    <3>2. Id(c)[1] = a /\ saved[KeyOf(Id(c))] # "none" /\ Id(c) \notin wire
      BY <1>1, <3>1 DEF WireOK, Id
    <3>3. CASE Remote(a)
      <4>1. KeyOf(Id(c)) = <<a, 0>> /\ <<a, 0>> \in Key /\ RemoteOnce(a)
        BY <1>1, <3>2, <3>3, BoundsAssumption DEF KeyOf, Remote, Key, OnceInv
      <4>2. saved[<<a, 0>>] \in Result
        BY <4>1 DEF ETypeOK
      <4>3. QED
        BY <3>2, <3>3, <4>1, <4>2 DEF RemoteOnce, Refused, Result
    <3>4. CASE ~Remote(a)
      <4>1. KeyOf(Id(c)) = Id(c) /\ UnsafeOnce(a)
        BY <1>1, <3>2, <3>4 DEF KeyOf, Remote, OnceInv
      <4>2. Quiet(a)
        <5>1. \A x \in wire : x[1] # a
          BY <3>1, <3>2, <3>4 DEF BusyOK
        <5>2. \A d \in Caller : At(d, "begun") => caller[d].act # a
          BY <1>1, <3>1 DEF BusyOK, Busy, At
        <5>3. QED
          BY <5>1, <5>2 DEF Quiet
      <4>3. QED
        BY <3>1, <3>4, <4>1, <4>2 DEF BusyOK, UnsafeOnce, Refused
    <3>5. QED
      BY <3>3, <3>4
  <2>3. ~intent => /\ s = "succeeded" => applied[a] = 1
                   /\ s = "failed" => Refused(a)
    BY <2>2
  <2> HIDE DEF s
  <2>4. QED
    BY <1>1, <2>1, <2>3, SettleTruthful
<1>4. QED
  BY <1>2, <1>3 DEF Receive, Commit

\* An ambiguous response settles nothing about the effect.
LEMMA AmbiguousTruthful ==
  ASSUME OnceIInv, TruthInv, NEW c \in Caller, Ambiguous(c) PROVE Truthful
<1> USE DEF OnceIInv
<1> DEFINE a == caller[c].act
<1>1. At(c, "sent") /\ Busy(c) /\ Goto(c, Idle) /\ UNCHANGED serviceVars
  BY DEF Ambiguous, Commit, At, Busy
<1>2. CASE UNCHANGED vars
  BY <1>1, <1>2, GotoOne, States, QuietTruthful DEF Busy, serviceVars
<1>3. CASE MarkRetryWait(a)
  BY <1>1, <1>3, StatusNames, SettleTruthful DEF MarkRetryWait
<1>4. CASE MarkOutcomeUnknown(a)
  BY <1>1, <1>4, StatusNames, SettleTruthful DEF MarkOutcomeUnknown
<1>5. QED
  BY <1>2, <1>3, <1>4 DEF Ambiguous, Commit

\* Evidence is true when it is committed, and nobody dispatches the action.
LEMMA ReconcileTruthful ==
  ASSUME OnceIInv, TruthInv, NEW c \in Caller, CommitEvidence(c) PROVE Truthful
<1> USE DEF OnceIInv
<1> DEFINE a == caller[c].act
<1>1. /\ At(c, "evidence") /\ a \in Action /\ caller[c].fact \in Resolution
      /\ Goto(c, Idle) /\ UNCHANGED serviceVars
  BY CallerFields DEF CommitEvidence, Commit, At, OnceInv, CallerOK
<1>2. /\ \A d \in Caller : d # c => caller'[d] = caller[d]
      /\ ~Busy(c)' /\ UNCHANGED <<wire, answered, saved, applied>>
  BY <1>1, GotoOne, States DEF Busy, serviceVars
<1>3. CASE UNCHANGED vars
  BY <1>2, <1>3, QuietTruthful DEF Busy
<1>4. CASE Reconcile(a, caller[c].num, caller[c].fact)
  <2>1. /\ action[a] \in {"outcome_unknown", "waiting_external"}
        /\ SetAction(a, ResolvedStatus(caller[c].fact)) /\ UNCHANGED <<intent, attempts>>
    BY <1>4 DEF Reconcile
  <2>2. /\ action'[a] = ResolvedStatus(caller[c].fact)
        /\ \A b \in Action \ {a} : action'[b] = action[b]
    BY <1>1, <2>1, SetActionVersion DEF ETypeOK
  <2>3. /\ action'[a] # "failed"
        /\ action'[a] = "succeeded" => caller[c].fact = "confirmed_applied"
    BY <2>2 DEF ResolvedStatus
  <2>4. caller[c].fact = "confirmed_applied" => applied[a] = 1
    <3>1. caller[c].fact = "confirmed_applied" => applied[a] > 0
      BY <1>1 DEF TruthInv, AppliedOK
    <3>2. applied[a] \in Nat /\ applied[a] <= 1
      BY <1>1, OnceSuffices DEF EffectAtMostOnce, ETypeOK
    <3>3. QED
      BY <3>1, <3>2
  <2>5. ASSUME ~intent, NEW d \in Caller, Busy(d)' PROVE action'[caller[d].act] = "running"
    <3>1. Busy(d) /\ caller[d].act \in Action
      BY <1>2, <2>5, CallerFields DEF Busy, At
    <3>2. action[caller[d].act] = "running"
      BY <2>5, <3>1 DEF TruthInv, BusyOK
    <3>3. QED
      BY <2>1, <2>2, <3>1, <3>2
  <2>6. QED
    BY <1>2, <2>1, <2>2, <2>3, <2>4, <2>5 DEF Truthful, TruthInv, OutcomeOK
<1>5. QED
  BY <1>3, <1>4 DEF CommitEvidence, Commit

\* Every step gives true outcomes, if any, but the three that dispatch.
LEMMA TruthfulSteps ==
  ASSUME OnceIInv, TruthInv,
         CalmStep \/ \E c \in Caller : GetEvidence(c) \/ CommitEvidence(c)
  PROVE  Truthful
<1> USE DEF OnceIInv
<1>1. ASSUME NEW c \in Caller, NEW a \in Action, ReadUnknown(c, a) \/ AskStop(c, a)
      PROVE  Truthful
  <2>1. \A d \in Caller : Busy(d)' => caller'[d] = caller[d]
    BY <1>1, GotoOne DEF ReadUnknown, AskStop, Doing, Busy
  <2>2. UNCHANGED <<vars, serviceVars>>
    BY <1>1 DEF ReadUnknown, AskStop
  <2>3. QED
    BY <2>1, <2>2, QuietTruthful DEF serviceVars
<1>2. ASSUME NEW c \in Caller, GetEvidence(c) \/ Crash(c) PROVE Truthful
  <2>1. caller'[c].pc \in {"idle", "evidence"} /\ \A d \in Caller : d # c => caller'[d] = caller[d]
    <3>1. CASE GetEvidence(c)
      BY <3>1, GotoOne DEF GetEvidence, Doing
    <3>2. CASE Crash(c)
      BY <3>2, GotoOne, States DEF Crash
    <3>3. QED
      BY <1>2, <3>1, <3>2
  <2>2. \A d \in Caller : Busy(d)' => caller'[d] = caller[d]
    BY <2>1 DEF Busy
  <2>3. UNCHANGED <<vars, serviceVars>>
    BY <1>2 DEF GetEvidence, Crash
  <2>4. QED
    BY <2>2, <2>3, QuietTruthful DEF serviceVars
<1>3. ASSUME NEW c \in Caller, Receive(c) \/ Ambiguous(c) \/ CommitEvidence(c) PROVE Truthful
  BY <1>3, ReceiveTruthful, AmbiguousTruthful, ReconcileTruthful
<1>4. ASSUME NEW c \in Caller, CommitStop(c) PROVE Truthful
  <2>1. CASE UNCHANGED vars
    BY <1>4, <2>1, GotoOne, States, QuietTruthful DEF CommitStop, Commit, Busy, serviceVars
  <2>2. CASE run = "cancelling" /\ UNCHANGED intent
    BY <1>4, <2>2, GotoOne, States
    DEF CommitStop, Commit, Truthful, Busy, serviceVars, AttemptInv
  <2>3. QED
    BY <1>4, <2>1, <2>2 DEF CommitStop, Commit, CancelReceipt
<1>5. CASE UNCHANGED recoveryVars \/ \E x \in RequestId : Lose(x)
  BY <1>5, QuietTruthful DEF Lose, recoveryVars, serviceVars
<1>6. CASE Kernel
  <2>1. /\ UNCHANGED <<caller, wire, answered, saved, applied, attempts>>
        /\ intent => intent'
    BY <1>6 DEF Kernel, AdmitAction, EnsureRunning, RequestCancellation, FinalizeCancellation,
       FailRun, EndRun, TerminateRun, actionVars, serviceVars, ETypeOK, TypeOK
  <2>2. \A a \in Action :
          /\ action[a] = "running" => action'[a] = "running"
          /\ action'[a] \in {"succeeded", "failed"} => action'[a] = action[a]
    <3>1. \A a \in Action : SettleUndispatched[a] \in {action[a], "cancelled"}
                              /\ (action[a] = "running" => SettleUndispatched[a] = "running")
      BY DEF SettleUndispatched, Undispatched
    <3>2. \/ UNCHANGED action \/ action' = SettleUndispatched
          \/ \E b \in Action : AdmitAction(b)
      BY <1>6 DEF Kernel, EnsureRunning, RequestCancellation, FinalizeCancellation,
         FailRun, EndRun, TerminateRun, actionVars
    <3>3. ASSUME NEW b \in Action, AdmitAction(b), NEW a \in Action
          PROVE  action'[a] = action[a] \/ (action[a] = "none" /\ action'[a] = "ready")
      BY <3>3 DEF AdmitAction, ETypeOK, TypeOK
    <3>4. QED
      BY <3>1, <3>2, <3>3
  <2>3. \A c \in Caller : Busy(c) => caller[c].act \in Action
    BY CallerFields DEF Busy, At
  <2>4. QED
    <3>1. \A c \in Caller : Busy(c)' => Busy(c)
      BY <2>1 DEF Busy
    <3>2. ASSUME ~intent, NEW c \in Caller, Busy(c) PROVE action'[caller[c].act] = "running"
      <4>1. action[caller[c].act] = "running"
        BY <3>2 DEF TruthInv, BusyOK
      <4>2. QED
        BY <2>2, <2>3, <3>2, <4>1
    <3>3. ASSUME ~intent, NEW a \in Action
          PROVE  /\ action'[a] = "succeeded" => applied[a] = 1
                 /\ action'[a] = "failed" => Refused(a)
      BY <2>2, <3>3 DEF TruthInv, OutcomeOK
    <3>4. QED
      BY <2>1, <3>1, <3>2, <3>3 DEF Truthful
<1>7. QED
  BY <1>1, <1>2, <1>3, <1>4, <1>5, <1>6 DEF CalmStep

\* An attempt is new when it begins: nobody has sent or answered it, and for an
\* action without a key nothing has happened yet.
LEMMA BeginTruth ==
  ASSUME OnceIInv, ETypeOK', TruthInv, AppliedOK',
         NEW c \in Caller, NEW a \in Action, Begin(c, a)
  PROVE  TruthInv'
<1> USE DEF OnceIInv
<1>1. /\ action[a] = "ready" \/ (action[a] = "retry_wait" /\ Remote(a))
      /\ SetAction(a, "running") /\ UNCHANGED intent
      /\ attempts' = [attempts EXCEPT ![a] = Append(attempts[a], "started")]
  BY DEF Begin, BeginDispatch, BeginRetry, StartAttempt, Remote
<1> SUFFICES ASSUME ~intent
             PROVE  /\ WireOK' /\ \A b \in Action : OutcomeOK(b)'
                    /\ \A d \in Caller : Busy(d)' => BusyOK(d)'
  BY <1>1 DEF TruthInv
<1>2. WireOK /\ (\A d \in Caller : Busy(d) => BusyOK(d)) /\ \A b \in Action : OutcomeOK(b)
  BY DEF TruthInv
<1>3. /\ action'[a] = "running" /\ \A b \in Action \ {a} : action'[b] = action[b]
  BY <1>1, SetActionVersion DEF ETypeOK
<1>4. /\ Len(attempts'[a]) = Len(attempts[a]) + 1 /\ Len(attempts[a]) \in Nat
      /\ \A b \in Action \ {a} : attempts'[b] = attempts[b]
      /\ \A b \in Action : Len(attempts[b]) \in Nat /\ Len(attempts'[b]) >= Len(attempts[b])
  <2>1. /\ attempts'[a] = Append(attempts[a], "started")
        /\ \A b \in Action \ {a} : attempts'[b] = attempts[b]
    BY <1>1 DEF ETypeOK, TypeOK
  <2>2. \A b \in Action : attempts[b] \in Seq(AttemptStatus) /\ Len(attempts[b]) \in Nat
    BY LenProperties DEF ETypeOK, TypeOK
  <2>3. Len(attempts'[a]) = Len(attempts[a]) + 1
    BY <2>1, <2>2, StatusNames, AppendRow
  <2>4. QED
    BY <2>1, <2>2, <2>3
<1>5. /\ At(c, "idle") /\ caller'[c] = Doing("begun", a, Len(attempts[a]) + 1, "none")
      /\ \A d \in Caller : d # c => caller'[d] = caller[d]
      /\ UNCHANGED <<wire, answered, saved, applied>>
  BY GotoOne DEF Begin, serviceVars, ETypeOK
<1>6. /\ caller'[c].pc = "begun" /\ caller'[c].act = a /\ caller'[c].num = Len(attempts[a]) + 1
  BY <1>5 DEF Doing
<1>7. \A x \in RequestId : x[1] \in Action /\ x[2] \in Nat
  BY BoundsAssumption DEF RequestId
<1>8. WireOK'
  <2>1. \A x \in wire \cup answered : x \in RequestId
    BY DEF ETypeOK
  <2>2. \A x \in RequestId : x[2] <= Len(attempts[x[1]]) => x[2] <= Len(attempts'[x[1]])
    BY <1>4, <1>7
  <2>3. QED
    BY <1>2, <1>5, <2>1, <2>2 DEF WireOK
<1>9. ASSUME NEW b \in Action PROVE OutcomeOK(b)'
  <2>1. CASE b = a
    BY <1>3, <2>1 DEF OutcomeOK
  <2>2. CASE b # a
    <3>1. Quiet(b) => Quiet(b)'
      BY <1>5, <1>6, <2>2 DEF Quiet, At
    <3>2. QED
      BY <1>2, <1>3, <1>5, <2>2, <3>1 DEF OutcomeOK, Refused, Remote
  <2>3. QED
    BY <2>1, <2>2
<1>10. \A d \in Caller : Busy(d) => caller[d].act # a /\ caller[d].act \in Action /\ d # c
  <2>1. \A d \in Caller : Busy(d) => action[caller[d].act] = "running" /\ caller[d].act \in Action
    BY <1>2, CallerFields DEF BusyOK, Busy, At
  <2>2. QED
    BY <1>1, <1>5, <2>1 DEF Busy, At
<1>11. \A d \in Caller : d # c /\ Busy(d)' => Busy(d) /\ caller'[d].act # a
  BY <1>5, <1>10 DEF Busy
<1>12. BusyOK(c)'
  <2>1. \A d \in Caller : Busy(d)' /\ caller'[d].act = a => d = c
    BY <1>11
  <2>2. Id(c)' = <<a, Len(attempts[a]) + 1>>
    BY <1>6 DEF Id
  <2>3. Id(c)' \notin wire \cup answered
    BY <1>2, <1>4, <2>2 DEF WireOK
  <2>4. ASSUME ~Remote(a)
        PROVE  applied[a] # 1 /\ saved[Id(c)'] # "ok" /\ \A x \in wire : x[1] # a
    <3>1. Clean(a)
      BY <1>1, <2>4 DEF OnceInv, UnsafeOnce
    <3>2. Id(c)' \in RequestId
      BY <1>6, <2>2, BoundsAssumption, <1>4 DEF Begin, BeginDispatch, BeginRetry, StartAttempt, RequestId
    <3>3. saved[Id(c)'] = "none"
      BY <1>2, <1>4, <2>2, <3>2 DEF WireOK
    <3>4. QED
      BY <3>1, <3>3 DEF Clean, Quiet
  <2>5. QED
    BY <1>3, <1>4, <1>5, <1>6, <2>1, <2>3, <2>4 DEF BusyOK, Remote
<1>13. ASSUME NEW d \in Caller, d # c, Busy(d)' PROVE BusyOK(d)'
  <2>1. Busy(d) /\ BusyOK(d) /\ caller[d].act # a /\ caller[d].act \in Action
    BY <1>2, <1>10, <1>11, <1>13
  <2>2. caller'[d] = caller[d] /\ Id(d)' = Id(d)
    BY <1>5, <1>13 DEF Id
  <2>3. \A e \in Caller : Busy(e)' /\ caller'[e].act = caller[d].act => e = d
    BY <1>5, <1>6, <1>11, <2>1 DEF BusyOK
  <2>4. QED
    BY <1>3, <1>4, <1>5, <2>1, <2>2, <2>3 DEF BusyOK, At, Remote
<1>14. QED
  BY <1>8, <1>9, <1>12, <1>13

\* The attempt that is sent is the one that its caller has begun.
LEMMA SendTruth ==
  ASSUME OnceIInv, ETypeOK', TruthInv, AppliedOK', NEW c \in Caller, Send(c)
  PROVE  TruthInv'
<1> USE DEF OnceIInv
<1> DEFINE a == caller[c].act
<1>1. /\ At(c, "begun") /\ Busy(c) /\ a \in Action /\ Id(c) \in RequestId /\ Id(c)[1] = a
      /\ Id(c)[2] = caller[c].num
  BY CallerFields DEF Send, At, OnceInv, CallerOK, Busy, Id
<1>2. /\ caller'[c].pc = "sent" /\ caller'[c].act = a /\ caller'[c].num = caller[c].num
      /\ \A d \in Caller : d # c => caller'[d] = caller[d]
      /\ wire' = wire \cup {Id(c)}
      /\ UNCHANGED <<intent, action, attempts, answered, saved, applied>>
  BY GotoOne DEF Send, Doing, vars, actionVars
<1> SUFFICES ASSUME ~intent
             PROVE  /\ WireOK' /\ \A b \in Action : OutcomeOK(b)'
                    /\ \A d \in Caller : Busy(d)' => BusyOK(d)'
  BY <1>2 DEF TruthInv
<1>3. WireOK /\ (\A d \in Caller : Busy(d) => BusyOK(d)) /\ \A b \in Action : OutcomeOK(b)
  BY DEF TruthInv
<1>4. Id(c) \notin wire \cup answered /\ Id(c)[2] = Len(attempts[a])
  BY <1>1, <1>3 DEF BusyOK
<1>5. WireOK'
  <2>1. Len(attempts[a]) \in Nat
    BY <1>1, LenProperties DEF ETypeOK, TypeOK
  <2>2. QED
    BY <1>1, <1>2, <1>3, <1>4, <2>1 DEF WireOK
<1>6. ASSUME NEW b \in Action PROVE OutcomeOK(b)'
  <2>1. Quiet(b) => b # a
    BY <1>1 DEF Quiet
  <2>2. Quiet(b) => Quiet(b)'
    BY <1>1, <1>2, <2>1 DEF Quiet, At
  <2>3. QED
    BY <1>2, <1>3, <2>2 DEF OutcomeOK, Refused, Remote
<1>7. ASSUME NEW d \in Caller, Busy(d)' PROVE BusyOK(d)'
  <2>1. Busy(d) /\ BusyOK(d) /\ caller'[d].act = caller[d].act /\ caller'[d].num = caller[d].num
    BY <1>1, <1>2, <1>3, <1>7 DEF Busy
  <2>2. Id(d)' = Id(d)
    BY <2>1 DEF Id
  <2>3. \A e \in Caller : Busy(e)' => Busy(e) /\ caller'[e].act = caller[e].act
    BY <1>1, <1>2 DEF Busy
  <2>4. At(d, "begun")' => d # c /\ At(d, "begun")
    BY <1>2 DEF At
  <2>5. caller[d].act = a => d = c
    BY <1>1, <1>3, <2>1 DEF BusyOK
  <2>6. At(d, "begun")' => Id(d) \notin wire' \cup answered
    <3>1. d # c => Id(d) # Id(c)
      BY <1>1, <2>5 DEF Id
    <3>2. QED
      BY <1>2, <2>1, <2>4, <3>1 DEF BusyOK
  <2>7. \A x \in wire' : x \in wire \/ x = Id(c)
    BY <1>2
  <2>8. \A x \in wire' : ~Remote(caller[d].act) /\ x[1] = caller[d].act => x = Id(d)
    BY <1>1, <2>1, <2>5, <2>7 DEF BusyOK
  <2>9. QED
    BY <1>2, <2>1, <2>2, <2>3, <2>6, <2>8 DEF BusyOK, Remote
<1>8. QED
  BY <1>5, <1>6, <1>7

\* The service's answer to the only attempt that counts is what happened.
LEMMA HandleTruth ==
  ASSUME OnceIInv, OnceIInv', TruthInv, AppliedOK',
         NEW x \in RequestId, NEW result \in {"ok", "refused"}, Handle(x, result)
  PROVE  TruthInv'
<1> USE DEF OnceIInv
<1> DEFINE a == x[1]
           k == KeyOf(x)
<1>1. /\ a \in Action /\ x \in wire /\ wire' = wire \ {x} /\ answered' = answered \cup {x}
      /\ UNCHANGED <<caller, intent, action, attempts>>
  BY DEF Handle, RequestId, vars, actionVars
<1>2. ~Quiet(a) /\ k \in Key
  BY <1>1, BoundsAssumption DEF Quiet, KeyOf, Key, RequestId
<1>3. /\ \A b \in Action : b # a => applied'[b] = applied[b]
      /\ \A key \in Key : key # k => saved'[key] = saved[key]
      /\ saved'[k] # "none"
      /\ \A key \in Key : saved[key] # "none" => saved'[key] = saved[key]
      /\ IF saved[k] = "none"
         THEN /\ saved'[k] = result
              /\ applied'[a] = IF result = "ok" THEN applied[a] + 1 ELSE applied[a]
         ELSE saved'[k] = saved[k] /\ applied'[a] = applied[a]
  BY <1>1, <1>2 DEF Handle, ETypeOK
<1> SUFFICES ASSUME ~intent
             PROVE  /\ WireOK' /\ \A b \in Action : OutcomeOK(b)'
                    /\ \A d \in Caller : Busy(d)' => BusyOK(d)'
  BY <1>1 DEF TruthInv
<1>4. WireOK /\ (\A d \in Caller : Busy(d) => BusyOK(d)) /\ \A b \in Action : OutcomeOK(b)
  BY DEF TruthInv
<1>5. RequestId \subseteq Key /\ \A y \in RequestId : KeyOf(y) \in Key
  BY BoundsAssumption DEF RequestId, Key, KeyOf
<1>6. \A y \in RequestId : k = y => y = x
  <2>1. CASE Remote(a)
    BY <2>1 DEF RequestId, KeyOf, Remote
  <2>2. CASE ~Remote(a)
    BY <2>2 DEF KeyOf, Remote
  <2>3. QED
    BY <2>1, <2>2
<1>7. WireOK'
  <2>1. \A y \in RequestId : saved'[y] # "none" => y[2] <= Len(attempts[y[1]])
    BY <1>1, <1>3, <1>4, <1>5, <1>6 DEF WireOK
  <2>2. \A y \in answered' : saved'[KeyOf(y)] # "none"
    BY <1>1, <1>3, <1>4, <1>5 DEF WireOK, ETypeOK
  <2>3. wire' \cap answered' = {} /\ wire' \cup answered' = wire \cup answered
    BY <1>1, <1>4 DEF WireOK
  <2>4. QED
    BY <1>1, <1>4, <2>1, <2>2, <2>3 DEF WireOK
<1>8. \A b \in Action : applied[b] \in Nat /\ applied'[b] \in Nat
                        /\ applied[b] <= applied'[b] /\ applied'[b] <= 1
  <2>1. \A b \in Action : applied'[b] <= 1
    <3>1. OnceInv' => EffectAtMostOnce'
      BY OnceSuffices, PTL
    <3>2. QED
      BY <3>1 DEF EffectAtMostOnce
  <2>2. QED
    BY <1>3, <2>1 DEF ETypeOK
<1>9. ASSUME NEW b \in Action PROVE OutcomeOK(b)'
  <2>1. action[b] = "succeeded" => applied'[b] = 1
    BY <1>4, <1>8 DEF OutcomeOK
  <2>2. ASSUME action[b] = "failed" PROVE Refused(b)'
    <3>1. Refused(b)
      BY <1>4, <2>2 DEF OutcomeOK
    <3>2. CASE Remote(b)
      <4>1. saved[<<b, 0>>] = "refused" /\ <<b, 0>> \in Key
        BY <3>1, <3>2, BoundsAssumption DEF Refused, Key
      <4>2. saved'[<<b, 0>>] = "refused"
        BY <1>3, <4>1
      <4>3. RemoteOnce(b)'
        BY <3>2 DEF OnceInv, Remote
      <4>4. QED
        BY <3>2, <4>2, <4>3 DEF Refused, RemoteOnce, Remote
    <3>3. CASE ~Remote(b)
      <4>1. Quiet(b) /\ applied[b] = 0 /\ b # a
        BY <1>2, <3>1, <3>3 DEF Refused
      <4>2. Quiet(b)'
        BY <1>1, <4>1 DEF Quiet, At
      <4>3. QED
        BY <1>3, <3>3, <4>1, <4>2 DEF Refused, Remote
    <3>4. QED
      BY <3>2, <3>3
  <2>3. QED
    BY <1>1, <2>1, <2>2 DEF OutcomeOK
<1>10. ASSUME NEW d \in Caller, Busy(d)' PROVE BusyOK(d)'
  <2> DEFINE b == caller[d].act
  <2>1. Busy(d) /\ BusyOK(d) /\ b \in Action /\ Id(d) \in RequestId
    BY <1>1, <1>4, <1>10, CallerFields DEF Busy, At, OnceInv, CallerOK
  <2>2. \A e \in Caller : Busy(e)' => Busy(e)
    BY <1>1 DEF Busy
  <2>3. At(d, "begun") => Id(d) \notin wire' \cup answered'
    BY <1>1, <2>1 DEF BusyOK
  <2>4. ASSUME ~Remote(b)
        PROVE  /\ applied'[b] = 1 <=> saved'[Id(d)] = "ok"
               /\ \A y \in wire' : y[1] = b => y = Id(d)
    <3>1. /\ applied[b] = 1 <=> saved[Id(d)] = "ok"
          /\ \A y \in wire : y[1] = b => y = Id(d)
      BY <2>1, <2>4 DEF BusyOK
    <3>2. CASE b = a
      <4>1. x = Id(d) /\ k = Id(d)
        BY <1>1, <2>4, <3>1, <3>2 DEF KeyOf, Remote
      <4>2. applied[a] = 0
        BY <1>1, <1>2, <2>4, <3>2 DEF OnceInv, UnsafeOnce
      <4>3. QED
        BY <1>1, <1>3, <3>1, <3>2, <4>1, <4>2
    <3>3. CASE b # a
      <4>1. k # Id(d)
        BY <3>3 DEF KeyOf, Id
      <4>2. saved'[Id(d)] = saved[Id(d)] /\ applied'[b] = applied[b]
        BY <1>3, <1>5, <2>1, <3>3, <4>1
      <4>3. QED
        BY <1>1, <3>1, <4>2
    <3>4. QED
      BY <3>2, <3>3
  <2>5. Id(d)' = Id(d)
    BY <1>1 DEF Id
  <2>6. QED
    BY <1>1, <2>1, <2>2, <2>3, <2>4, <2>5 DEF BusyOK, At, Remote
<1>11. QED
  BY <1>7, <1>9, <1>10

TruthIInv == OnceIInv /\ TruthInv

\* At first nobody dispatches anything and nothing has an outcome.
LEMMA InitTruth == EInit => TruthIInv
<1> SUFFICES ASSUME EInit PROVE TruthIInv
  OBVIOUS
<1>1. \A c \in Caller : caller[c].pc = "idle"
  BY DEF EInit, Idle
<1>2. AppliedOK /\ \A c \in Caller : ~Busy(c)
  BY <1>1 DEF AppliedOK, Busy, At
<1>3. WireOK
  <2>1. RequestId \subseteq Key
    BY BoundsAssumption DEF RequestId, Key
  <2>2. QED
    BY <2>1 DEF EInit, WireOK
<1>4. \A a \in Action : OutcomeOK(a)
  BY DEF EInit, Init, OutcomeOK
<1>5. QED
  BY <1>2, <1>3, <1>4, InitOnce DEF TruthIInv, TruthInv

\* Every step of the composition keeps the invariant.
LEMMA StepTruth == TruthIInv /\ [ENext]_recoveryVars => TruthIInv'
<1> SUFFICES ASSUME TruthIInv, [ENext]_recoveryVars PROVE TruthIInv'
  OBVIOUS
<1>1. OnceIInv /\ OnceIInv' /\ TruthInv /\ AppliedOK
  BY StepOnce DEF TruthIInv, TruthInv
<1>2. AppliedOK' /\ ETypeOK /\ ETypeOK'
  BY <1>1, AppliedStep DEF OnceIInv
<1>3. ASSUME CalmStep \/ \E c \in Caller : GetEvidence(c) \/ CommitEvidence(c)
      PROVE  TruthInv'
  BY <1>1, <1>2, <1>3, TruthfulSteps, TruthfulKeeps
<1>4. ASSUME NEW c \in Caller, NEW a \in Action, Begin(c, a) PROVE TruthInv'
  BY <1>1, <1>2, <1>4, BeginTruth
<1>5. ASSUME NEW c \in Caller, Send(c) PROVE TruthInv'
  BY <1>1, <1>2, <1>5, SendTruth
<1>6. ASSUME NEW x \in RequestId, NEW result \in {"ok", "refused"}, Handle(x, result)
      PROVE  TruthInv'
  BY <1>1, <1>2, <1>6, HandleTruth
<1>7. TruthInv'
  BY <1>3, <1>4, <1>5, <1>6 DEF ENext, CallerStep, CalmStep
<1>8. QED
  BY <1>1, <1>7 DEF TruthIInv

\* What the kernel calls succeeded has happened, and what it calls failed has
\* not, until a cancellation is requested.
THEOREM OutcomesAreTrue == ESpec => []OutcomeIsTrue
<1>1. TruthIInv => OutcomeIsTrue
  BY DEF TruthIInv, TruthInv, OutcomeOK, Refused, OutcomeIsTrue
<1>2. QED
  BY <1>1, InitTruth, StepTruth, PTL DEF ESpec

\* One caller at a time dispatches an action, while the action runs.
THEOREM OneDispatcher == ESpec => []OneDispatcherAtATime
<1>1. TruthIInv => OneDispatcherAtATime
  <2> SUFFICES ASSUME TruthInv, ~intent, NEW a \in Action
               PROVE  LET busy == {c \in Caller : Busy(c) /\ caller[c].act = a}
                      IN  Cardinality(busy) <= IF action[a] = "running" THEN 1 ELSE 0
    BY DEF TruthIInv, OneDispatcherAtATime, Busy
  <2> DEFINE busy == {c \in Caller : Busy(c) /\ caller[c].act = a}
  <2>1. CASE busy = {}
    BY <2>1, FS_EmptySet
  <2>2. ASSUME NEW c \in busy PROVE Cardinality(busy) = 1 /\ action[a] = "running"
    <3>1. BusyOK(c)
      BY DEF TruthInv
    <3>2. busy = {c} /\ action[a] = "running"
      BY <3>1 DEF BusyOK
    <3>3. QED
      BY <3>2, FS_Singleton
  <2>3. QED
    BY <2>1, <2>2
<1>2. QED
  BY <1>1, InitTruth, StepTruth, PTL DEF ESpec

-----------------------------------------------------------------------------
(* A call of an MCP tool: types *)

\* The steps of McpTask that are no transaction of the kernel.
Apart ==
  \/ \E c \in Thread :
       \/ SendRequest(c) \/ Serve(c) \/ Abandon(c) \/ Close(c) \/ ToInvoke(c) \/ ToResume(c)
       \/ ToUpdate(c) \/ AskCancel(c) \/ Fault(c) \/ LoseReply(c) \/ ThreadCrash(c)
       \/ \E j \in Slot : ClaimPoll(c, j)
  \/ \E j \in Slot : Lapse(j)
  \/ \E k \in DOMAIN server : Progress(k)

\* They leave the tables of the kernel alone.
LEMMA ApartFromKernel == Apart => UNCHANGED vars
BY DEF Apart, SendRequest, Serve, Abandon, Close, ToInvoke, ToResume, ToUpdate, AskCancel,
       Fault, LoseReply, ThreadCrash, ClaimPoll, Lapse, Progress, Taking

\* The transactions of a thread or of the rest of the process that are also
\* transactions of the kernel module.
LEMMA McpKernelSteps ==
  /\ \A c \in Thread : Start(c) \/ Complete(c) \/ Unknown(c) \/ Finish(c) => [Next]_vars
  /\ User \/ Interfere \/ Finalize => [Next]_vars
<1> USE CallAssumption
<1>1. call \in Request /\ 0 \in Epochs(call)
  BY BoundsAssumption DEF Request, Epochs
<1>2. ASSUME NEW c \in Thread, Start(c) PROVE [Next]_vars
  BY <1>1, <1>2 DEF Start, Next, RunStep, ActionStep
<1>3. ASSUME NEW c \in Thread, Complete(c) PROVE [Next]_vars
  <2>1. (Reply(c) = "ok") \in BOOLEAN
    OBVIOUS
  <2>2. QED
    BY <1>1, <1>3, <2>1 DEF Complete, Next, ActionStep
<1>4. ASSUME NEW c \in Thread, Unknown(c) PROVE [Next]_vars
  BY <1>4 DEF Unknown, Raise, Next, ActionStep
<1>5. ASSUME NEW c \in Thread, Finish(c) PROVE [Next]_vars
  <2>1. \A ok \in BOOLEAN : FinishImplicit(ok) => Next
    BY DEF Next, RunStep
  <2>2. (Reply(c) \in {"ok", "completed"}) \in BOOLEAN
    OBVIOUS
  <2>3. UNCHANGED vars \/ FinishImplicit(Reply(c) \in {"ok", "completed"})
    BY <1>5 DEF Finish
  <2>4. QED
    BY <2>1, <2>2, <2>3
<1>6. CASE User
  BY <1>1, <1>6 DEF User, Next, ActionStep, RequestStep
<1>7. CASE Interfere
  <2>1. \A fact \in ServerEvidence : fact \in Resolution
    BY DEF ServerEvidence, Resolution
  <2>2. QED
    BY <1>7, <2>1 DEF Interfere, Next, ActionStep, RunStep
<1>8. CASE Finalize
  BY <1>8 DEF Finalize, Next, RunStep
<1>9. QED
  BY <1>2, <1>3, <1>4, <1>5, <1>6, <1>7, <1>8

\* Every step keeps the tables of the kernel well formed.
LEMMA McpKernelType == TypeOK /\ [MNext]_mcpVars => TypeOK'
<1> SUFFICES ASSUME TypeOK, [MNext]_mcpVars PROVE TypeOK'
  OBVIOUS
<1> USE CallAssumption, StatusNames DEF Raise
<1>1. ASSUME UNCHANGED vars PROVE TypeOK'
  BY <1>1 DEF vars, TypeOK
<1>2. ASSUME [Next]_vars PROVE TypeOK'
  BY <1>2, StepType
<1>3. ASSUME NEW c \in Thread, RecordInputRequired(c) PROVE TypeOK'
  <2>1. CASE UNCHANGED vars
    BY <1>1, <2>1
  <2>2. CASE Open /\ SetAction(call, "waiting_input") /\ SettleAttempt(call, "succeeded")
    <3>1. /\ action' \in [Action -> ActionStatus \cup {"none"}]
          /\ version' \in [Action -> 0..MaxVersion]
      BY <2>2, SetActionType
    <3>2. attempts' \in [Action -> Seq(AttemptStatus)]
      BY <2>2, SettleAttemptType DEF Open, LatestIs
    <3>3. CASE run' = "waiting_input" /\ request' = [request EXCEPT ![call] = "pending"]
               /\ overdue' = overdue \ {call}
               /\ UNCHANGED <<intent, children, epoch, ledger, jobs>>
      BY <3>1, <3>2, <3>3 DEF TypeOK, Request
    <3>4. QED
      BY <1>1, <1>3, <3>3 DEF RecordInputRequired
  <2>3. QED
    BY <1>3, <2>1, <2>2 DEF RecordInputRequired
<1>4. ASSUME NEW c \in Thread, RecordTask(c) \/ UpdateAcknowledged(c) PROVE TypeOK'
  <2>1. CASE UNCHANGED vars
    BY <1>1, <2>1
  <2>2. CASE action[call] = "running" /\ SetAction(call, "waiting_external")
             /\ SettleAttempt(call, "succeeded")
             /\ UNCHANGED <<run, intent, children, epoch, request, overdue, ledger, jobs>>
    <3>1. /\ action' \in [Action -> ActionStatus \cup {"none"}]
          /\ version' \in [Action -> 0..MaxVersion]
      BY <2>2, SetActionType
    <3>2. attempts[call] # <<>> => attempts' \in [Action -> Seq(AttemptStatus)]
      BY <2>2, SettleAttemptType
    <3>3. attempts[call] = <<>> => attempts' = attempts
      BY <2>2, EmptySeq DEF SettleAttempt, TypeOK
    <3>4. QED
      BY <2>2, <3>1, <3>2, <3>3 DEF TypeOK
  <2>3. QED
    BY <1>4, <2>1, <2>2 DEF RecordTask, UpdateAcknowledged, Open
<1>5. ASSUME NEW c \in Thread, Observe(c) PROVE TypeOK'
  <2>1. CASE UNCHANGED vars
    BY <1>1, <2>1
  <2>2. CASE SetAction(call, "waiting_input") /\ Ask(call)
    BY <2>2, SetActionType DEF Ask, Move, TypeOK, Request
  <2>3. QED
    BY <1>5, <2>1, <2>2 DEF Observe
<1>6. ASSUME NEW c \in Thread, BeginCompletion(c) PROVE TypeOK'
  <2>1. /\ epoch[call] \in 0..MaxEpoch /\ 1 \in 0..MaxEpoch
        /\ attempts[call] \in Seq(AttemptStatus)
    BY BoundsAssumption DEF TypeOK
  <2>2. QED
    BY <1>1, <1>6, <2>1, StartAttemptType DEF BeginCompletion
<1>7. ASSUME NEW c \in Thread, CompleteTask(c) PROVE TypeOK'
  <2>1. ASSUME NEW ok \in BOOLEAN, NEW e, CompleteAction(call, ok, e) PROVE TypeOK'
    BY <2>1, SetActionType, SettleAttemptType DEF CompleteAction, LatestIs, TypeOK
  <2>2. (Reply(c) = "completed") \in BOOLEAN
    OBVIOUS
  <2>3. QED
    BY <1>1, <1>7, <2>1, <2>2 DEF CompleteTask
<1>8. ASSUME NEW c \in Thread, FinalizeTaskCancelled(c) PROVE TypeOK'
  <2>1. CASE UNCHANGED vars
    BY <1>1, <2>1
  <2>2. CASE SetAction(call, "cancelled") /\ run' \in {run, "cancelled"}
             /\ UNCHANGED <<intent, children, epoch, attempts, request, overdue, ledger, jobs>>
    BY <2>2, SetActionType DEF TypeOK
  <2>3. QED
    BY <1>8, <2>1, <2>2 DEF FinalizeTaskCancelled, CancelIfSettled
<1>9. ASSUME NEW c \in Thread, CancelAcknowledged(c) PROVE TypeOK'
  BY <1>9, SetActionType DEF CancelAcknowledged, TypeOK
<1>10. CASE UNCHANGED mcpVars
  BY <1>1, <1>10 DEF mcpVars
<1>11. ASSUME NEW c \in Thread, ThreadStep(c), ~Apart PROVE TypeOK'
  BY <1>2, <1>3, <1>4, <1>5, <1>6, <1>7, <1>8, <1>9, <1>11, McpKernelSteps
     DEF ThreadStep, Apart
<1>12. QED
  BY <1>1, <1>2, <1>10, <1>11, ApartFromKernel, McpKernelSteps DEF MNext, Apart

\* The rows keep their types; the task row names a server run, the continuations
\* too, and there are poll jobs only of a task.
Asking  == {"asked", "input_required"}
RunRow  == [run : 1..MaxRuns, resumed : BOOLEAN]
ServerRun == Ended \cup {"asked", "working", "input_required"}
RowsOK ==
  /\ task \in TaskStatus \cup {"none"} /\ handle \in Nat /\ handle <= Len(server)
  /\ task # "none" => handle # 0
  /\ handle # 0 => server[handle] # "asked"
  /\ acked \in BOOLEAN
  /\ conts \in Seq(RunRow)
  /\ \A k \in 1..Len(conts) : conts[k].run <= Len(server)
  /\ polls \in [Slot -> {"ready", "done"} \cup Thread]
  /\ \A j \in Slot : polls[j] # "done" => task # "none"
  /\ server \in Seq(ServerRun) /\ Len(server) <= MaxRuns
  /\ asks \in 0..MaxAsks /\ disturbed \in 0..MaxDisturbed

\* A thread at work, and what it may hold on each way.
AtWork ==
  [pc : {"looked", "begun", "sent", "replied", "ended", "completing", "finish", "closing"},
   way : {"invoke", "resume", "update", "poll", "cancel"}, cont : Nat, job : 0..MaxPolls,
   reply : ServerRun \cup {"none", "ok", "bad", "ack", "fault", "rejected", "lost"},
   of : Nat]
NoReply  == {"fault", "rejected", "lost"}
CallReply == {"ok", "bad", "asked", "working", "completed"}
ThreadOK(c) ==
  ~Is(c, "idle") =>
    /\ thread[c] \in AtWork
    /\ Way(c) = "resume" => thread[c].cont \in 1..Len(conts)
    /\ Way(c) \notin {"invoke", "resume"} => task # "none"
    /\ thread[c].pc \in {"ended", "completing"} => task # "none" /\ Reply(c) \in Ended
    /\ Way(c) = "poll" <=> thread[c].job # 0
    /\ Is(c, "replied") =>
         /\ Way(c) \in {"invoke", "resume"} =>
              /\ Reply(c) \in CallReply \cup NoReply
              /\ Reply(c) \in CallReply => thread[c].of \in 1..Len(server)
              /\ Reply(c) \in {"working", "completed"} => server[thread[c].of] # "asked"
         /\ Way(c) = "update" => Reply(c) \in {"ack"} \cup NoReply
         /\ Way(c) = "cancel" => Reply(c) \in {"ack"} \cup NoReply
         /\ Way(c) = "poll" => Reply(c) \in ServerRun \cup NoReply
ThreadsOK == thread \in [Thread -> {Resting} \cup AtWork] /\ \A c \in Thread : ThreadOK(c)
McpTypeInv == TypeOK /\ RowsOK /\ ThreadsOK

\* What a step leaves to the threads that it does not move.
Growth ==
  /\ Len(conts) <= Len(conts') /\ Len(server) <= Len(server')
  /\ task # "none" => task' # "none"
  /\ \A k \in 1..Len(server) : server[k] # "asked" => server'[k] # "asked"

\* What a thread holds stays valid while the rows and the server only grow.
LEMMA ThreadKeeps ==
  ASSUME RowsOK, RowsOK', Growth, NEW c \in Thread, ThreadOK(c), thread'[c] = thread[c]
  PROVE  ThreadOK(c)'
<1>1. Len(conts) \in Nat /\ Len(conts') \in Nat /\ Len(server) \in Nat /\ Len(server') \in Nat
  BY LenProperties DEF RowsOK
<1>2. {"working", "completed"} \subseteq CallReply
  BY DEF CallReply
<1>3. QED
  BY <1>1, <1>2 DEF ThreadOK, Growth, Is, Way, Reply

\* A step that moves one thread.
LEMMA ThreadMoves ==
  ASSUME RowsOK, ThreadsOK, RowsOK', Growth, NEW c \in Thread, NEW state,
         Become(c, state), state \in {Resting} \cup AtWork, ThreadOK(c)'
  PROVE  ThreadsOK'
<1>1. thread' \in [Thread -> {Resting} \cup AtWork]
  BY DEF ThreadsOK, Become
<1>2. ASSUME NEW d \in Thread PROVE ThreadOK(d)'
  BY <1>2, ThreadKeeps DEF ThreadsOK, Become
<1>3. QED
  BY <1>1, <1>2 DEF ThreadsOK

\* A thread that rests refers to nothing.
LEMMA ThreadRests ==
  ASSUME RowsOK, ThreadsOK, RowsOK', Growth, NEW c \in Thread, Rest(c)
  PROVE  ThreadsOK'
<1>1. ThreadOK(c)'
  BY DEF Rest, Become, ThreadsOK, ThreadOK, Is, Resting
<1>2. QED
  BY <1>1, ThreadMoves DEF Rest

\* A thread that goes on keeps everything but its point.
LEMMA GoesOn ==
  ASSUME ThreadsOK, NEW c \in Thread, ~Is(c, "idle"),
         NEW pc \in {"begun", "sent", "ended", "completing", "finish", "closing"}, GoOn(c, pc)
  PROVE  /\ [thread[c] EXCEPT !.pc = pc] \in AtWork
         /\ thread'[c] = [thread[c] EXCEPT !.pc = pc]
         /\ thread'[c].pc = pc /\ thread'[c].way = Way(c) /\ thread'[c].cont = thread[c].cont
         /\ thread'[c].job = thread[c].job /\ thread'[c].reply = Reply(c)
         /\ thread'[c].of = thread[c].of
         /\ \A d \in Thread \ {c} : thread'[d] = thread[d]
<1>1. thread[c] \in AtWork
  BY DEF ThreadsOK, ThreadOK
<1>2. thread'[c] = [thread[c] EXCEPT !.pc = pc] /\ \A d \in Thread \ {c} : thread'[d] = thread[d]
  BY DEF ThreadsOK, GoOn, Become
<1>3. QED
  BY <1>1, <1>2 DEF AtWork, Way, Reply

\* A thread that is answered keeps its way and its job.
LEMMA Answered ==
  ASSUME ThreadsOK, NEW c \in Thread, ~Is(c, "idle"), NEW k \in Nat,
         NEW r \in ServerRun \cup {"ok", "bad", "ack"} \cup NoReply, Answer(c, r, k)
  PROVE  /\ [thread[c] EXCEPT !.pc = "replied", !.reply = r, !.of = k] \in AtWork
         /\ thread'[c].pc = "replied" /\ thread'[c].way = Way(c)
         /\ thread'[c].cont = thread[c].cont /\ thread'[c].job = thread[c].job
         /\ thread'[c].reply = r /\ thread'[c].of = k
         /\ \A d \in Thread \ {c} : thread'[d] = thread[d]
<1>1. thread[c] \in AtWork
  BY DEF ThreadsOK, ThreadOK
<1>2. /\ thread'[c] = [thread[c] EXCEPT !.pc = "replied", !.reply = r, !.of = k]
      /\ \A d \in Thread \ {c} : thread'[d] = thread[d]
  BY DEF ThreadsOK, Answer, Become
<1>3. QED
  BY <1>1, <1>2 DEF AtWork, Way, Reply, NoReply

\* A step that leaves the rows and the server alone, and moves one thread on,
\* answers it, or lets it rest.
LEMMA RowsSame ==
  ASSUME RowsOK, UNCHANGED <<mcpRows, serverVars>>, disturbed' \in 0..MaxDisturbed
  PROVE  RowsOK' /\ Growth
BY LenProperties DEF RowsOK, mcpRows, serverVars, Growth

\* A disturbance is counted within its bound.
LEMMA DisturbType == ASSUME RowsOK, Disturb PROVE disturbed' \in 0..MaxDisturbed
BY SlotsAssumption DEF RowsOK, Disturb

\* A thread at work has a record of its way.
LEMMA Working ==
  ASSUME ThreadsOK, NEW c \in Thread, ~Is(c, "idle")
  PROVE  thread[c] \in AtWork /\ ThreadOK(c)
BY DEF ThreadsOK, ThreadOK

\* A free poll job is taken, and no other is touched.
LEMMA PollEnqueued ==
  ASSUME RowsOK, EnqueuePoll
  PROVE  \E j \in Slot : polls[j] = "done" /\ polls' = [polls EXCEPT ![j] = "ready"]
<1> DEFINE j == CHOOSE i \in FreeSlots : \A k \in FreeSlots : i <= k
<1>1. /\ IsFiniteSet(FreeSlots) /\ FreeSlots # {} /\ \A y \in FreeSlots : y \in Int
      /\ FreeSlots \subseteq Slot
  <2>1. IsFiniteSet(Slot) /\ FreeSlots \subseteq Slot
    BY FS_Interval, SlotsAssumption DEF FreeSlots, Slot
  <2>2. FreeSlots # {} /\ \A y \in Slot : y \in Int
    BY DEF EnqueuePoll, Slot
  <2>3. QED
    BY <2>1, <2>2, FS_Subset
<1>2. \E i \in FreeSlots : \A k \in FreeSlots : i <= k
  BY <1>1, FiniteSetBounds
<1>3. polls' = [polls EXCEPT ![j] = "ready"]
  BY DEF EnqueuePoll
<1> HIDE DEF j
<1>4. j \in FreeSlots
  BY <1>2 DEF j
<1>5. QED
  BY <1>3, <1>4 DEF FreeSlots

\* A thread that goes on still holds what its way allows.
LEMMA ThreadGoesOn ==
  ASSUME McpTypeInv, RowsOK', Growth, NEW c \in Thread, ~Is(c, "idle"),
         NEW pc \in {"begun", "sent", "ended", "completing", "finish", "closing"}, GoOn(c, pc),
         pc \in {"ended", "completing"} => task' # "none" /\ Reply(c) \in Ended
  PROVE  ThreadsOK'
<1>1. thread[c] \in AtWork /\ ThreadOK(c) /\ ThreadsOK /\ RowsOK
  BY Working DEF McpTypeInv
<1>2. /\ thread'[c] = [thread[c] EXCEPT !.pc = pc] /\ thread'[c] \in AtWork
      /\ thread'[c].pc = pc /\ thread'[c].way = Way(c) /\ thread'[c].cont = thread[c].cont
      /\ thread'[c].job = thread[c].job /\ thread'[c].reply = Reply(c)
  BY <1>1, GoesOn
<1>3. Len(conts) \in Nat /\ Len(conts') \in Nat
  BY <1>1, LenProperties DEF RowsOK
<1>4. ThreadOK(c)'
  BY <1>1, <1>2, <1>3 DEF ThreadOK, Is, Way, Reply, Growth
<1>5. QED
  BY <1>1, <1>2, <1>4, ThreadMoves DEF GoOn

\* A thread that is answered holds an answer that its way allows.
LEMMA ThreadAnswered ==
  ASSUME McpTypeInv, RowsOK', Growth, NEW c \in Thread, ~Is(c, "idle"), NEW k \in Nat,
         NEW r \in ServerRun \cup {"ok", "bad", "ack"} \cup NoReply, Answer(c, r, k),
         \/ r \in NoReply
         \/ Way(c) \in {"invoke", "resume"} /\ r \in CallReply /\ k \in 1..Len(server')
              /\ (r \in {"working", "completed"} => server'[k] # "asked")
         \/ Way(c) \in {"update", "cancel"} /\ r = "ack"
         \/ Way(c) = "poll" /\ r \in ServerRun
  PROVE  ThreadsOK'
<1>1. thread[c] \in AtWork /\ ThreadOK(c) /\ ThreadsOK /\ RowsOK
  BY Working DEF McpTypeInv
<1> DEFINE state == [thread[c] EXCEPT !.pc = "replied", !.reply = r, !.of = k]
<1>2. /\ state \in AtWork
      /\ thread'[c].pc = "replied" /\ thread'[c].way = Way(c) /\ thread'[c].cont = thread[c].cont
      /\ thread'[c].job = thread[c].job /\ thread'[c].reply = r /\ thread'[c].of = k
  BY <1>1, Answered
<1>3. Len(conts) \in Nat /\ Len(conts') \in Nat
  BY <1>1, LenProperties DEF RowsOK
<1>4. thread'[c] = state /\ Become(c, state)
  BY <1>1 DEF Answer, Become, ThreadsOK
<1> HIDE DEF state
<1>5. Way(c)' = Way(c) /\ Reply(c)' = r /\ ~Is(c, "ended")' /\ Way(c) \in {"invoke", "resume", "update", "poll", "cancel"}
  BY <1>1, <1>2 DEF Way, Reply, Is, AtWork
<1>6. Way(c) = "resume" => thread'[c].cont \in 1..Len(conts')
  BY <1>1, <1>2, <1>3 DEF ThreadOK, Growth
<1>7. (Way(c) = "poll" <=> thread'[c].job # 0) /\ (Way(c) \notin {"invoke", "resume"} => task' # "none")
  BY <1>1, <1>2 DEF ThreadOK, Growth
<1>8. ThreadOK(c)'
  <2>1. /\ Way(c) \in {"invoke", "resume"} =>
             /\ r \in CallReply \cup NoReply /\ (r \in CallReply => k \in 1..Len(server'))
             /\ r \in {"working", "completed"} => server'[k] # "asked"
        /\ Way(c) \in {"update", "cancel"} => r \in {"ack"} \cup NoReply
        /\ Way(c) = "poll" => r \in ServerRun \cup NoReply
    BY DEF CallReply, NoReply
  <2>2. (thread[c] \in AtWork)' /\ ~(thread[c].pc \in {"ended", "completing"})'
    BY <1>2, <1>4
  <2>3. /\ ((Way(c) = "poll") <=> (thread[c].job # 0))' /\ (Way(c) \notin {"invoke", "resume"} => task # "none")'
        /\ (Way(c) = "resume" => thread[c].cont \in 1..Len(conts))'
    BY <1>5, <1>6, <1>7
  <2>4. /\ (Way(c) \in {"invoke", "resume"} =>
              /\ Reply(c) \in CallReply \cup NoReply
              /\ Reply(c) \in CallReply => thread[c].of \in 1..Len(server)
              /\ Reply(c) \in {"working", "completed"} => server[thread[c].of] # "asked")'
        /\ (Way(c) = "update" => Reply(c) \in {"ack"} \cup NoReply)'
        /\ (Way(c) = "cancel" => Reply(c) \in {"ack"} \cup NoReply)'
        /\ (Way(c) = "poll" => Reply(c) \in ServerRun \cup NoReply)'
    BY <1>2, <1>5, <2>1
  <2>5. QED
    BY <2>2, <2>3, <2>4 DEF ThreadOK
<1>9. QED
  BY <1>1, <1>2, <1>4, <1>8, ThreadMoves

\* The steps that touch no row of the adapter and nothing of the server.
LEMMA QuietType ==
  ASSUME McpTypeInv, NEW c \in Thread,
         \/ Start(c) \/ Complete(c) \/ Unknown(c) \/ Abandon(c) \/ BeginCompletion(c)
         \/ CompleteTask(c) \/ FinalizeTaskCancelled(c) \/ AskCancel(c) \/ Fault(c)
         \/ ThreadCrash(c) \/ ToInvoke(c) \/ ToResume(c) \/ ToUpdate(c)
  PROVE  RowsOK' /\ ThreadsOK'
<1>1. UNCHANGED <<mcpRows, serverVars>> /\ (UNCHANGED disturbed \/ Disturb)
  BY DEF Start, Complete, Unknown, Abandon, BeginCompletion, CompleteTask, Raise, Still,
         FinalizeTaskCancelled, AskCancel, Fault, ThreadCrash, ToInvoke, ToResume, ToUpdate,
         Taking
<1>2. RowsOK /\ ThreadsOK /\ disturbed \in 0..MaxDisturbed
  BY DEF McpTypeInv, RowsOK
<1>3. RowsOK' /\ Growth
  BY <1>1, <1>2, RowsSame, DisturbType
<1> SUFFICES ThreadsOK'
  BY <1>3
<1>4. UNCHANGED thread => ThreadsOK'
  BY <1>2, <1>3, ThreadKeeps DEF ThreadsOK
<1>5. Rest(c) => ThreadsOK'
  BY <1>2, <1>3, ThreadRests
<1>6. ASSUME Raise(c), ~Is(c, "idle") PROVE ThreadsOK'
  BY <1>3, <1>5, <1>6, ThreadAnswered DEF Raise, NoReply
<1>7. ASSUME NEW pc \in {"begun", "finish"}, ~Is(c, "idle"), GoOn(c, pc) PROVE ThreadsOK'
  BY <1>3, <1>7, ThreadGoesOn
<1>8. CASE Start(c)
  BY <1>4, <1>5, <1>7, <1>8 DEF Start, Is
<1>9. CASE Complete(c)
  <2>1. CASE Rest(c)
    BY <1>5, <2>1
  <2> DEFINE state == [thread[c] EXCEPT !.pc = "finish", !.reply = IF @ = "ok" THEN "ok" ELSE "bad"]
  <2>3. ASSUME Become(c, state), ~Is(c, "idle") PROVE ThreadsOK'
    <3>1. thread[c] \in AtWork /\ ThreadOK(c)
      BY <1>2, <2>3, Working
    <3>2. state \in AtWork /\ state.pc = "finish" /\ state.way = Way(c)
          /\ state.job = thread[c].job /\ state.cont = thread[c].cont
      BY <3>1 DEF AtWork, Way
    <3>3. thread'[c] = state
      BY <1>2, <2>3 DEF Become, ThreadsOK
    <3> HIDE DEF state
    <3>4. Len(conts') = Len(conts) /\ task' = task
      BY <1>1 DEF mcpRows
    <3>5. ThreadOK(c)'
      <4>1. ThreadOK(c) /\ ~Is(c, "idle")
        BY <2>3, <3>1
      <4>2. QED
        BY <3>1, <3>2, <3>3, <3>4, <4>1 DEF ThreadOK, Is, Way
    <3>6. QED
      BY <1>2, <1>3, <2>3, <3>2, <3>5, ThreadMoves
  <2>4. QED
    BY <1>9, <2>1, <2>3 DEF Complete, Replied, Is
<1>10. CASE Unknown(c)
  BY <1>5, <1>6, <1>10 DEF Unknown, Replied, Is
<1>11. CASE Abandon(c) \/ ThreadCrash(c)
  BY <1>5, <1>11 DEF Abandon, ThreadCrash
<1>12. CASE BeginCompletion(c)
  <2>1. CASE GoOn(c, "completing")
    <3>1. ~Is(c, "idle") /\ Is(c, "ended") /\ Reply(c) \in Ended
      BY <1>12 DEF BeginCompletion, Is, Ended
    <3>2. ThreadOK(c)
      BY <1>2 DEF ThreadsOK
    <3>3. task' # "none"
      BY <1>1, <3>1, <3>2 DEF ThreadOK, Is, mcpRows
    <3>4. QED
      BY <1>3, <2>1, <3>1, <3>3, ThreadGoesOn
  <2>2. QED
    BY <1>6, <1>12, <2>1 DEF BeginCompletion, Is
<1>13. CASE CompleteTask(c) \/ FinalizeTaskCancelled(c)
  BY <1>5, <1>7, <1>13 DEF CompleteTask, FinalizeTaskCancelled, Is
<1>14. CASE Fault(c)
  BY <1>3, <1>14, ThreadAnswered DEF Fault, Is, NoReply
<1>15. ASSUME NEW way \in {"invoke", "resume", "update", "cancel"}, NEW cont \in Nat,
              NEW pc \in {"looked", "begun"}, Become(c, [On(way, cont, 0) EXCEPT !.pc = pc]),
              way = "resume" => cont \in 1..Len(conts),
              way \notin {"invoke", "resume"} => task # "none"
       PROVE  ThreadsOK'
  <2> DEFINE state == [On(way, cont, 0) EXCEPT !.pc = pc]
  <2>1. state \in AtWork /\ state.pc = pc /\ state.way = way /\ state.cont = cont /\ state.job = 0
    BY <1>15, SlotsAssumption DEF On, AtWork
  <2>2. thread'[c] = state
    BY <1>2, <1>15 DEF Become, ThreadsOK
  <2>3. Become(c, state)
    BY <1>15
  <2> HIDE DEF state
  <2>4. Len(conts') = Len(conts) /\ task' = task
    BY <1>1 DEF mcpRows
  <2>5. ThreadOK(c)'
    <3>1. pc \notin {"ended", "completing", "replied"} /\ (pc = "idle" => FALSE) /\ (way = "poll" => FALSE)
      OBVIOUS
    <3>2. QED
      BY <1>15, <2>1, <2>2, <2>4, <3>1 DEF ThreadOK, Is, Way
  <2>6. QED
    BY <1>2, <1>3, <2>1, <2>3, <2>5, ThreadMoves
<1>16. CASE AskCancel(c)
  BY <1>15, <1>16 DEF AskCancel
<1>17. \A way, cont : On(way, cont, 0) = [On(way, cont, 0) EXCEPT !.pc = "looked"]
  BY DEF On
<1>18. CASE ToInvoke(c) \/ ToUpdate(c)
  <2>1. PICK way \in {"invoke", "update"} :
          Become(c, On(way, 0, 0)) /\ (way = "update" => task # "none")
    BY <1>18 DEF ToInvoke, ToUpdate, Taking
  <2>2. Become(c, [On(way, 0, 0) EXCEPT !.pc = "looked"])
    BY <1>17, <2>1 DEF Become
  <2>3. QED
    BY <1>15, <2>1, <2>2
<1>19. CASE ToResume(c)
  <2>1. Len(conts) \in Nat /\ Len(conts) # 0
    BY <1>2, <1>19, EmptySeq, LenProperties DEF ToResume, RowsOK
  <2>2. PICK k \in 1..Len(conts) : k = Len(conts)
    BY <2>1
  <2>3. Become(c, [On("resume", k, 0) EXCEPT !.pc = "looked"])
    BY <1>17, <1>19, <2>2 DEF ToResume, Taking, Become
  <2>4. QED
    BY <1>15, <2>1, <2>2, <2>3
<1>20. QED
  BY <1>8, <1>9, <1>10, <1>11, <1>12, <1>13, <1>14, <1>16, <1>18, <1>19

\* What the server makes of a request that it understands: one run is added, or
\* one is moved; a run that has completed or that asks no more stays so.
LEMMA ServerMoves ==
  ASSUME McpTypeInv, NEW c \in Thread, Is(c, "sent"), Understood(c),
         NEW o \in Results(c), ServerHandles(c, o)
  PROVE  LET k == IF Way(c) = "invoke" THEN Len(server') ELSE RunOf(c)
         IN  /\ server' \in Seq(ServerRun) /\ Len(server') <= MaxRuns
             /\ Len(server) <= Len(server') /\ asks' \in 0..MaxAsks
             /\ k \in 1..Len(server') /\ k \in Nat
             /\ server'[k] = o.now /\ o.now \in ServerRun
             /\ Way(c) = "invoke" => Len(server') = Len(server) + 1
             /\ Way(c) # "invoke" => Len(server') = Len(server)
             /\ \A i \in 1..Len(server) : i # k => server'[i] = server[i]
             /\ \A i \in 1..Len(server) : server[i] # "asked" => server'[i] # "asked"
             /\ \A i \in 1..Len(server) : server[i] \in Ended => server'[i] = server[i]
             /\ \/ o.reply \in NoReply
                \/ Way(c) \in {"invoke", "resume"} /\ o.reply \in CallReply
                     /\ (o.reply \in {"working", "completed"} => server'[k] # "asked")
                     /\ (o.reply \in {"ok", "completed"} => server'[k] = "completed")
                     /\ (o.reply = "bad" => server'[k] = "failed")
                     /\ (o.reply = "asked" => server'[k] = "asked")
                \/ Way(c) \in {"update", "cancel"} /\ o.reply = "ack"
                \/ Way(c) = "poll" /\ o.reply \in ServerRun /\ server'[k] = o.reply
<1> DEFINE k == IF Way(c) = "invoke" THEN Len(server') ELSE RunOf(c)
<1>1. RowsOK /\ ThreadOK(c) /\ thread[c] \in AtWork /\ ThreadsOK
  BY Working DEF McpTypeInv, Is
<1>2. /\ Way(c) \in {"invoke", "resume", "update", "poll", "cancel"}
      /\ server \in Seq(ServerRun) /\ Len(server) \in Nat
      /\ \A i \in 1..Len(server) : server[i] \in ServerRun
  BY <1>1, LenProperties, ElementOfSeq DEF AtWork, Way, RowsOK
<1>3. Way(c) # "invoke" => RunOf(c) \in 1..Len(server)
  <2>1. ~Is(c, "idle")
    BY DEF Is
  <2>2. CASE Way(c) = "resume"
    <3>1. thread[c].cont \in 1..Len(conts)
      BY <1>1, <2>1, <2>2 DEF ThreadOK
    <3>2. conts[thread[c].cont] \in RunRow
      BY <1>1, <3>1, ElementOfSeq DEF RowsOK
    <3>3. QED
      BY <1>1, <1>2, <2>2, <3>1, <3>2 DEF RowsOK, RunRow, RunOf
  <2>3. CASE Way(c) \notin {"invoke", "resume"}
    BY <1>1, <1>2, <2>1, <2>3 DEF ThreadOK, RowsOK, RunOf
  <2>4. QED
    BY <2>2, <2>3
<1>4. CASE Way(c) \in {"invoke", "resume"}
  <2>1. /\ o \in {Outcome("completed", "ok"), Outcome("failed", "bad"), Outcome("working", "working"),
                  Outcome("completed", "completed"), Outcome("asked", "asked")}
        /\ o = Outcome("asked", "asked") => asks < MaxAsks
    <3>1. Outcome("asked", "asked") \notin
            {Outcome("completed", "ok"), Outcome("failed", "bad"), Outcome("working", "working"),
             Outcome("completed", "completed")}
      BY DEF Outcome
    <3>2. o \in {Outcome("completed", "ok"), Outcome("failed", "bad"), Outcome("working", "working"),
                Outcome("completed", "completed")}
              \cup (IF asks < MaxAsks THEN {Outcome("asked", "asked")} ELSE {})
      BY <1>4 DEF Results
    <3>3. QED
      BY <3>1, <3>2
  <2>2. /\ o.now \in ServerRun /\ o.reply \in CallReply
        /\ o.reply \in {"working", "completed"} => o.now # "asked"
        /\ o.reply \in {"ok", "completed"} => o.now = "completed"
        /\ o.reply = "bad" => o.now = "failed"
        /\ o.reply = "asked" => o.now = "asked" /\ asks < MaxAsks
    BY <2>1 DEF Outcome, ServerRun, Ended, CallReply
  <2>3. asks' \in 0..MaxAsks
    BY <1>1, <2>2, SlotsAssumption DEF ServerHandles, RowsOK
  <2>4. CASE Way(c) = "invoke"
    <3>1. Len(server) < MaxRuns /\ server' = Append(server, o.now)
      BY <2>4 DEF ServerHandles
    <3>2. /\ server' \in Seq(ServerRun) /\ Len(server') = Len(server) + 1
          /\ \A i \in 1..Len(server) : server'[i] = server[i]
          /\ server'[Len(server) + 1] = o.now
      BY <1>2, <2>2, <3>1, AppendProperties
    <3>3. Len(server') <= MaxRuns
      BY <1>2, <3>1, <3>2, SlotsAssumption
    <3>4. k = Len(server') /\ k \in 1..Len(server') /\ k \in Nat
      BY <1>2, <2>4, <3>2
    <3> HIDE DEF k
    <3>5. QED
      BY <1>2, <2>2, <2>3, <2>4, <3>2, <3>3, <3>4 DEF k
  <2>5. CASE Way(c) = "resume"
    <3>1. server' = [server EXCEPT ![RunOf(c)] = o.now] /\ server[RunOf(c)] = "asked"
      BY <2>5 DEF ServerHandles, Understood
    <3>2. /\ server' \in Seq(ServerRun) /\ Len(server') = Len(server)
          /\ \A i \in 1..Len(server) : server'[i] = IF i = RunOf(c) THEN o.now ELSE server[i]
      BY <1>2, <1>3, <2>2, <2>5, <3>1, ExceptSeq
    <3>3. QED
      BY <1>1, <1>2, <1>3, <2>2, <2>3, <2>5, <3>1, <3>2 DEF RowsOK, Ended
  <2>6. QED
    BY <1>4, <2>4, <2>5
<1>5. CASE Way(c) \in {"update", "poll", "cancel"}
  <2>1. RunOf(c) = handle /\ handle \in 1..Len(server) /\ server[handle] \in ServerRun
        /\ server[handle] # "asked"
    BY <1>1, <1>2, <1>3, <1>5 DEF RunOf, RowsOK
  <2>2. /\ o.now \in ServerRun /\ o.now # "asked"
        /\ server[handle] \in Ended => o.now = server[handle]
        /\ o.reply # "asked"
        /\ Way(c) \in {"update", "cancel"} => o.reply = "ack"
        /\ Way(c) = "poll" => o.reply = o.now
    <3>1. CASE Way(c) = "update"
      BY <1>2, <2>1, <3>1 DEF Results, Outcome, ServerRun, Understood, Ended
    <3>2. CASE Way(c) = "poll"
      BY <2>1, <3>2 DEF Results, Outcome
    <3>3. CASE Way(c) = "cancel"
      <4>1. \/ o = Outcome(server[handle], "ack")
            \/ server[handle] \notin Ended /\ o = Outcome("cancelled", "ack")
        BY <3>3 DEF Results
      <4>2. QED
        BY <2>1, <3>3, <4>1 DEF Outcome, ServerRun, Ended
    <3>4. QED
      BY <1>5, <3>1, <3>2, <3>3
  <2>3. server' = [server EXCEPT ![handle] = o.now] /\ asks' = asks
    BY <1>5, <2>1, <2>2 DEF ServerHandles
  <2>4. /\ server' \in Seq(ServerRun) /\ Len(server') = Len(server)
        /\ \A i \in 1..Len(server) : server'[i] = IF i = handle THEN o.now ELSE server[i]
    BY <1>2, <2>1, <2>2, <2>3, ExceptSeq
  <2>5. k = handle
    BY <1>5, <2>1
  <2> HIDE DEF k
  <2>6. /\ server'[k] = o.now /\ k \in 1..Len(server') /\ k \in Nat /\ Len(server') <= MaxRuns
        /\ asks' \in 0..MaxAsks /\ Len(server) <= Len(server')
    BY <1>1, <1>2, <2>1, <2>3, <2>4, <2>5 DEF RowsOK
  <2>7. \A i \in 1..Len(server) :
          /\ i # k => server'[i] = server[i]
          /\ server[i] # "asked" => server'[i] # "asked"
          /\ server[i] \in Ended => server'[i] = server[i]
    BY <2>2, <2>4, <2>5
  <2>8. \/ Way(c) \in {"update", "cancel"} /\ o.reply = "ack"
        \/ Way(c) = "poll" /\ o.reply \in ServerRun /\ server'[k] = o.reply
    BY <1>5, <2>2, <2>6
  <2>9. QED
    BY <1>5, <2>2, <2>4, <2>6, <2>7, <2>8 DEF k
<1>6. QED
  BY <1>2, <1>4, <1>5

\* The rows stay what they are while the server goes on.
LEMMA ServerGrows ==
  ASSUME RowsOK, UNCHANGED mcpRows, server' \in Seq(ServerRun), Len(server') <= MaxRuns,
         Len(server) <= Len(server'), asks' \in 0..MaxAsks, disturbed' \in 0..MaxDisturbed,
         \A i \in 1..Len(server) : server[i] # "asked" => server'[i] # "asked"
  PROVE  RowsOK' /\ Growth
<1>1. UNCHANGED <<task, handle, acked, conts, polls>>
  BY DEF mcpRows
<1>2. Len(server) \in Nat /\ Len(server') \in Nat /\ Len(conts) \in Nat
  BY LenProperties DEF RowsOK
<1>3. \A i \in 1..Len(conts) : conts[i].run \in Nat
  <2>1. \A i \in 1..Len(conts) : conts[i] \in RunRow
    BY ElementOfSeq DEF RowsOK
  <2>2. QED
    BY <2>1, SlotsAssumption DEF RunRow
<1>4. \A i \in 1..Len(conts) : conts'[i].run <= Len(server')
  BY <1>1, <1>2, <1>3 DEF RowsOK
<1>5. handle \in Nat /\ handle <= Len(server') /\ (handle # 0 => server'[handle] # "asked")
  BY <1>2 DEF RowsOK
<1>6. RowsOK'
  <2>1. handle' = handle /\ polls' = polls /\ task' = task /\ conts' = conts /\ acked' = acked
    BY <1>1
  <2>2. \A i \in 1..Len(conts') : conts'[i].run <= Len(server')
    BY <1>4, <2>1
  <2>3. QED
    BY <1>5, <2>1, <2>2 DEF RowsOK
<1>7. QED
  BY <1>1, <1>2, <1>6 DEF Growth

\* The steps of the server, with the request that reaches it and the answer.
LEMMA ServerRows ==
  ASSUME McpTypeInv, NEW c \in Thread, Is(c, "sent"), Understood(c),
         NEW o \in Results(c), ServerHandles(c, o), UNCHANGED mcpRows,
         disturbed' \in 0..MaxDisturbed
  PROVE  RowsOK' /\ Growth
<1>1. RowsOK
  BY DEF McpTypeInv
<1>2. QED
  BY <1>1, ServerMoves, ServerGrows

\* An answer of the server keeps the types,
LEMMA ServeType == ASSUME McpTypeInv, NEW c \in Thread, Serve(c) PROVE RowsOK' /\ ThreadsOK'
<1>1. Is(c, "sent") /\ Understood(c) /\ UNCHANGED mcpRows /\ ~Is(c, "idle")
  BY DEF Serve, Is
<1> DEFINE k == IF Way(c) = "invoke" THEN Len(server') ELSE RunOf(c)
<1>2. PICK o \in Results(c) : ServerHandles(c, o) /\ Answer(c, o.reply, k)
  BY DEF Serve
<1>3. disturbed' \in 0..MaxDisturbed
  BY DEF Serve, McpTypeInv, RowsOK
<1>4. RowsOK' /\ Growth
  BY <1>1, <1>2, <1>3, ServerRows
<1>5. /\ k \in 1..Len(server') /\ k \in Nat
      /\ \/ o.reply \in NoReply
         \/ Way(c) \in {"invoke", "resume"} /\ o.reply \in CallReply
              /\ (o.reply \in {"working", "completed"} => server'[k] # "asked")
         \/ Way(c) \in {"update", "cancel"} /\ o.reply = "ack"
         \/ Way(c) = "poll" /\ o.reply \in ServerRun
  BY <1>1, <1>2, ServerMoves
<1>6. o.reply \in ServerRun \cup {"ok", "bad", "ack"} \cup NoReply
  BY <1>5 DEF CallReply, ServerRun, Ended
<1> HIDE DEF k
<1>7. QED
  BY <1>1, <1>2, <1>4, <1>5, <1>6, ThreadAnswered

\* a lost one too,
LEMMA LoseReplyType ==
  ASSUME McpTypeInv, NEW c \in Thread, LoseReply(c) PROVE RowsOK' /\ ThreadsOK'
<1>1. Is(c, "sent") /\ UNCHANGED mcpRows /\ ~Is(c, "idle") /\ Answer(c, "lost", 0) /\ RowsOK
      /\ disturbed' \in 0..MaxDisturbed
  BY DisturbType DEF LoseReply, Is, McpTypeInv
<1>2. RowsOK' /\ Growth
  BY <1>1, ServerRows, RowsSame DEF LoseReply
<1>3. QED
  BY <1>1, <1>2, ThreadAnswered DEF NoReply

\* and the request, which marks its continuation as resumed.
LEMMA SendRequestType ==
  ASSUME McpTypeInv, NEW c \in Thread, SendRequest(c) PROVE RowsOK' /\ ThreadsOK'
<1>1. /\ Is(c, "begun") /\ ~Is(c, "idle") /\ RowsOK /\ ThreadsOK
      /\ UNCHANGED <<task, handle, acked, polls, serverVars, disturbed>>
  BY DEF SendRequest, Is, McpTypeInv
<1>2. conts' \in Seq(RunRow) /\ Len(conts') = Len(conts)
      /\ \A k \in 1..Len(conts) : conts'[k].run = conts[k].run
  <2>1. CASE UNCHANGED conts
    BY <1>1, <2>1 DEF RowsOK
  <2>2. CASE Way(c) = "resume" /\ conts' = [conts EXCEPT ![thread[c].cont].resumed = TRUE]
    <3>1. thread[c].cont \in 1..Len(conts)
      BY <1>1, <2>2 DEF ThreadsOK, ThreadOK
    <3>2. conts[thread[c].cont] \in RunRow
      BY <1>1, <3>1, ElementOfSeq DEF RowsOK
    <3>3. PICK r \in RunRow : r = [conts[thread[c].cont] EXCEPT !.resumed = TRUE]
      BY <3>2 DEF RunRow
    <3>4. r.run = conts[thread[c].cont].run
      BY <3>2, <3>3 DEF RunRow
    <3>5. conts' = [conts EXCEPT ![thread[c].cont] = r]
      BY <2>2, <3>3
    <3>6. QED
      BY <1>1, <3>1, <3>4, <3>5, ExceptSeq DEF RowsOK
  <2>3. QED
    BY <2>1, <2>2 DEF SendRequest
<1>3. Len(conts) \in Nat /\ Len(server) \in Nat
  BY <1>1, LenProperties DEF RowsOK
<1>4. RowsOK' /\ Growth
  BY <1>1, <1>2, <1>3 DEF RowsOK, Growth, serverVars
<1>5. CASE GoOn(c, "sent")
  BY <1>1, <1>4, <1>5, ThreadGoesOn
<1>6. CASE Rest(c)
  BY <1>1, <1>4, <1>6, ThreadRests
<1>7. CASE Become(c, [thread[c] EXCEPT !.pc = "replied", !.reply = "rejected"]) /\ Way(c) = "invoke"
  <2> DEFINE state == [thread[c] EXCEPT !.pc = "replied", !.reply = "rejected"]
  <2>1. thread[c] \in AtWork /\ ThreadOK(c)
    BY <1>1, Working
  <2>2. state \in AtWork /\ state.pc = "replied" /\ state.way = "invoke"
        /\ state.reply = "rejected" /\ state.job = thread[c].job
    BY <1>7, <2>1 DEF AtWork, Way
  <2>3. thread'[c] = state
    BY <1>1, <1>7 DEF ThreadsOK, Become
  <2> HIDE DEF state
  <2>4. ThreadOK(c)'
    BY <1>1, <1>7, <2>1, <2>2, <2>3 DEF ThreadOK, Is, Way, Reply, NoReply, CallReply
  <2>5. QED
    BY <1>1, <1>4, <1>7, <2>2, <2>4, ThreadMoves DEF state
<1>8. QED
  BY <1>4, <1>5, <1>6, <1>7 DEF SendRequest

\* A task that goes on by itself keeps the types.
LEMMA ProgressType ==
  ASSUME McpTypeInv, NEW k \in DOMAIN server, Progress(k) PROVE RowsOK' /\ ThreadsOK'
<1>1. RowsOK /\ ThreadsOK /\ UNCHANGED <<mcpRows, thread, disturbed>>
  BY DEF McpTypeInv, Progress
<1>2. k \in 1..Len(server) /\ Len(server) \in Nat
  BY <1>1, LenProperties DEF RowsOK
<1>3. PICK s \in {"completed", "failed", "input_required"} : server' = [server EXCEPT ![k] = s]
  BY DEF Progress
<1>4. s \in ServerRun
  BY DEF ServerRun, Ended
<1>5. /\ server' \in Seq(ServerRun) /\ Len(server') = Len(server)
      /\ \A i \in 1..Len(server) : server'[i] = IF i = k THEN s ELSE server[i]
  BY <1>1, <1>2, <1>3, <1>4, ExceptSeq DEF RowsOK
<1>6. asks' \in 0..MaxAsks
  BY <1>1, SlotsAssumption DEF RowsOK, Progress
<1>7. RowsOK' /\ Growth
  <2>1. s # "asked" /\ Len(server') <= MaxRuns /\ disturbed' \in 0..MaxDisturbed
    BY <1>1, <1>5 DEF RowsOK
  <2>2. QED
    BY <1>1, <1>2, <1>5, <1>6, <2>1, ServerGrows
<1>8. QED
  BY <1>1, <1>7, ThreadKeeps DEF ThreadsOK

\* The steps that write the rows of the adapter.
LEMMA RowsWritten ==
  ASSUME RowsOK, UNCHANGED <<serverVars, disturbed>>,
         task' \in TaskStatus \cup {"none"}, task # "none" => task' # "none",
         handle' \in 0..Len(server), task' # "none" => handle' # 0,
         handle' # 0 => server[handle'] # "asked", acked' \in BOOLEAN,
         conts' \in Seq(RunRow), Len(conts) <= Len(conts'),
         \A k \in 1..Len(conts') : conts'[k].run <= Len(server),
         polls' \in [Slot -> {"ready", "done"} \cup Thread],
         \A j \in Slot : polls'[j] # "done" => task' # "none"
  PROVE  RowsOK' /\ Growth
BY LenProperties DEF RowsOK, Growth, serverVars

\* As far as the poll jobs are concerned.
LEMMA PollsWritten ==
  ASSUME RowsOK, UNCHANGED <<handle, conts, serverVars, disturbed>>,
         acked' \in BOOLEAN, task' \in TaskStatus \cup {"none"}, handle # 0 \/ UNCHANGED task,
         task # "none" => task' # "none",
         \/ EnqueuePoll /\ task' # "none"
         \/ RetirePolls
         \/ UNCHANGED polls
         \/ \E j, c : polls' = [polls EXCEPT ![j] = c] /\ c \in {"ready", "done"} \cup Thread
                      /\ (c = "done" \/ polls[j] # "done")
  PROVE  RowsOK' /\ Growth
<1>1. /\ polls' \in [Slot -> {"ready", "done"} \cup Thread]
      /\ \A j \in Slot : polls'[j] # "done" => polls[j] # "done" \/ task' # "none"
  BY PollEnqueued DEF RowsOK, RetirePolls
<1>2. \A j \in Slot : polls'[j] # "done" => task' # "none"
  BY <1>1 DEF RowsOK
<1>3. Len(conts) \in Nat /\ Len(server) \in Nat
  BY LenProperties DEF RowsOK
<1>4. QED
  BY <1>1, <1>2, <1>3, RowsWritten DEF RowsOK, serverVars

\* The transactions of a thread that write the rows.
LEMMA RecordType ==
  ASSUME McpTypeInv, NEW c \in Thread,
         \/ RecordInputRequired(c) \/ RecordTask(c) \/ Observe(c) \/ Finish(c) \/ Close(c)
         \/ UpdateAcknowledged(c) \/ CancelAcknowledged(c)
  PROVE  RowsOK' /\ ThreadsOK'
<1>1. /\ RowsOK /\ ThreadsOK /\ ThreadOK(c) /\ ~Is(c, "idle") /\ thread[c] \in AtWork
      /\ UNCHANGED <<serverVars, disturbed>>
  BY Working DEF McpTypeInv, RecordInputRequired, RecordTask, Observe, Finish, Close,
     UpdateAcknowledged, CancelAcknowledged, Replied, Is, Still
<1>2. Len(conts) \in Nat /\ Len(server) \in Nat /\ Len(conts) <= Len(conts)
  BY <1>1, LenProperties DEF RowsOK
<1>3. /\ task \in TaskStatus \cup {"none"} /\ handle \in 0..Len(server) /\ acked \in BOOLEAN
      /\ conts \in Seq(RunRow) /\ \A k \in 1..Len(conts) : conts[k].run <= Len(server)
      /\ polls \in [Slot -> {"ready", "done"} \cup Thread]
      /\ \A j \in Slot : polls[j] # "done" => task # "none"
      /\ task # "none" => handle # 0
      /\ handle # 0 => server[handle] # "asked"
  BY <1>1, <1>2 DEF RowsOK
<1>4. ASSUME UNCHANGED mcpRows PROVE RowsOK' /\ Growth
  BY <1>1, <1>2, <1>3, <1>4, RowsSame DEF mcpRows, RowsOK
<1>5. ASSUME RowsOK' /\ Growth, Rest(c) PROVE ThreadsOK'
  BY <1>1, <1>5, ThreadRests
<1>6. ASSUME RowsOK' /\ Growth, GoOn(c, "closing") \/ GoOn(c, "finish") PROVE ThreadsOK'
  BY <1>1, <1>6, ThreadGoesOn
<1>7. ASSUME Raise(c) PROVE RowsOK' /\ ThreadsOK'
  BY <1>1, <1>4, <1>5, <1>7, ThreadAnswered DEF Raise, NoReply
<1>8. CASE RecordInputRequired(c)
  <2>1. ASSUME conts' = Append(conts, [run |-> thread[c].of, resumed |-> FALSE]), Rest(c),
               UNCHANGED <<task, handle, acked, polls>>
        PROVE  RowsOK' /\ ThreadsOK'
    <3>1. thread[c].of \in 1..Len(server) /\ Len(server) <= MaxRuns
      BY <1>1, <1>8 DEF RecordInputRequired, Replied, ThreadOK, CallReply, RowsOK
    <3>2. [run |-> thread[c].of, resumed |-> FALSE] \in RunRow
      BY <1>2, <3>1, SlotsAssumption DEF RunRow
    <3>3. /\ conts' \in Seq(RunRow) /\ Len(conts') = Len(conts) + 1
          /\ \A k \in 1..Len(conts) : conts'[k] = conts[k]
          /\ conts'[Len(conts) + 1].run = thread[c].of
      BY <1>3, <2>1, <3>2, AppendProperties
    <3>4. \A k \in 1..Len(conts') : conts'[k].run <= Len(server)
      BY <1>2, <1>3, <3>1, <3>3
    <3>5. RowsOK' /\ Growth
      BY <1>1, <1>2, <1>3, <2>1, <3>3, <3>4, RowsWritten
    <3>6. QED
      BY <1>5, <2>1, <3>5
  <2>2. QED
    BY <1>7, <1>8, <2>1 DEF RecordInputRequired
<1>9. CASE RecordTask(c)
  <2>1. ASSUME task = "none", task' = Reply(c), handle' = thread[c].of,
               EnqueuePoll \/ UNCHANGED polls, UNCHANGED <<acked, conts>>
        PROVE  RowsOK' /\ Growth
    <3>1. /\ thread[c].of \in 1..Len(server) /\ server[thread[c].of] # "asked"
          /\ Reply(c) \in TaskStatus
      BY <1>1, <1>9 DEF RecordTask, Replied, ThreadOK, CallReply, TaskStatus
    <3>2. polls' \in [Slot -> {"ready", "done"} \cup Thread]
      BY <1>1, <1>3, <2>1, PollEnqueued
    <3>3. task' # "none" /\ handle' \in 0..Len(server) /\ handle' # 0
      BY <1>2, <2>1, <3>1 DEF TaskStatus
    <3>4. QED
      BY <1>1, <1>2, <1>3, <2>1, <3>1, <3>2, <3>3, RowsWritten
  <2>2. ASSUME RowsOK' /\ Growth, task' = Reply(c), Reply(c) = "completed", GoOn(c, "ended")
        PROVE  ThreadsOK'
    <3>1. task' # "none" /\ Reply(c) \in Ended
      BY <2>2 DEF Ended
    <3>2. QED
      BY <1>1, <2>2, <3>1, ThreadGoesOn
  <2>3. CASE UNCHANGED mcpRows /\ Rest(c)
    BY <1>4, <1>5, <2>3
  <2>4. QED
    BY <1>5, <1>7, <1>9, <2>1, <2>2, <2>3 DEF RecordTask, Replied
<1>10. CASE Observe(c)
  <2>1. Way(c) = "poll" /\ task # "none" /\ handle # 0
    BY <1>1, <1>3, <1>10 DEF Observe, Replied, ThreadOK
  <2>2. CASE UNCHANGED mcpRows /\ Rest(c)
    BY <1>4, <1>5, <2>2
  <2>3. ASSUME task' \in TaskStatus, UNCHANGED <<handle, acked, conts>>,
               EnqueuePoll \/ UNCHANGED polls
        PROVE  RowsOK' /\ Growth
    BY <1>1, <1>3, <2>1, <2>3, PollsWritten DEF TaskStatus
  <2>4. CASE Reply(c) = "working" /\ ~Rest(c)
    BY <1>6, <1>10, <2>3, <2>4 DEF Observe, TaskStatus
  <2>5. CASE Reply(c) = "input_required" /\ ~Rest(c)
    BY <1>6, <1>10, <2>3, <2>5 DEF Observe, TaskStatus
  <2>6. CASE Reply(c) \in Ended /\ ~Rest(c)
    <3>1. task' = Reply(c) /\ GoOn(c, "ended") /\ UNCHANGED <<handle, acked, conts, polls>>
      BY <1>10, <2>6 DEF Observe, Ended
    <3>2. RowsOK' /\ Growth /\ task' # "none"
      BY <2>3, <2>6, <3>1 DEF TaskStatus, Ended
    <3>3. QED
      BY <1>1, <2>6, <3>1, <3>2, ThreadGoesOn
  <2>7. CASE Rest(c)
    <3>1. ~GoOn(c, "closing") /\ ~GoOn(c, "ended")
      BY <1>1, <2>7 DEF Rest, GoOn, Become, Resting, AtWork, ThreadsOK
    <3>2. QED
      BY <1>10, <2>2, <2>7, <3>1 DEF Observe
  <2>8. QED
    BY <1>10, <2>4, <2>5, <2>6, <2>7 DEF Observe, Replied, TaskStatus, Ended
<1>11. CASE Finish(c)
  <2>1. RowsOK' /\ Growth
    BY <1>1, <1>3, <1>11, PollsWritten DEF Finish
  <2>2. QED
    BY <1>5, <1>6, <1>11, <2>1 DEF Finish
<1>12. CASE Close(c)
  <2>1. UNCHANGED polls \/ polls' = [polls EXCEPT ![thread[c].job] = "done"]
    BY <1>12 DEF Close
  <2>2. RowsOK' /\ Growth
    BY <1>1, <1>3, <1>12, <2>1, PollsWritten DEF Close
  <2>3. QED
    BY <1>5, <1>12, <2>2 DEF Close
<1>13. CASE UpdateAcknowledged(c)
  <2>1. task # "none" /\ handle # 0
    BY <1>1, <1>3, <1>13 DEF UpdateAcknowledged, Replied, ThreadOK
  <2>2. RowsOK' /\ Growth
    BY <1>1, <1>3, <1>4, <1>13, <2>1, PollsWritten DEF UpdateAcknowledged, TaskStatus
  <2>3. QED
    BY <1>5, <1>13, <2>2 DEF UpdateAcknowledged
<1>14. CASE CancelAcknowledged(c)
  <2>1. RowsOK' /\ Growth
    BY <1>1, <1>3, <1>14, PollsWritten DEF CancelAcknowledged
  <2>2. QED
    BY <1>5, <1>14, <2>1 DEF CancelAcknowledged
<1>15. QED
  BY <1>8, <1>9, <1>10, <1>11, <1>12, <1>13, <1>14

\* The steps that claim, give back or retire poll jobs.
LEMMA PollJobType ==
  ASSUME McpTypeInv,
         \/ \E c \in Thread, j \in Slot : ClaimPoll(c, j)
         \/ \E j \in Slot : Lapse(j)
         \/ User \/ Interfere \/ Finalize
  PROVE  RowsOK' /\ ThreadsOK'
<1>1. RowsOK /\ ThreadsOK /\ UNCHANGED <<task, handle, acked, conts, serverVars>>
      /\ acked \in BOOLEAN /\ task \in TaskStatus \cup {"none"}
  BY DEF McpTypeInv, RowsOK, ClaimPoll, Lapse, User, Interfere, Finalize, mcpRows
<1>2. \/ RetirePolls \/ UNCHANGED polls
      \/ \E j, c : polls' = [polls EXCEPT ![j] = c] /\ c \in {"ready", "done"} \cup Thread
                   /\ (c = "done" \/ polls[j] # "done")
  BY SlotsAssumption DEF ClaimPoll, Lapse, User, Interfere, Finalize, mcpRows
<1>3. ASSUME UNCHANGED disturbed PROVE RowsOK' /\ Growth
  BY <1>1, <1>2, <1>3, PollsWritten
<1>4. ASSUME Disturb PROVE RowsOK' /\ Growth
  <2>1. disturbed' \in 0..MaxDisturbed
    BY <1>1, <1>4, DisturbType
  <2>2. /\ polls' \in [Slot -> {"ready", "done"} \cup Thread]
        /\ \A j \in Slot : polls'[j] # "done" => polls[j] # "done"
    BY <1>1, <1>2 DEF RowsOK, RetirePolls
  <2>3. QED
    BY <1>1, <2>1, <2>2, LenProperties DEF RowsOK, Growth, serverVars
<1>5. RowsOK' /\ Growth
  BY <1>3, <1>4 DEF ClaimPoll, Lapse, User, Interfere, Finalize
<1>6. CASE UNCHANGED thread
  BY <1>1, <1>5, <1>6, ThreadKeeps DEF ThreadsOK
<1>7. ASSUME NEW c \in Thread, NEW j \in Slot, ClaimPoll(c, j) PROVE ThreadsOK'
  <2> DEFINE state == [On("poll", 0, j) EXCEPT !.pc = "begun"]
  <2>1. state \in AtWork /\ state.pc = "begun" /\ state.way = "poll" /\ state.job # 0
    BY SlotsAssumption DEF On, AtWork, Slot
  <2>2. Become(c, state)
    BY <1>7 DEF ClaimPoll
  <2> HIDE DEF state
  <2>3. thread'[c] = state
    BY <1>1, <2>2 DEF Become, ThreadsOK
  <2>4. task' # "none"
    BY <1>1, <1>7, SlotsAssumption DEF ClaimPoll, RowsOK
  <2>5. ThreadOK(c)'
    BY <2>1, <2>3, <2>4 DEF ThreadOK, Is, Way
  <2>6. QED
    BY <1>1, <1>5, <2>1, <2>2, <2>5, ThreadMoves
<1>8. QED
  BY <1>5, <1>6, <1>7 DEF Lapse, User, Interfere, Finalize

\* Every step keeps the rows and the threads well formed.
LEMMA McpTypeStep == McpTypeInv /\ [MNext]_mcpVars => McpTypeInv'
<1> SUFFICES ASSUME McpTypeInv, [MNext]_mcpVars PROVE McpTypeInv'
  OBVIOUS
<1>1. TypeOK'
  BY McpKernelType DEF McpTypeInv
<1>2. RowsOK' /\ ThreadsOK'
  <2>1. CASE UNCHANGED mcpVars
    <3>1. UNCHANGED <<mcpRows, serverVars, thread, disturbed>> /\ RowsOK /\ ThreadsOK
      BY <2>1 DEF mcpVars, McpTypeInv
    <3>2. RowsOK' /\ Growth
      BY <3>1, RowsSame DEF RowsOK
    <3>3. QED
      BY <3>1, <3>2, ThreadKeeps DEF ThreadsOK
  <2>2. ASSUME NEW c \in Thread, ThreadStep(c) PROVE RowsOK' /\ ThreadsOK'
    BY <2>2, QuietType, RecordType, SendRequestType, ServeType DEF ThreadStep
  <2>3. ASSUME NEW c \in Thread,
               \/ ToInvoke(c) \/ ToResume(c) \/ ToUpdate(c) \/ AskCancel(c)
               \/ Fault(c) \/ LoseReply(c) \/ ThreadCrash(c)
        PROVE  RowsOK' /\ ThreadsOK'
    BY <2>3, QuietType, LoseReplyType
  <2>4. ASSUME NEW k \in DOMAIN server, Progress(k) PROVE RowsOK' /\ ThreadsOK'
    BY <2>4, ProgressType
  <2>5. QED
    BY <2>1, <2>2, <2>3, <2>4, PollJobType DEF MNext
<1>3. QED
  BY <1>1, <1>2 DEF McpTypeInv

\* The types of the initial state.
LEMMA McpInitType == MInit => McpTypeInv
<1> SUFFICES ASSUME MInit PROVE McpTypeInv
  OBVIOUS
<1>1. TypeOK
  BY InitType DEF MInit
<1>2. RowsOK
  <2>1. conts \in Seq(RunRow) /\ Len(conts) = 0 /\ server \in Seq(ServerRun) /\ Len(server) = 0
    BY EmptySeq DEF MInit
  <2>2. /\ task = "none" /\ handle = 0 /\ acked = FALSE
        /\ polls \in [Slot -> {"ready", "done"} \cup Thread] /\ \A j \in Slot : polls[j] = "done"
        /\ asks \in 0..MaxAsks /\ disturbed \in 0..MaxDisturbed
    BY SlotsAssumption DEF MInit
  <2>3. /\ handle \in Nat /\ handle <= Len(server) /\ Len(server) <= MaxRuns
        /\ \A k \in 1..Len(conts) : conts[k].run <= Len(server)
    BY <2>1, <2>2, SlotsAssumption
  <2>4. QED
    BY <2>1, <2>2, <2>3 DEF RowsOK
<1>3. ThreadsOK
  BY DEF MInit, ThreadsOK, ThreadOK, Is, Resting
<1>4. QED
  BY <1>1, <1>2, <1>3 DEF McpTypeInv

\* The inductive invariant of the types.
LEMMA McpTypeInvariant == MSpec => []McpTypeInv
BY McpInitType, McpTypeStep, PTL DEF MSpec

\* The tables of the kernel and of the adapter keep their types, for any number
\* of threads, calls, poll jobs and disturbances.
THEOREM McpTypeCorrect == MSpec => []MTypeOK
<1>1. McpTypeInv => MTypeOK
  <2> SUFFICES ASSUME McpTypeInv PROVE MTypeOK
    OBVIOUS
  <2>1. RowsOK /\ TypeOK /\ Len(server) \in Nat
    BY LenProperties DEF McpTypeInv, RowsOK
  <2>2. handle \in 0..MaxRuns
    BY <2>1, SlotsAssumption DEF RowsOK
  <2>3. QED
    BY <2>1, <2>2 DEF MTypeOK, RowsOK, RunRow, ServerRun
<1>2. QED
  BY <1>1, McpTypeInvariant, PTL
-----------------------------------------------------------------------------
(* A call of an MCP tool: a task that is waited for is looked at again *)

\* A thread on the last part of its way does not look at the task any more.
Past(c) == thread[c].pc \in {"ended", "completing", "finish", "closing"}

\* A poll job that leads to a look, by the thread that holds it or, once its
\* lease has run out, by the next one.
WillLook(j) ==
  \/ polls[j] = "ready"
  \/ polls[j] \in Thread /\ ~(Past(polls[j]) /\ thread[polls[j]].job = j)
Awaited == action[call] = "waiting_external" /\ task = "working" /\ ~acked /\ Following
PolledInv == Awaited => \E j \in Slot : WillLook(j)

\* A step that sends no thread on the last part of its way, and retires or
\* completes no job that leads to a look.
Looking ==
  /\ \A c \in Thread : Past(c)' => Past(c) /\ thread'[c].job = thread[c].job
  /\ \A j \in Slot : \/ polls'[j] \in {polls[j], "ready"}
                     \/ polls'[j] \in Thread /\ ~Past(polls[j])'
                     \/ polls[j] \in Thread /\ Past(polls[j]) /\ thread[polls[j]].job = j

\* Under such a step, a job that leads to a look still does.
LEMMA LooksOn ==
  ASSUME McpTypeInv, McpTypeInv', Looking, NEW j \in Slot, WillLook(j)
  PROVE  WillLook(j)'
<1>1. polls[j] # "ready" \/ "ready" \notin Thread
  BY SlotsAssumption
<1>2. CASE polls'[j] = "ready"
  BY <1>2 DEF WillLook
<1>3. CASE polls'[j] = polls[j]
  BY <1>1, <1>3 DEF WillLook, Looking, Past
<1>4. CASE polls'[j] \in Thread /\ ~Past(polls[j])'
  BY <1>4 DEF WillLook, Past
<1>5. ~(polls[j] \in Thread /\ Past(polls[j]) /\ thread[polls[j]].job = j)
  BY SlotsAssumption DEF WillLook
<1>6. QED
  BY <1>2, <1>3, <1>4, <1>5 DEF Looking

\* Whoever awaits a working task after a step did so before, and the step keeps
\* every look; or the step commits the next one.
LEMMA PolledSuffices ==
  ASSUME McpTypeInv, McpTypeInv', PolledInv,
         EnqueuePoll \/ (Awaited' => Awaited /\ Looking)
  PROVE  PolledInv'
<1>1. CASE EnqueuePoll
  <2>1. PICK j \in Slot : polls' = [polls EXCEPT ![j] = "ready"]
    BY <1>1, PollEnqueued DEF McpTypeInv
  <2>2. WillLook(j)'
    BY <2>1 DEF McpTypeInv, RowsOK, WillLook
  <2>3. QED
    BY <2>2 DEF PolledInv
<1>2. CASE Awaited' => Awaited /\ Looking
  BY <1>2, LooksOn DEF PolledInv
<1>3. QED
  BY <1>1, <1>2

\* A thread that rests, or goes to an earlier point, keeps every look.
LEMMA RestsLooking ==
  ASSUME McpTypeInv, NEW c \in Thread, UNCHANGED polls, ~Is(c, "idle"),
         \/ Rest(c)
         \/ \E r, k : Answer(c, r, k)
         \/ \E pc \in {"begun", "sent"} : GoOn(c, pc)
         \/ Past(c) /\ \E pc : GoOn(c, pc)
  PROVE  Looking
<1>1. thread \in [Thread -> {Resting} \cup AtWork]
  BY DEF McpTypeInv, ThreadsOK
<1>2. \A d \in Thread \ {c} : thread'[d] = thread[d]
  BY <1>1 DEF Rest, Answer, GoOn, Become
<1>3. Past(c)' => Past(c) /\ thread'[c].job = thread[c].job
  <2>1. CASE Rest(c)
    BY <1>1, <2>1 DEF Rest, Become, Resting, Past
  <2>2. thread[c] \in AtWork
    BY Working DEF McpTypeInv
  <2>3. ASSUME NEW r, NEW k, Answer(c, r, k) PROVE ~Past(c)'
    BY <1>1, <2>2, <2>3 DEF Answer, Past, AtWork, Become
  <2>4. ASSUME NEW pc, GoOn(c, pc)
        PROVE  thread'[c].pc = pc /\ thread'[c].job = thread[c].job
    BY <1>1, <2>2, <2>4 DEF GoOn, AtWork, Become
  <2>5. QED
    BY <2>1, <2>3, <2>4 DEF Past
<1>4. QED
  BY <1>2, <1>3 DEF Looking, Past

\* What a transaction of the kernel may do to an action that waits outside, and
\* to a Run that follows it.
LEMMA McpMoves ==
  ASSUME TypeOK
  PROVE  /\ \A s : SetAction(call, s) => action'[call] = s
         /\ \A e, earlier : StartAttempt(call, e, earlier) => action'[call] = "running"
         /\ CanMove(run, "blocked") \/ run = "blocked" \/ run # "running"
BY CallAssumption DEF TypeOK, SetAction, StartAttempt, CanMove, RunTransitions, RunStatus,
   TerminalRun

\* The steps of a thread between the transactions.
LEMMA PolledAround ==
  ASSUME McpTypeInv, McpTypeInv', PolledInv, NEW c \in Thread,
         \/ SendRequest(c) \/ Serve(c) \/ Abandon(c) \/ Close(c) \/ ToInvoke(c) \/ ToResume(c)
         \/ ToUpdate(c) \/ AskCancel(c) \/ Fault(c) \/ LoseReply(c) \/ ThreadCrash(c)
         \/ \E j \in Slot : ClaimPoll(c, j)
  PROVE  PolledInv'
<1>1. UNCHANGED vars /\ UNCHANGED <<task, acked>>
  BY DEF SendRequest, Serve, Abandon, Close, ToInvoke, ToResume, ToUpdate, AskCancel, Fault,
         LoseReply, ThreadCrash, ClaimPoll, Taking, mcpRows
<1>2. Awaited' => Awaited
  BY <1>1 DEF vars, Awaited, Following
<1>3. SUFFICES Looking
  BY <1>2, PolledSuffices
<1>4. thread \in [Thread -> {Resting} \cup AtWork]
  BY DEF McpTypeInv, ThreadsOK
<1>5. CASE \/ SendRequest(c) \/ Serve(c) \/ Abandon(c) \/ Fault(c) \/ LoseReply(c)
           \/ ThreadCrash(c)
  <2>1. UNCHANGED polls /\ ~Is(c, "idle")
    BY <1>5 DEF SendRequest, Serve, Abandon, Fault, LoseReply, ThreadCrash, mcpRows, Is, Replied
  <2>2. CASE SendRequest(c) /\ Become(c, [thread[c] EXCEPT !.pc = "replied", !.reply = "rejected"])
    <3>1. ~Past(c)'
      BY <1>4, <2>1, <2>2, Working DEF Past, Become, AtWork, McpTypeInv
    <3>2. QED
      BY <1>4, <2>1, <2>2, <3>1 DEF Looking, Become, Past
  <2>3. \/ Rest(c) \/ (\E r, k : Answer(c, r, k)) \/ \E pc \in {"begun", "sent"} : GoOn(c, pc)
        \/ SendRequest(c) /\ Become(c, [thread[c] EXCEPT !.pc = "replied", !.reply = "rejected"])
    BY <1>5 DEF SendRequest, Serve, Abandon, Fault, LoseReply, ThreadCrash
  <2>4. QED
    BY <2>1, <2>2, <2>3, RestsLooking
<1>6. ASSUME NEW way, NEW cont, NEW job, NEW pc \in {"looked", "begun"},
             Become(c, [On(way, cont, job) EXCEPT !.pc = pc])
      PROVE  ~Past(c)' /\ \A d \in Thread \ {c} : thread'[d] = thread[d]
  BY <1>4, <1>6 DEF Become, On, Past
<1>7. CASE ToInvoke(c) \/ ToResume(c) \/ ToUpdate(c) \/ AskCancel(c)
  <2>1. PICK pc \in {"looked", "begun"} : \E way, cont : Become(c, [On(way, cont, 0) EXCEPT !.pc = pc])
    <3>1. \A way, cont : On(way, cont, 0) = [On(way, cont, 0) EXCEPT !.pc = "looked"]
      BY DEF On
    <3>2. CASE AskCancel(c)
      <4>1. Become(c, [On("cancel", 0, 0) EXCEPT !.pc = "begun"])
        BY <3>2 DEF AskCancel
      <4>2. QED
        BY <4>1 DEF Become
    <3>3. CASE ~AskCancel(c)
      <4>1. PICK way, cont : Become(c, On(way, cont, 0))
        BY <1>7, <3>3 DEF ToInvoke, ToResume, ToUpdate, Taking
      <4>2. Become(c, [On(way, cont, 0) EXCEPT !.pc = "looked"])
        BY <3>1, <4>1 DEF Become
      <4>3. QED
        BY <4>2 DEF Become
    <3>4. QED
      BY <3>2, <3>3
  <2>2. UNCHANGED polls
    BY <1>7 DEF ToInvoke, ToResume, ToUpdate, AskCancel, Taking, mcpRows
  <2>3. QED
    BY <1>6, <2>1, <2>2 DEF Looking, Past
<1>8. ASSUME NEW j \in Slot, ClaimPoll(c, j) PROVE Looking
  <2>1. ~Past(c)' /\ \A d \in Thread \ {c} : thread'[d] = thread[d]
    BY <1>6, <1>8 DEF ClaimPoll
  <2>2. polls' = [polls EXCEPT ![j] = c] /\ polls \in [Slot -> {"ready", "done"} \cup Thread]
    BY <1>8 DEF ClaimPoll, McpTypeInv, RowsOK
  <2>3. \A i \in Slot : polls'[i] = polls[i] \/ polls'[i] = c
    BY <2>2
  <2>4. QED
    BY <2>1, <2>3 DEF Looking, Past
<1>9. CASE Close(c)
  <2>1. Past(c) /\ ~Past(c)' /\ \A d \in Thread \ {c} : thread'[d] = thread[d]
    BY <1>4, <1>9 DEF Close, Rest, Become, Resting, Past, Is
  <2>2. polls \in [Slot -> {"ready", "done"} \cup Thread]
    BY DEF McpTypeInv, RowsOK
  <2>3. \A j \in Slot : polls'[j] = polls[j] \/ (polls[j] = c /\ thread[c].job = j)
    <3>1. 0 \notin Slot
      BY DEF Slot
    <3>2. CASE LeaseHeld(c) /\ thread[c].job # 0
      <4>1. PICK job : job = thread[c].job /\ polls[job] = c /\ polls' = [polls EXCEPT ![job] = "done"]
        BY <1>9, <3>2 DEF Close, LeaseHeld
      <4>2. QED
        BY <2>2, <4>1
    <3>3. CASE thread[c].job = 0
      <4>1. polls' = [polls EXCEPT ![0] = "done"]
        BY <1>9, <3>3 DEF Close, LeaseHeld
      <4>2. QED
        BY <2>2, <3>1, <4>1
    <3>4. CASE ~LeaseHeld(c)
      BY <1>9, <3>4 DEF Close
    <3>5. QED
      BY <3>2, <3>3, <3>4
  <2>4. QED
    BY <2>1, <2>3 DEF Looking, Past
<1>10. QED
  BY <1>5, <1>7, <1>8, <1>9

\* The transactions of a thread.
LEMMA PolledTransactions ==
  ASSUME McpTypeInv, McpTypeInv', PolledInv, NEW c \in Thread,
         \/ Start(c) \/ Complete(c) \/ Unknown(c) \/ RecordInputRequired(c) \/ RecordTask(c)
         \/ Observe(c) \/ BeginCompletion(c) \/ CompleteTask(c) \/ FinalizeTaskCancelled(c)
         \/ Finish(c) \/ UpdateAcknowledged(c) \/ CancelAcknowledged(c)
  PROVE  PolledInv'
<1>1. TypeOK /\ ~Is(c, "idle") /\ thread \in [Thread -> {Resting} \cup AtWork]
  BY DEF McpTypeInv, ThreadsOK, Start, Complete, Unknown, RecordInputRequired, RecordTask,
         Observe, BeginCompletion, CompleteTask, FinalizeTaskCancelled, Finish,
         UpdateAcknowledged, CancelAcknowledged, Replied, Is
<1>2. action'[call] # "waiting_external" \/ task' # "working" \/ acked' \/ ~Following'
        => PolledInv'
  BY DEF PolledInv, Awaited
<1>3. EnqueuePoll => PolledInv'
  BY PolledSuffices
<1>4. UNCHANGED <<vars, mcpRows>> /\ Looking => PolledInv'
  <2>1. UNCHANGED <<vars, mcpRows>> => (Awaited' => Awaited)
    BY DEF Awaited, Following, vars, mcpRows
  <2>2. QED
    BY <2>1, PolledSuffices
<1>5. UNCHANGED <<vars, mcpRows>> /\ Rest(c) => PolledInv'
  <2>1. UNCHANGED mcpRows /\ Rest(c) => Looking
    BY <1>1, RestsLooking DEF mcpRows
  <2>2. QED
    BY <1>4, <2>1
<1>6. Raise(c) => PolledInv'
  <2>1. ASSUME Raise(c), Answer(c, "rejected", 0) PROVE PolledInv'
    <3>1. UNCHANGED <<vars, mcpRows>> /\ UNCHANGED polls
      BY <2>1 DEF Raise, mcpRows
    <3>2. \E r, k : Answer(c, r, k)
      BY <2>1
    <3>3. Looking
      BY <1>1, <3>1, <3>2, RestsLooking
    <3>4. QED
      BY <1>4, <3>1, <3>3
  <2>2. QED
    BY <1>5, <2>1 DEF Raise
<1>7. \A ok, e : CompleteAction(call, ok, e) => action'[call] \in {"succeeded", "failed"}
  BY <1>1, McpMoves DEF CompleteAction
<1>8. CASE Start(c)
  <2>1. CASE EnsureRunning /\ UNCHANGED thread
    <3>1. run = "queued" /\ UNCHANGED <<action, task, acked, polls>>
      BY <1>8, <2>1 DEF EnsureRunning, actionVars, Start, mcpRows
    <3>2. Awaited' => Awaited
      BY <3>1 DEF Awaited, Following
    <3>3. Looking
      BY <2>1, <3>1 DEF Looking, Past
    <3>4. QED
      BY <3>2, <3>3, PolledSuffices
  <2>2. CASE BeginDispatch(call, 0)
    <3>1. action'[call] = "running"
      BY <1>1, <2>2, McpMoves DEF BeginDispatch
    <3>2. QED
      BY <1>2, <3>1
  <2>3. CASE Rest(c) /\ UNCHANGED vars
    BY <1>5, <1>8, <2>3 DEF Start
  <2>4. QED
    BY <1>8, <2>1, <2>2, <2>3 DEF Start
<1>9. CASE Complete(c)
  <2>1. CASE UNCHANGED vars /\ Rest(c)
    BY <1>5, <1>9, <2>1 DEF Complete
  <2>2. CASE CompleteAction(call, Reply(c) = "ok", 0)
    BY <1>2, <1>7, <2>2
  <2>3. QED
    BY <1>9, <2>1, <2>2 DEF Complete
<1>10. CASE Unknown(c)
  <2>1. MarkOutcomeUnknown(call) => action'[call] = "outcome_unknown"
    BY <1>1, McpMoves DEF MarkOutcomeUnknown
  <2>2. QED
    BY <1>2, <1>6, <1>10, <2>1 DEF Unknown
<1>11. CASE RecordInputRequired(c)
  <2>1. SetAction(call, "waiting_input") => action'[call] = "waiting_input"
    BY <1>1, McpMoves
  <2>2. QED
    BY <1>2, <1>6, <1>11, <2>1 DEF RecordInputRequired
<1>12. CASE RecordTask(c)
  <2>1. \/ EnqueuePoll \/ task' = "completed" \/ Raise(c)
        \/ UNCHANGED <<vars, mcpRows>> /\ Rest(c)
    BY <1>12 DEF RecordTask, Replied
  <2>2. QED
    BY <1>2, <1>3, <1>5, <1>6, <2>1
<1>13. CASE Observe(c)
  <2>1. CASE Rest(c) /\ UNCHANGED <<vars, mcpRows>>
    BY <1>5, <2>1
  <2>2. QED
    BY <1>2, <1>3, <1>13, <2>1 DEF Observe
<1>14. CASE BeginCompletion(c)
  <2>1. CASE Raise(c)
    BY <1>6, <2>1
  <2>2. CASE \E e : StartAttempt(call, e, attempts[call])
    BY <1>1, <1>2, <2>2, McpMoves
  <2>3. QED
    BY <1>14, <2>1, <2>2 DEF BeginCompletion
<1>15. CASE CompleteTask(c)
  <2>1. CASE UNCHANGED vars /\ Rest(c)
    BY <1>5, <1>15, <2>1 DEF CompleteTask
  <2>2. CASE CompleteAction(call, Reply(c) = "completed", epoch[call])
    BY <1>2, <1>7, <2>2
  <2>3. QED
    BY <1>15, <2>1, <2>2 DEF CompleteTask
<1>16. CASE FinalizeTaskCancelled(c)
  <2>1. CASE Rest(c) /\ UNCHANGED vars
    BY <1>5, <1>16, <2>1 DEF FinalizeTaskCancelled
  <2>2. CASE action[call] = "cancelled" /\ UNCHANGED vars
    BY <1>2, <2>2 DEF vars, actionVars
  <2>3. CASE SetAction(call, "cancelled")
    BY <1>1, <1>2, <2>3, McpMoves
  <2>4. QED
    BY <1>16, <2>1, <2>2, <2>3 DEF FinalizeTaskCancelled
<1>17. CASE Finish(c)
  <2>1. \A ok : FinishImplicit(ok) => ~Following'
    BY DEF FinishImplicit, EndRun, Move, Following
  <2>2. CASE FinishImplicit(Reply(c) \in {"ok", "completed"})
    BY <1>2, <2>1, <2>2
  <2>3. CASE UNCHANGED <<vars, polls>>
    <3>1. UNCHANGED <<vars, mcpRows>> /\ UNCHANGED polls
      BY <1>17, <2>3 DEF Finish, mcpRows
    <3>2. Past(c) /\ (Rest(c) \/ \E pc : GoOn(c, pc))
      BY <1>17 DEF Finish, Past, Is
    <3>3. Looking
      BY <1>1, <3>1, <3>2, RestsLooking
    <3>4. QED
      BY <1>4, <3>1, <3>3
  <2>4. QED
    BY <1>17, <2>2, <2>3 DEF Finish
<1>18. CASE UpdateAcknowledged(c)
  BY <1>3, <1>5, <1>18 DEF UpdateAcknowledged
<1>19. CASE CancelAcknowledged(c)
  BY <1>2, <1>19 DEF CancelAcknowledged
<1>20. QED
  BY <1>8, <1>9, <1>10, <1>11, <1>12, <1>13, <1>14, <1>15, <1>16, <1>17, <1>18, <1>19

\* Every step keeps a look for a task that is waited for.
LEMMA PolledStep ==
  ASSUME McpTypeInv, McpTypeInv', PolledInv, [MNext]_mcpVars PROVE PolledInv'
<1>1. TypeOK /\ polls \in [Slot -> {"ready", "done"} \cup Thread]
  BY DEF McpTypeInv, RowsOK
<1>2. UNCHANGED <<action, run, task, acked>> => (Awaited' => Awaited)
  BY DEF Awaited, Following
<1>3. UNCHANGED <<thread, polls>> => Looking
  BY DEF Looking, Past
<1>4. action'[call] # "waiting_external" \/ ~Following' => PolledInv'
  BY DEF PolledInv, Awaited
<1>5. UNCHANGED <<action, run, task, acked>> /\ UNCHANGED <<thread, polls>> => PolledInv'
  BY <1>2, <1>3, PolledSuffices
<1>6. CASE UNCHANGED mcpVars
  BY <1>5, <1>6 DEF mcpVars, mcpRows, vars, actionVars
<1>7. ASSUME NEW k \in DOMAIN server, Progress(k) PROVE PolledInv'
  BY <1>5, <1>7 DEF Progress, mcpRows, vars, actionVars
<1>8. ASSUME NEW j \in Slot, Lapse(j) PROVE PolledInv'
  <2>1. UNCHANGED <<action, run, task, acked>> /\ UNCHANGED thread
    BY <1>8 DEF Lapse, vars, actionVars
  <2>2. \A i \in Slot : polls'[i] \in {polls[i], "ready"}
    BY <1>1, <1>8 DEF Lapse
  <2>3. Looking
    BY <2>1, <2>2 DEF Looking, Past
  <2>4. QED
    BY <1>2, <2>1, <2>3, PolledSuffices
<1>9. CASE User
  <2>1. CASE AdmitAction(call)
    BY <1>1, <1>4, <2>1, CallAssumption DEF AdmitAction, TypeOK
  <2>2. CASE RespondAnswer(call)
    BY <1>1, <1>4, <2>2, CallAssumption, McpMoves DEF RespondAnswer
  <2>3. CASE RespondExpired(call) \/ TimePasses(call)
    <3>1. UNCHANGED <<action, run, task, acked>> /\ UNCHANGED <<thread, polls>>
      BY <1>9, <2>3 DEF User, RespondExpired, TimePasses, mcpRows, actionVars
    <3>2. QED
      BY <1>5, <3>1
  <2>4. QED
    BY <1>9, <2>1, <2>2, <2>3 DEF User
<1>10. CASE Interfere
  <2>1. CASE RequestCancellation \/ BlockRun \/ FailRun \/ TerminateRun
    BY <1>4, <2>1
       DEF RequestCancellation, BlockRun, FailRun, EndRun, TerminateRun, Move, Following
  <2>2. ASSUME NEW fact, Reconcile(call, version[call], fact) PROVE PolledInv'
    <3>1. ResolvedStatus(fact) # "waiting_external"
      BY DEF ResolvedStatus
    <3>2. action'[call] = ResolvedStatus(fact)
      BY <1>1, <2>2, McpMoves DEF Reconcile
    <3>3. QED
      BY <1>4, <3>1, <3>2
  <2>3. QED
    BY <1>10, <2>1, <2>2 DEF Interfere
<1>11. CASE Finalize
  BY <1>4, <1>11 DEF Finalize, FinalizeCancellation, Move, Following
<1>12. ASSUME NEW c \in Thread,
              \/ ThreadStep(c) \/ ToInvoke(c) \/ ToResume(c) \/ ToUpdate(c) \/ AskCancel(c)
              \/ Fault(c) \/ LoseReply(c) \/ ThreadCrash(c) \/ \E j \in Slot : ClaimPoll(c, j)
       PROVE  PolledInv'
  BY <1>12, PolledAround, PolledTransactions DEF ThreadStep
<1>13. QED
  BY <1>6, <1>7, <1>8, <1>9, <1>10, <1>11, <1>12 DEF MNext

\* A task that is known to be working, and for which the action waits, has a poll
\* job that somebody may claim or holds: no observation, acknowledgement, crash or
\* lapsed lease leaves it without a next look.
THEOREM WorkingTaskKeepsItsPoll == MSpec => []WorkingTaskIsPolled
<1>1. MInit => PolledInv
  BY DEF MInit, PolledInv, Awaited
<1>2. (McpTypeInv /\ PolledInv) /\ [MNext]_mcpVars => (McpTypeInv /\ PolledInv)'
  BY McpTypeStep, PolledStep
<1>3. McpTypeInv /\ PolledInv => WorkingTaskIsPolled
  BY SlotsAssumption DEF WorkingTaskIsPolled, PolledInv, Awaited, WillLook
<1>4. QED
  BY <1>1, <1>2, <1>3, McpInitType, PTL DEF MSpec
-----------------------------------------------------------------------------
(* A call of an MCP tool: a succeeded action has a call that completed *)

\* The steps of one thread.
MovesOf(c) ==
  \/ ThreadStep(c) \/ ToInvoke(c) \/ ToResume(c) \/ ToUpdate(c) \/ AskCancel(c)
  \/ Fault(c) \/ LoseReply(c) \/ ThreadCrash(c) \/ \E j \in Slot : ClaimPoll(c, j)

\* The steps of nobody's thread.
MovesOfNone ==
  \/ \E j \in Slot : Lapse(j)
  \/ \E k \in DOMAIN server : Progress(k)
  \/ User \/ Interfere \/ Finalize

\* A step is one of a thread, of nobody, or a stutter.
LEMMA McpNextMoves ==
  [MNext]_mcpVars => UNCHANGED mcpVars \/ MovesOfNone \/ \E c \in Thread : MovesOf(c)
BY DEF MNext, MovesOf, MovesOfNone

\* An idle thread only chooses a way or claims a poll job.
LEMMA IdleMoves ==
  ASSUME NEW c \in Thread, MovesOf(c), Is(c, "idle")
  PROVE  \/ ToInvoke(c) \/ ToResume(c) \/ ToUpdate(c) \/ AskCancel(c)
         \/ \E j \in Slot : ClaimPoll(c, j)
BY DEF MovesOf, ThreadStep, Start, SendRequest, Serve, Complete, Unknown, Abandon,
       RecordInputRequired, RecordTask, Observe, BeginCompletion, CompleteTask,
       FinalizeTaskCancelled, Finish, Close, UpdateAcknowledged, CancelAcknowledged,
       Fault, LoseReply, ThreadCrash, Replied, Is

\* A step of one thread moves no other.
LEMMA OneMoves ==
  ASSUME McpTypeInv, NEW c \in Thread, MovesOf(c)
  PROVE  \A d \in Thread \ {c} : thread'[d] = thread[d]
<1>1. thread \in [Thread -> {Resting} \cup AtWork]
  BY DEF McpTypeInv, ThreadsOK
<1>2. \A s : Become(c, s) => \A d \in Thread \ {c} : thread'[d] = thread[d]
  BY <1>1 DEF Become
<1>3. /\ Rest(c) => \A d \in Thread \ {c} : thread'[d] = thread[d]
      /\ \A pc : GoOn(c, pc) => \A d \in Thread \ {c} : thread'[d] = thread[d]
      /\ \A r, k : Answer(c, r, k) => \A d \in Thread \ {c} : thread'[d] = thread[d]
  BY <1>2 DEF Rest, GoOn, Answer
<1>4. Raise(c) => \A d \in Thread \ {c} : thread'[d] = thread[d]
  BY <1>3 DEF Raise
<1>5. UNCHANGED thread => \A d \in Thread \ {c} : thread'[d] = thread[d]
  OBVIOUS
<1>6. CASE Start(c) \/ SendRequest(c) \/ Serve(c) \/ Complete(c) \/ Unknown(c) \/ Abandon(c)
  BY <1>2, <1>3, <1>4, <1>5, <1>6 DEF Start, SendRequest, Serve, Complete, Unknown, Abandon
<1>7. CASE RecordInputRequired(c) \/ RecordTask(c) \/ BeginCompletion(c)
  BY <1>3, <1>4, <1>7 DEF RecordInputRequired, RecordTask, BeginCompletion
<1>8. CASE Observe(c)
  BY <1>3, <1>8 DEF Observe
<1>9. CASE \/ CompleteTask(c) \/ FinalizeTaskCancelled(c) \/ Finish(c) \/ Close(c)
           \/ UpdateAcknowledged(c) \/ CancelAcknowledged(c)
  BY <1>3, <1>9 DEF CompleteTask, FinalizeTaskCancelled, Finish, Close, UpdateAcknowledged,
                    CancelAcknowledged
<1>10. CASE \/ ToInvoke(c) \/ ToResume(c) \/ ToUpdate(c) \/ AskCancel(c)
            \/ Fault(c) \/ LoseReply(c) \/ ThreadCrash(c) \/ \E j \in Slot : ClaimPoll(c, j)
  BY <1>2, <1>3, <1>10 DEF ToInvoke, ToResume, ToUpdate, AskCancel, Fault, LoseReply,
                           ThreadCrash, ClaimPoll, Taking
<1>11. QED
  BY <1>6, <1>7, <1>8, <1>9, <1>10 DEF MovesOf, ThreadStep

\* A run of the tool that has ended stays as it is.
LEMMA EndedRunsStay ==
  ASSUME McpTypeInv, [MNext]_mcpVars
  PROVE  /\ Len(server) \in Nat /\ Len(server') \in Nat /\ Len(server) <= Len(server')
         /\ \A k \in 1..Len(server) : server[k] \in Ended => server'[k] = server[k]
<1>1. Len(server) \in Nat /\ server \in Seq(ServerRun)
  BY LenProperties DEF McpTypeInv, RowsOK
<1>2. ASSUME NEW c \in Thread, Is(c, "sent"), Understood(c), NEW o \in Results(c),
             ServerHandles(c, o)
      PROVE  /\ Len(server') \in Nat /\ Len(server) <= Len(server')
             /\ \A k \in 1..Len(server) : server[k] \in Ended => server'[k] = server[k]
  <2>1. server' \in Seq(ServerRun) /\ Len(server) <= Len(server')
        /\ \A k \in 1..Len(server) : server[k] \in Ended => server'[k] = server[k]
    BY <1>2, ServerMoves
  <2>2. QED
    BY <2>1, LenProperties
<1>3. CASE UNCHANGED server
  BY <1>1, <1>3
<1>4. ASSUME NEW c \in Thread, Serve(c) \/ LoseReply(c)
      PROVE  \/ UNCHANGED server
             \/ Is(c, "sent") /\ Understood(c) /\ \E o \in Results(c) : ServerHandles(c, o)
  BY <1>4 DEF Serve, LoseReply, serverVars
<1>5. ASSUME NEW k \in DOMAIN server, Progress(k)
      PROVE  /\ Len(server') \in Nat /\ Len(server) <= Len(server')
             /\ \A i \in 1..Len(server) : server[i] \in Ended => server'[i] = server[i]
  <2>1. PICK s \in {"completed", "failed", "input_required"} : server' = [server EXCEPT ![k] = s]
    BY <1>5 DEF Progress
  <2>2. s \in ServerRun /\ k \in 1..Len(server)
    BY <1>1, LenProperties DEF ServerRun, Ended
  <2>3. Len(server') = Len(server)
        /\ \A i \in 1..Len(server) : server'[i] = IF i = k THEN s ELSE server[i]
    BY <1>1, <2>1, <2>2, ExceptSeq
  <2>4. QED
    BY <1>1, <1>5, <2>3 DEF Progress, Ended
<1>6. ASSUME NEW c \in Thread, MovesOf(c), ~(Serve(c) \/ LoseReply(c)) PROVE UNCHANGED server
  <2>1. CASE ThreadStep(c)
    BY <1>6, <2>1
       DEF ThreadStep, Start, SendRequest, Complete, Unknown, Abandon, RecordInputRequired,
           RecordTask, Observe, BeginCompletion, CompleteTask, FinalizeTaskCancelled, Finish,
           Close, UpdateAcknowledged, CancelAcknowledged, Still, serverVars
  <2>2. CASE ~ThreadStep(c)
    BY <1>6, <2>2 DEF MovesOf, ToInvoke, ToResume, ToUpdate, AskCancel, Fault, ThreadCrash,
                      ClaimPoll, Taking, serverVars
  <2>3. QED
    BY <2>1, <2>2
<1>7. CASE UNCHANGED mcpVars
  BY <1>1, <1>7 DEF mcpVars, serverVars
<1>8. CASE MovesOfNone
  BY <1>3, <1>5, <1>8 DEF MovesOfNone, Lapse, User, Interfere, Finalize, serverVars
<1>9. ASSUME NEW c \in Thread, MovesOf(c)
      PROVE  /\ Len(server') \in Nat /\ Len(server) <= Len(server')
             /\ \A k \in 1..Len(server) : server[k] \in Ended => server'[k] = server[k]
  BY <1>1, <1>2, <1>4, <1>6, <1>9
<1>10. QED
  BY <1>1, <1>7, <1>8, <1>9, McpNextMoves
ToolCompleted == \E k \in 1..Len(server) : server[k] = "completed"
Good(c) == ~Is(c, "idle") /\ Reply(c) \in {"ok", "completed"}
AppliedInv ==
  /\ action[call] = "succeeded" => ToolCompleted
  /\ \A c \in Thread : Good(c) => ToolCompleted

\* A call that has completed stays completed.
LEMMA ToolCompletedStays ==
  ASSUME McpTypeInv, [MNext]_mcpVars, ToolCompleted PROVE ToolCompleted'
<1>1. PICK k \in 1..Len(server) : server[k] = "completed"
  BY DEF ToolCompleted
<1>2. Len(server) \in Nat /\ Len(server') \in Nat /\ Len(server) <= Len(server')
      /\ server'[k] = server[k]
  BY <1>1, EndedRunsStay DEF Ended
<1>3. k \in 1..Len(server')
  BY <1>2
<1>4. QED
  BY <1>1, <1>2, <1>3 DEF ToolCompleted

\* The action succeeds by a good reply, or by evidence of a completed call.
LEMMA SucceedsBy ==
  ASSUME McpTypeInv, [MNext]_mcpVars, action'[call] = "succeeded"
  PROVE  \/ action[call] = "succeeded"
         \/ \E c \in Thread : Good(c)
         \/ ToolCompleted
<1>1. TypeOK
  BY DEF McpTypeInv
<1>2. \A s : SetAction(call, s) => s = "succeeded"
  BY <1>1, McpMoves
<1>3. \A ok, e : CompleteAction(call, ok, e) => ok
  BY <1>2 DEF CompleteAction
<1>4. \A e, earlier : ~StartAttempt(call, e, earlier)
  BY <1>1, McpMoves
<1>5. UNCHANGED vars => UNCHANGED action
  BY DEF vars
<1>7. ASSUME NEW c \in Thread, MovesOf(c), ~UNCHANGED action PROVE Good(c)
  <2>1. ~Apart
    BY <1>5, <1>7, ApartFromKernel
  <2>2. ThreadStep(c)
    BY <1>7, <2>1 DEF MovesOf, Apart
  <2>3. ~Raise(c)
    BY <1>5, <1>7 DEF Raise
  <2>4. CASE Complete(c) \/ CompleteTask(c)
    <3>1. Reply(c) \in {"ok", "completed"} /\ ~Is(c, "idle")
      BY <1>3, <1>5, <1>7, <2>4 DEF Complete, CompleteTask, Replied, Is
    <3>2. QED
      BY <3>1 DEF Good
  <2>5. CASE Start(c) \/ BeginCompletion(c) \/ Finish(c)
    BY <1>4, <1>5, <1>7, <2>3, <2>5
       DEF Start, EnsureRunning, BeginDispatch, BeginCompletion, Finish, FinishImplicit, EndRun,
           actionVars
  <2>6. CASE Unknown(c) \/ RecordInputRequired(c) \/ RecordTask(c) \/ UpdateAcknowledged(c)
    BY <1>2, <1>5, <1>7, <2>3, <2>6
       DEF Unknown, MarkOutcomeUnknown, RecordInputRequired, RecordTask, UpdateAcknowledged
  <2>7. CASE Observe(c) \/ FinalizeTaskCancelled(c) \/ CancelAcknowledged(c)
    BY <1>2, <1>5, <1>7, <2>7 DEF Observe, FinalizeTaskCancelled, CancelAcknowledged
  <2>8. QED
    BY <2>1, <2>2, <2>4, <2>5, <2>6, <2>7 DEF ThreadStep, Apart
<1>8. CASE MovesOfNone
  <2>1. CASE \/ \E j \in Slot : Lapse(j)
             \/ \E k \in DOMAIN server : Progress(k)
    BY <1>5, <2>1 DEF Lapse, Progress
  <2>2. CASE User
    BY <1>1, <1>2, <2>2, CallAssumption
       DEF User, AdmitAction, RespondAnswer, RespondExpired, TimePasses, actionVars, TypeOK
  <2>3. \A act : act = SettleUndispatched => act[call] \in {action[call], "cancelled"}
    BY CallAssumption DEF SettleUndispatched
  <2>4. CASE Finalize
    BY <2>4 DEF Finalize, FinalizeCancellation, actionVars
  <2>5. CASE Interfere
    <3>1. CASE RequestCancellation \/ TerminateRun \/ BlockRun \/ FailRun
      BY <2>3, <3>1
         DEF RequestCancellation, TerminateRun, BlockRun, FailRun, EndRun, actionVars
    <3>2. ASSUME NEW fact \in ServerEvidence, Reconcile(call, version[call], fact)
          PROVE  ToolCompleted
      <4>1. fact = "confirmed_applied"
        BY <1>2, <3>2 DEF Reconcile, ResolvedStatus, ServerEvidence
      <4>2. DOMAIN server = 1..Len(server)
        BY LenProperties DEF McpTypeInv, RowsOK
      <4>3. QED
        BY <4>1, <4>2 DEF ServerEvidence, ToolCompleted
    <3>3. QED
      BY <2>5, <3>1, <3>2 DEF Interfere
  <2>6. QED
    BY <1>8, <2>1, <2>2, <2>4, <2>5 DEF MovesOfNone
<1>9. UNCHANGED mcpVars => UNCHANGED action
  BY DEF mcpVars, vars
<1>10. QED
  BY <1>7, <1>8, <1>9, McpNextMoves

\* A thread has a good reply because it had one, or because the server has just
\* given it.
LEMMA GoodBy ==
  ASSUME McpTypeInv, McpTypeInv', NEW c \in Thread, MovesOf(c), Good(c)'
  PROVE  Good(c) \/ ToolCompleted'
<1>1. thread \in [Thread -> {Resting} \cup AtWork]
  BY DEF McpTypeInv, ThreadsOK
<1>2. ~Rest(c)
  BY <1>1 DEF Rest, Become, Resting, Good, Is
<1>3. \A pc : ~Is(c, "idle") /\ GoOn(c, pc) => Good(c)
  <2>1. ASSUME NEW pc, ~Is(c, "idle"), GoOn(c, pc) PROVE Good(c)
    <3>1. thread'[c].reply = thread[c].reply
      BY <1>1, <2>1, Working DEF GoOn, Become, AtWork, McpTypeInv
    <3>2. QED
      BY <2>1, <3>1 DEF Good, Reply
  <2>2. QED
    BY <2>1
<1>4. \A r, k : ~Is(c, "idle") /\ Answer(c, r, k) => r \in {"ok", "completed"}
  <2>1. ASSUME NEW r, NEW k, ~Is(c, "idle"), Answer(c, r, k) PROVE r \in {"ok", "completed"}
    <3>1. thread'[c].reply = r
      BY <1>1, <2>1, Working DEF Answer, Become, AtWork, McpTypeInv
    <3>2. QED
      BY <3>1 DEF Good, Reply
  <2>2. QED
    BY <2>1
<1>5. Raise(c) => Is(c, "idle")
  BY <1>2, <1>4 DEF Raise
<1>6. UNCHANGED thread => Good(c)
  BY DEF Good, Is, Reply
<1>7. CASE Serve(c)
  <2>1. Is(c, "sent") /\ Understood(c) /\ ~Is(c, "idle")
    BY <1>7 DEF Serve, Is
  <2>2. PICK o \in Results(c) : ServerHandles(c, o) /\ \E k : Answer(c, o.reply, k)
    BY <1>7 DEF Serve
  <2>3. o.reply \in {"ok", "completed"}
    BY <1>4, <2>1, <2>2
  <2> DEFINE k == IF Way(c) = "invoke" THEN Len(server') ELSE RunOf(c)
  <2>4. /\ k \in 1..Len(server')
        /\ \/ o.reply \in NoReply
           \/ o.reply \in {"ok", "completed"} => server'[k] = "completed"
           \/ o.reply = "ack"
           \/ o.reply \in ServerRun /\ server'[k] = o.reply
    BY <2>1, <2>2, ServerMoves
  <2> HIDE DEF k
  <2>5. server'[k] = "completed"
    BY <2>3, <2>4 DEF NoReply, ServerRun, Ended
  <2>6. QED
    BY <2>4, <2>5 DEF ToolCompleted
<1>8. CASE LoseReply(c) \/ Fault(c) \/ ThreadCrash(c) \/ Abandon(c) \/ Close(c)
  <2>1. ~Is(c, "idle")
    BY <1>8 DEF LoseReply, Fault, ThreadCrash, Abandon, Close, Is, Replied
  <2>2. QED
    BY <1>2, <1>4, <1>8, <2>1 DEF LoseReply, Fault, ThreadCrash, Abandon, Close
<1>9. CASE SendRequest(c)
  <2>1. ~Is(c, "idle")
    BY <1>9 DEF SendRequest, Is
  <2>2. ~Become(c, [thread[c] EXCEPT !.pc = "replied", !.reply = "rejected"])
    <3>1. ASSUME Become(c, [thread[c] EXCEPT !.pc = "replied", !.reply = "rejected"]) PROVE FALSE
      <4>1. thread'[c].reply = "rejected"
        BY <1>1, <2>1, <3>1, Working DEF Become, AtWork, McpTypeInv
      <4>2. QED
        BY <4>1 DEF Good, Reply
    <3>2. QED
      BY <3>1
  <2>3. QED
    BY <1>2, <1>3, <1>9, <2>1, <2>2 DEF SendRequest
<1>10. \A way, cont, job, pc : ~Become(c, [On(way, cont, job) EXCEPT !.pc = pc])
  BY <1>1 DEF Become, On, Good, Reply
<1>11. CASE AskCancel(c) \/ \E j \in Slot : ClaimPoll(c, j)
  BY <1>10, <1>11 DEF AskCancel, ClaimPoll
<1>12. CASE ToInvoke(c) \/ ToResume(c) \/ ToUpdate(c)
  <2>1. PICK way, cont : Become(c, On(way, cont, 0))
    BY <1>12 DEF ToInvoke, ToResume, ToUpdate, Taking
  <2>2. QED
    BY <1>1, <2>1 DEF Become, On, Good, Reply
<1>13. CASE Complete(c)
  <2>1. ~Is(c, "idle")
    BY <1>13 DEF Complete, Replied, Is
  <2>2. PICK state : Become(c, state)
                     /\ state = [thread[c] EXCEPT !.pc = "finish",
                                                  !.reply = IF @ = "ok" THEN "ok" ELSE "bad"]
    BY <1>2, <1>13 DEF Complete
  <2>3. thread'[c].reply = IF Reply(c) = "ok" THEN "ok" ELSE "bad"
    BY <1>1, <2>1, <2>2, Working DEF Become, AtWork, McpTypeInv, Reply
  <2>4. QED
    BY <2>1, <2>3 DEF Good, Reply
<1>14. CASE Start(c)
  BY <1>2, <1>3, <1>6, <1>14 DEF Start, Is
<1>15. CASE \/ Unknown(c) \/ RecordInputRequired(c) \/ RecordTask(c) \/ BeginCompletion(c)
            \/ CompleteTask(c) \/ FinalizeTaskCancelled(c) \/ Finish(c)
  <2>1. ~Is(c, "idle")
    BY <1>15 DEF Unknown, RecordInputRequired, RecordTask, BeginCompletion, CompleteTask,
                 FinalizeTaskCancelled, Finish, Replied, Is
  <2>2. QED
    BY <1>2, <1>3, <1>5, <1>15, <2>1
       DEF Unknown, RecordInputRequired, RecordTask, BeginCompletion, CompleteTask,
           FinalizeTaskCancelled, Finish
<1>16. CASE Observe(c) \/ UpdateAcknowledged(c) \/ CancelAcknowledged(c)
  <2>1. ~Is(c, "idle")
    BY <1>16 DEF Observe, UpdateAcknowledged, CancelAcknowledged, Replied, Is
  <2>2. QED
    BY <1>2, <1>3, <1>16, <2>1 DEF Observe, UpdateAcknowledged, CancelAcknowledged
<1>17. QED
  BY <1>7, <1>8, <1>9, <1>11, <1>12, <1>13, <1>14, <1>15, <1>16 DEF MovesOf, ThreadStep

\* A good reply, and a succeeded action, have a call that completed.
LEMMA GoodStep == McpTypeInv /\ McpTypeInv' /\ AppliedInv /\ [MNext]_mcpVars => AppliedInv'
<1> SUFFICES ASSUME McpTypeInv, McpTypeInv', AppliedInv, [MNext]_mcpVars PROVE AppliedInv'
  OBVIOUS
<1>1. action'[call] = "succeeded" => ToolCompleted'
  BY SucceedsBy, ToolCompletedStays DEF AppliedInv
<1>2. ASSUME NEW c \in Thread, Good(c)' PROVE ToolCompleted'
  <2>1. CASE UNCHANGED thread
    BY <1>2, <2>1, ToolCompletedStays DEF AppliedInv, Good, Is, Reply
  <2>2. ASSUME NEW d \in Thread, MovesOf(d) PROVE ToolCompleted'
    <3>1. CASE d = c
      BY <1>2, <2>2, <3>1, GoodBy, ToolCompletedStays DEF AppliedInv
    <3>2. CASE d # c
      <4>1. thread'[c] = thread[c]
        BY <2>2, <3>2, OneMoves
      <4>2. Good(c)
        BY <1>2, <4>1 DEF Good, Is, Reply
      <4>3. QED
        BY <4>2, ToolCompletedStays DEF AppliedInv
    <3>3. QED
      BY <3>1, <3>2
  <2>3. MovesOfNone \/ UNCHANGED mcpVars => UNCHANGED thread
    BY DEF MovesOfNone, Lapse, Progress, User, Interfere, Finalize, mcpVars
  <2>4. QED
    BY <2>1, <2>2, <2>3, McpNextMoves
<1>3. \A c \in Thread : Good(c)' => ToolCompleted'
  BY <1>2
<1>4. AppliedInv'
  BY <1>1, <1>3 DEF AppliedInv
<1>5. QED
  BY <1>4
-----------------------------------------------------------------------------
(* A call of an MCP tool: one call does not fail although it completed *)

\* The executions of which CallOutcomeIsTrue speaks.
Single == Len(server) <= 1 /\ disturbed <= IF task = "none" THEN 1 ELSE 0

\* A thread that has the running attempt of the action: it is on its way with a
\* request, or commits the end of a task.
Owner(c) ==
  \/ thread[c].pc \in {"begun", "sent", "replied"} /\ Way(c) \in {"invoke", "resume", "update"}
  \/ Is(c, "completing")
Settling(c) == Owner(c) \/ Is(c, "ended")
NoLook == \A j \in Slot : ~WillLook(j)

\* One thread or one poll job has the action.
TurnsInv ==
  /\ \A c \in Thread : Owner(c) => Open
  /\ \A c \in Thread : Is(c, "ended") => action[call] = "waiting_external"
  /\ \A j \in Slot : WillLook(j) => action[call] = "waiting_external"
  /\ \A c, d \in Thread : Settling(c) /\ Settling(d) => c = d
  /\ \A i, j \in Slot : WillLook(i) /\ WillLook(j) => i = j
  /\ \A c \in Thread : Is(c, "ended") => NoLook
  /\ \A c \in Thread : Is(c, "completing") /\ thread[c].job # 0 => epoch[call] = 1
LeasesInv  == \A c \in Thread : ~Is(c, "idle") => Way(c) # "cancel" /\ LeaseHeld(c)
PendingInv == request[call] = "pending" => action[call] \in {"waiting_input", "cancelled"}

\* Before there is a task, the action that may be dispatched, or has been with
\* nothing done, has calls that have only asked; and a lost reply is not an error.
OnlyAsked == \A k \in 1..Len(server) : server[k] = "asked"
FreshAction ==
  /\ action[call] \in Undispatched \cup {"none", "cancelled"} => OnlyAsked
  /\ action[call] = "failed" => \A k \in 1..Len(server) : server[k] \in {"asked", "failed"}
  /\ action[call] # "waiting_external"
  /\ action[call] = "outcome_unknown" => disturbed = 1
FreshThread(c) ==
  /\ thread[c].pc \in {"begun", "sent"} => OnlyAsked /\ (disturbed = 0 => run = "running")
  /\ Is(c, "replied") =>
       /\ Reply(c) \in {"asked", "fault", "rejected"} => OnlyAsked
       /\ Reply(c) \in {"lost", "fault"} => disturbed = 1
       /\ Reply(c) = "bad" => server[thread[c].of] = "failed"
       /\ disturbed = 0 \/ Reply(c) = "lost" => run = "running"
  /\ Is(c, "finish") => action[call] \in {"succeeded", "failed"}
FreshInv == task = "none" => FreshAction /\ \A c \in Thread : FreshThread(c)

\* Once there is a task, no reply of the call reaches the action any more: what
\* fails it is what the server says of the task.
FollowedThread(c) ==
  /\ Is(c, "replied") =>
       /\ Way(c) # "invoke"
       /\ Way(c) = "resume" => Reply(c) \in NoReply
       /\ Way(c) = "poll" /\ Reply(c) = "failed" => server[handle] = "failed"
  /\ thread[c].pc \in {"ended", "completing"} /\ Reply(c) = "failed"
       => server[handle] = "failed"
  /\ Is(c, "completing") => Reply(c) \in {"completed", "failed"}
FollowedInv ==
  task # "none" =>
    /\ action[call] = "failed" => server[handle] = "failed"
    /\ \A c \in Thread : FollowedThread(c)

SingleInv == Single => TurnsInv /\ LeasesInv /\ PendingInv /\ FreshInv /\ FollowedInv

\* What a thread is after it has moved.
LEMMA AfterMove ==
  ASSUME McpTypeInv, NEW c \in Thread
  PROVE  /\ Rest(c) => Is(c, "idle")'
         /\ \A pc : ~Is(c, "idle") /\ GoOn(c, pc)
              => /\ thread'[c].pc = pc /\ thread'[c].way = Way(c)
                 /\ thread'[c].job = thread[c].job /\ thread'[c].reply = Reply(c)
                 /\ thread'[c].of = thread[c].of
         /\ \A r, k : ~Is(c, "idle") /\ Answer(c, r, k)
              => /\ thread'[c].pc = "replied" /\ thread'[c].way = Way(c)
                 /\ thread'[c].job = thread[c].job /\ thread'[c].reply = r
                 /\ thread'[c].of = k
<1>1. thread \in [Thread -> {Resting} \cup AtWork]
  BY DEF McpTypeInv, ThreadsOK
<1>2. Rest(c) => Is(c, "idle")'
  BY <1>1 DEF Rest, Become, Resting, Is
<1>3. ~Is(c, "idle") => thread[c] \in AtWork
  BY Working DEF McpTypeInv
<1>4. ASSUME NEW pc, ~Is(c, "idle"), GoOn(c, pc)
      PROVE  /\ thread'[c].pc = pc /\ thread'[c].way = Way(c)
             /\ thread'[c].job = thread[c].job /\ thread'[c].reply = Reply(c)
             /\ thread'[c].of = thread[c].of
  BY <1>1, <1>3, <1>4 DEF GoOn, Become, AtWork, Way, Reply
<1>5. ASSUME NEW r, NEW k, ~Is(c, "idle"), Answer(c, r, k)
      PROVE  /\ thread'[c].pc = "replied" /\ thread'[c].way = Way(c)
             /\ thread'[c].job = thread[c].job /\ thread'[c].reply = r
             /\ thread'[c].of = k
  BY <1>1, <1>3, <1>5 DEF Answer, Become, AtWork, Way, Reply
<1>6. QED
  BY <1>2, <1>4, <1>5

\* A disturbance is not undone, and a task stays.
LEMMA DisturbancesStay ==
  ASSUME McpTypeInv, [MNext]_mcpVars
  PROVE  /\ disturbed \in Nat /\ (UNCHANGED disturbed \/ disturbed' = disturbed + 1)
         /\ task # "none" => task' # "none" /\ handle' = handle
<1>1. disturbed \in Nat
  BY SlotsAssumption DEF McpTypeInv, RowsOK
<1>2. ASSUME NEW c \in Thread, ThreadStep(c)
      PROVE  UNCHANGED disturbed /\ (task # "none" => task' # "none" /\ handle' = handle)
  <2>1. CASE Start(c) \/ SendRequest(c) \/ Serve(c) \/ Complete(c) \/ Unknown(c) \/ Abandon(c)
             \/ RecordInputRequired(c)
    BY <2>1 DEF Start, SendRequest, Serve, Complete, Unknown, Abandon, RecordInputRequired,
                Still, mcpRows, Raise
  <2>2. CASE RecordTask(c)
    BY <2>2 DEF RecordTask, Still, mcpRows, Raise
  <2>3. CASE Observe(c)
    <3>1. Reply(c) # "none"
      BY <2>3 DEF Observe, Replied, TaskStatus
    <3>2. QED
      BY <2>3, <3>1 DEF Observe, Still, mcpRows
  <2>4. CASE \/ BeginCompletion(c) \/ CompleteTask(c) \/ FinalizeTaskCancelled(c) \/ Finish(c)
             \/ Close(c) \/ UpdateAcknowledged(c) \/ CancelAcknowledged(c)
    BY <2>4 DEF BeginCompletion, CompleteTask, FinalizeTaskCancelled, Finish, Close,
                UpdateAcknowledged, CancelAcknowledged, Still, mcpRows, Raise
  <2>5. QED
    BY <1>2, <2>1, <2>2, <2>3, <2>4 DEF ThreadStep
<1>3. ASSUME NEW c \in Thread, MovesOf(c), ~ThreadStep(c)
      PROVE  /\ UNCHANGED disturbed \/ disturbed' = disturbed + 1
             /\ UNCHANGED <<task, handle>>
  BY <1>3 DEF MovesOf, ToInvoke, ToResume, ToUpdate, AskCancel, Fault, LoseReply, ThreadCrash,
              ClaimPoll, Taking, Disturb, mcpRows
<1>4. ASSUME MovesOfNone
      PROVE  /\ UNCHANGED disturbed \/ disturbed' = disturbed + 1
             /\ UNCHANGED <<task, handle>>
  BY <1>4 DEF MovesOfNone, Lapse, Progress, User, Interfere, Finalize, Disturb, mcpRows
<1>5. QED
  BY <1>1, <1>2, <1>3, <1>4, McpNextMoves DEF mcpVars, mcpRows

\* An execution with one call had one call before, and no disturbance since its
\* task was opened.
LEMMA SingleBefore ==
  ASSUME McpTypeInv, [MNext]_mcpVars, Single'
  PROVE  /\ Single /\ (task # "none" => disturbed = 0)
         /\ Disturb => task' = "none" /\ disturbed = 0 /\ disturbed' = 1
<1>1. /\ disturbed \in Nat /\ (UNCHANGED disturbed \/ disturbed' = disturbed + 1)
      /\ task # "none" => task' # "none"
  BY DisturbancesStay
<1>2. Len(server) \in Nat /\ Len(server') \in Nat /\ Len(server) <= Len(server')
  BY EndedRunsStay
<1>3. Disturb => disturbed' = disturbed + 1
  BY DEF Disturb
<1>4. QED
  BY <1>1, <1>2, <1>3 DEF Single

\* A thread that goes on keeps its way and its job.
LEMMA KeepsItsWay ==
  ASSUME McpTypeInv, NEW c \in Thread, MovesOf(c), ~Is(c, "idle")
  PROVE  Is(c, "idle")' \/ (thread'[c].way = Way(c) /\ thread'[c].job = thread[c].job)
<1> DEFINE Kept == Is(c, "idle")' \/ (thread'[c].way = Way(c) /\ thread'[c].job = thread[c].job)
<1>1. thread \in [Thread -> {Resting} \cup AtWork] /\ thread[c] \in AtWork
  BY Working DEF McpTypeInv, ThreadsOK
<1>2. /\ Rest(c) => Kept
      /\ \A pc : GoOn(c, pc) => Kept
      /\ \A r, k : Answer(c, r, k) => Kept
  BY AfterMove
<1>3. UNCHANGED thread => Kept
  BY DEF Way
<1>4. Raise(c) => Kept
  BY <1>2 DEF Raise
<1>5. Become(c, [thread[c] EXCEPT !.pc = "replied", !.reply = "rejected"]) => Kept
  BY <1>1 DEF Become, AtWork, Way
<1>6. Complete(c) => Kept
  <2>1. \A r : Become(c, [thread[c] EXCEPT !.pc = "finish", !.reply = r]) => Kept
    BY <1>1 DEF Become, AtWork, Way
  <2>2. CASE Complete(c) /\ ~Rest(c)
    <3>1. PICK r : r = IF thread[c].reply = "ok" THEN "ok" ELSE "bad"
      OBVIOUS
    <3>2. Become(c, [thread[c] EXCEPT !.pc = "finish", !.reply = r])
      BY <2>2, <3>1 DEF Complete
    <3>3. QED
      BY <2>1, <3>2
  <2>3. QED
    BY <1>2, <2>2
<1> SUFFICES Kept
  OBVIOUS
<1> HIDE DEF Kept
<1>7. CASE Start(c) \/ SendRequest(c) \/ Serve(c) \/ Unknown(c) \/ Abandon(c)
  BY <1>2, <1>3, <1>4, <1>5, <1>7 DEF Start, SendRequest, Serve, Unknown, Abandon
<1>8. CASE RecordInputRequired(c) \/ RecordTask(c) \/ BeginCompletion(c)
  BY <1>2, <1>4, <1>8 DEF RecordInputRequired, RecordTask, BeginCompletion
<1>9. CASE Observe(c)
  BY <1>2, <1>9 DEF Observe
<1>10. CASE \/ CompleteTask(c) \/ FinalizeTaskCancelled(c) \/ Finish(c) \/ Close(c)
            \/ UpdateAcknowledged(c) \/ CancelAcknowledged(c)
  BY <1>2, <1>10 DEF CompleteTask, FinalizeTaskCancelled, Finish, Close, UpdateAcknowledged,
                     CancelAcknowledged
<1>11. CASE Fault(c) \/ LoseReply(c) \/ ThreadCrash(c)
  BY <1>2, <1>11 DEF Fault, LoseReply, ThreadCrash
<1>12. ~(ToInvoke(c) \/ ToResume(c) \/ ToUpdate(c) \/ AskCancel(c) \/ \E j \in Slot : ClaimPoll(c, j))
  BY DEF ToInvoke, ToResume, ToUpdate, AskCancel, ClaimPoll, Taking
<1>13. QED
  BY <1>6, <1>7, <1>8, <1>9, <1>10, <1>11, <1>12 DEF MovesOf, ThreadStep

\* What a thread becomes that was idle: it has no job, or has claimed it.
LEMMA TakesItsWay ==
  ASSUME McpTypeInv, NEW c \in Thread, MovesOf(c), Is(c, "idle"), ~AskCancel(c)
  PROVE  \/ /\ Is(c, "looked")' /\ thread'[c].way \in {"invoke", "resume", "update"}
            /\ thread'[c].job = 0 /\ action[call] = "ready" /\ UNCHANGED polls
         \/ /\ Is(c, "begun")' /\ thread'[c].way = "poll"
            /\ \E j \in Slot : ClaimPoll(c, j) /\ thread'[c].job = j
<1>1. thread \in [Thread -> {Resting} \cup AtWork]
  BY DEF McpTypeInv, ThreadsOK
<1>2. \A way, cont, job : Become(c, On(way, cont, job))
        => Is(c, "looked")' /\ thread'[c].way = way /\ thread'[c].job = job
  BY <1>1 DEF Become, On, Is
<1>3. CASE ToInvoke(c) \/ ToResume(c) \/ ToUpdate(c)
  BY <1>2, <1>3 DEF ToInvoke, ToResume, ToUpdate, Taking, mcpRows
<1>4. ASSUME NEW j \in Slot, ClaimPoll(c, j)
      PROVE  Is(c, "begun")' /\ thread'[c].way = "poll" /\ thread'[c].job = j
  BY <1>1, <1>4 DEF ClaimPoll, Become, On, Is
<1>5. QED
  BY <1>3, <1>4, IdleMoves DEF ClaimPoll

\* What a step of a thread does to the poll jobs.
LEMMA PollMoves ==
  ASSUME McpTypeInv, NEW c \in Thread, MovesOf(c)
  PROVE  \/ UNCHANGED polls
         \/ /\ RecordTask(c) \/ Observe(c) \/ UpdateAcknowledged(c)
            /\ EnqueuePoll
         \/ Finish(c) /\ RetirePolls
         \/ Close(c) /\ LeaseHeld(c) /\ polls' = [polls EXCEPT ![thread[c].job] = "done"]
         \/ \E j \in Slot : ClaimPoll(c, j)
<1>1. CASE Start(c) \/ SendRequest(c) \/ Serve(c) \/ Complete(c) \/ Unknown(c) \/ Abandon(c)
           \/ RecordInputRequired(c)
  BY <1>1 DEF Start, SendRequest, Serve, Complete, Unknown, Abandon, RecordInputRequired,
              mcpRows, Raise
<1>2. CASE RecordTask(c)
  BY <1>2 DEF RecordTask, mcpRows, Raise
<1>3. CASE Observe(c)
  BY <1>3 DEF Observe, mcpRows
<1>4. CASE \/ BeginCompletion(c) \/ CompleteTask(c) \/ FinalizeTaskCancelled(c) \/ Finish(c)
           \/ Close(c) \/ UpdateAcknowledged(c) \/ CancelAcknowledged(c)
  BY <1>4 DEF BeginCompletion, CompleteTask, FinalizeTaskCancelled, Finish, Close,
              UpdateAcknowledged, CancelAcknowledged, mcpRows, Raise
<1>5. CASE ~ThreadStep(c)
  BY <1>5 DEF MovesOf, ToInvoke, ToResume, ToUpdate, AskCancel, Fault, LoseReply, ThreadCrash,
              Taking, mcpRows
<1>6. QED
  BY <1>1, <1>2, <1>3, <1>4, <1>5 DEF ThreadStep

\* A lease is held until its job is completed.
LEMMA LeaseKept ==
  ASSUME McpTypeInv, [MNext]_mcpVars, Single', NEW d \in Thread, NEW j \in Slot,
         polls[j] = d, ~Is(d, "idle"), thread[d].job = j
  PROVE  polls'[j] = d \/ Is(d, "idle")'
<1>1. RowsOK /\ d \notin {"ready", "done"} /\ polls \in [Slot -> {"ready", "done"} \cup Thread]
  BY SlotsAssumption DEF McpTypeInv, RowsOK
<1>2. UNCHANGED polls \/ RetirePolls => polls'[j] = d
  BY <1>1 DEF RetirePolls
<1>3. ASSUME NEW c \in Thread, MovesOf(c) PROVE polls'[j] = d \/ Is(d, "idle")'
  <2>1. CASE EnqueuePoll
    BY <1>1, <2>1, PollEnqueued
  <2>2. CASE Close(c) /\ LeaseHeld(c) /\ polls' = [polls EXCEPT ![thread[c].job] = "done"]
    <3>1. CASE c = d
      BY <2>2, <3>1, AfterMove DEF Close
    <3>2. CASE c # d
      <4>1. thread[c].job # j
        BY <2>2, <3>2, SlotsAssumption DEF LeaseHeld, Slot
      <4>2. QED
        BY <1>1, <2>2, <4>1
    <3>3. QED
      BY <3>1, <3>2
  <2>3. ASSUME NEW i \in Slot, ClaimPoll(c, i) PROVE polls'[j] = d
    BY <1>1, <2>3 DEF ClaimPoll
  <2>4. QED
    BY <1>2, <1>3, <2>1, <2>2, <2>3, PollMoves
<1>4. ASSUME NEW i \in Slot, Lapse(i) PROVE polls'[j] = d
  <2>1. CASE i = j
    <3>1. Disturb /\ task # "none"
      BY <1>1, <1>4, <2>1 DEF Lapse, Holds, RowsOK
    <3>2. task' # "none"
      BY <3>1, DisturbancesStay
    <3>3. QED
      BY <3>1, <3>2, SingleBefore
  <2>2. CASE i # j
    BY <1>1, <1>4, <2>2 DEF Lapse
  <2>3. QED
    BY <2>1, <2>2
<1>5. CASE MovesOfNone
  BY <1>2, <1>4, <1>5 DEF MovesOfNone, Progress, User, Interfere, Finalize, mcpRows
<1>6. QED
  BY <1>2, <1>3, <1>5, McpNextMoves DEF mcpVars, mcpRows

\* No thread loses the lease of its job, and no user asks to cancel.
LEMMA LeasesStep ==
  ASSUME McpTypeInv, McpTypeInv', LeasesInv, [MNext]_mcpVars, Single' PROVE LeasesInv'
<1> SUFFICES ASSUME NEW d \in Thread, ~Is(d, "idle")' PROVE (Way(d) # "cancel" /\ LeaseHeld(d))'
  BY DEF LeasesInv
<1>1. thread[d] \in {Resting} \cup AtWork /\ (thread[d] \in AtWork => thread[d].job \in 0..MaxPolls)
  BY DEF McpTypeInv, ThreadsOK, AtWork
<1>2. ASSUME ~Is(d, "idle"), thread'[d].way = Way(d), thread'[d].job = thread[d].job
      PROVE  (Way(d) # "cancel" /\ LeaseHeld(d))'
  <2>1. Way(d) # "cancel" /\ LeaseHeld(d)
    BY <1>2 DEF LeasesInv
  <2>2. thread[d].job # 0 => thread[d].job \in Slot
    BY <1>1, <1>2, SlotsAssumption DEF Is, Resting, Slot
  <2>3. thread[d].job # 0 => polls'[thread[d].job] = d
    BY <1>2, <2>1, <2>2, LeaseKept DEF LeaseHeld
  <2>4. QED
    BY <1>2, <2>1, <2>3 DEF Way, LeaseHeld
<1>3. CASE thread'[d] = thread[d]
  BY <1>2, <1>3 DEF Is, Way
<1>4. ASSUME MovesOf(d) PROVE (Way(d) # "cancel" /\ LeaseHeld(d))'
  <2>1. CASE ~Is(d, "idle")
    BY <1>2, <1>4, <2>1, KeepsItsWay
  <2>2. ~AskCancel(d)
    <3>1. ASSUME AskCancel(d) PROVE FALSE
      <4>1. Disturb /\ task # "none"
        BY <3>1 DEF AskCancel
      <4>2. QED
        BY <4>1, DisturbancesStay, SingleBefore
    <3>2. QED
      BY <3>1
  <2>3. CASE Is(d, "idle")
    <3>1. CASE thread'[d].way \in {"invoke", "resume", "update"} /\ thread'[d].job = 0
      BY <3>1 DEF Way, LeaseHeld
    <3>2. ASSUME NEW j \in Slot, ClaimPoll(d, j), thread'[d].way = "poll", thread'[d].job = j
          PROVE  (Way(d) # "cancel" /\ LeaseHeld(d))'
      <4>1. polls'[j] = d
        BY <3>2 DEF ClaimPoll, McpTypeInv, RowsOK
      <4>2. QED
        BY <3>2, <4>1 DEF Way, LeaseHeld
    <3>3. QED
      BY <1>4, <2>2, <2>3, <3>1, <3>2, TakesItsWay
  <2>4. QED
    BY <2>1, <2>3
<1>5. UNCHANGED mcpVars \/ MovesOfNone => UNCHANGED thread
  BY DEF MovesOfNone, Lapse, Progress, User, Interfere, Finalize, mcpVars
<1>6. ASSUME NEW c \in Thread, MovesOf(c), c # d PROVE thread'[d] = thread[d]
  BY <1>6, OneMoves
<1>7. QED
  BY <1>3, <1>4, <1>5, <1>6, McpNextMoves

\* A pending request is of an action that waits for it, or was cancelled with it.
LEMMA PendingStep ==
  ASSUME McpTypeInv, LeasesInv, PendingInv, [MNext]_mcpVars PROVE PendingInv'
<1>1. TypeOK /\ call \in Request
  BY CallAssumption DEF McpTypeInv, Request
<1>2. \A s : SetAction(call, s) => action'[call] = s
  BY <1>1, McpMoves
<1>3. UNCHANGED <<action, request>> => PendingInv'
  BY DEF PendingInv
<1>4. UNCHANGED vars => PendingInv'
  BY <1>3 DEF vars
<1>5. ASSUME UNCHANGED request, action[call] \notin {"waiting_input", "cancelled"} PROVE PendingInv'
  BY <1>5 DEF PendingInv
<1>6. action'[call] \in {"waiting_input", "cancelled"} => PendingInv'
  BY DEF PendingInv
<1>7. ASSUME NEW c \in Thread, ThreadStep(c), ~Apart PROVE PendingInv'
  <2>1. Raise(c) => PendingInv'
    BY <1>4 DEF Raise
  <2>2. CASE Start(c)
    BY <1>3, <1>4, <1>5, <2>2
       DEF Start, EnsureRunning, BeginDispatch, StartAttempt, actionVars
  <2>3. CASE Complete(c) \/ CompleteTask(c) \/ Unknown(c)
    BY <1>4, <1>5, <2>1, <2>3
       DEF Complete, CompleteTask, CompleteAction, Unknown, MarkOutcomeUnknown
  <2>4. CASE RecordInputRequired(c)
    BY <1>2, <1>6, <2>1, <2>4 DEF RecordInputRequired
  <2>5. CASE RecordTask(c) \/ UpdateAcknowledged(c)
    BY <1>4, <1>5, <2>1, <2>5 DEF RecordTask, UpdateAcknowledged, Open
  <2>6. CASE Observe(c)
    BY <1>2, <1>4, <1>6, <2>6 DEF Observe
  <2>7. CASE BeginCompletion(c)
    BY <1>5, <2>1, <2>7 DEF BeginCompletion, StartAttempt
  <2>8. CASE FinalizeTaskCancelled(c)
    BY <1>2, <1>4, <1>6, <2>8 DEF FinalizeTaskCancelled
  <2>9. CASE Finish(c)
    BY <1>3, <1>4, <2>9 DEF Finish, FinishImplicit, EndRun, actionVars
  <2>10. ~CancelAcknowledged(c)
    BY DEF CancelAcknowledged, Replied, Is, LeasesInv
  <2>11. QED
    BY <1>7, <2>2, <2>3, <2>4, <2>5, <2>6, <2>7, <2>8, <2>9, <2>10 DEF ThreadStep, Apart
<1>8. CASE User
  <2>1. CASE AdmitAction(call)
    BY <1>5, <2>1 DEF AdmitAction
  <2>2. CASE RespondAnswer(call) \/ RespondExpired(call)
    BY <1>1, <2>2 DEF RespondAnswer, RespondExpired, TypeOK, PendingInv
  <2>3. CASE TimePasses(call)
    BY <1>3, <2>3 DEF TimePasses, actionVars
  <2>4. QED
    BY <1>8, <2>1, <2>2, <2>3 DEF User
<1>9. \A act : act = SettleUndispatched => act[call] \in {action[call], "cancelled"}
  BY CallAssumption DEF SettleUndispatched
<1>10. CASE Interfere \/ Finalize
  <2>1. CASE RequestCancellation \/ TerminateRun
    BY <1>9, <2>1 DEF RequestCancellation, TerminateRun, PendingInv
  <2>2. CASE BlockRun \/ FailRun \/ FinalizeCancellation
    BY <1>3, <2>2 DEF BlockRun, FailRun, EndRun, FinalizeCancellation, actionVars
  <2>3. ASSUME NEW fact, Reconcile(call, version[call], fact) PROVE PendingInv'
    BY <1>5, <2>3 DEF Reconcile
  <2>4. QED
    BY <1>10, <2>1, <2>2, <2>3 DEF Interfere, Finalize
<1>11. QED
  BY <1>4, <1>7, <1>8, <1>10, ApartFromKernel, McpNextMoves
     DEF MovesOf, MovesOfNone, Apart, mcpVars

\* Nobody has the action.
NoTurn == (\A c \in Thread : ~Settling(c)) /\ NoLook

\* Nobody has an action that is neither running nor waiting outside; and who has
\* it is alone.
LEMMA TurnsAlone ==
  ASSUME TurnsInv
  PROVE  /\ action[call] \notin {"running", "waiting_external"} => NoTurn
         /\ \A c \in Thread : Owner(c)
              => Open /\ ~Is(c, "ended") /\ NoLook /\ \A d \in Thread \ {c} : ~Settling(d)
         /\ \A c \in Thread : Is(c, "ended")
              => /\ action[call] = "waiting_external" /\ NoLook
                 /\ \A d \in Thread \ {c} : ~Settling(d)
         /\ \A j \in Slot : WillLook(j)
              => /\ action[call] = "waiting_external"
                 /\ \A i \in Slot \ {j} : ~WillLook(i)
                 /\ \A d \in Thread : ~Settling(d)
<1>1. ASSUME NEW c \in Thread, Owner(c)
      PROVE  Open /\ ~Is(c, "ended") /\ NoLook /\ \A d \in Thread \ {c} : ~Settling(d)
  <2>1. Open
    BY <1>1 DEF TurnsInv
  <2>2. action[call] = "running"
    BY <2>1 DEF Open
  <2>3. QED
    BY <1>1, <2>1, <2>2 DEF TurnsInv, NoLook, Settling
<1>2. ASSUME NEW c \in Thread, Is(c, "ended")
      PROVE  /\ action[call] = "waiting_external" /\ NoLook
             /\ \A d \in Thread \ {c} : ~Settling(d)
  BY <1>2 DEF TurnsInv, Settling
<1>3. ASSUME NEW j \in Slot, WillLook(j)
      PROVE  /\ action[call] = "waiting_external"
             /\ \A i \in Slot \ {j} : ~WillLook(i)
             /\ \A d \in Thread : ~Settling(d)
  BY <1>1, <1>2, <1>3 DEF TurnsInv, NoLook, Settling
<1>4. action[call] \notin {"running", "waiting_external"} => NoTurn
  <2>1. ASSUME NEW c \in Thread, Owner(c) PROVE action[call] = "running"
    BY <1>1, <2>1 DEF Open
  <2>2. QED
    BY <1>2, <1>3, <2>1 DEF NoTurn, NoLook, Settling
<1>5. QED
  BY <1>1, <1>2, <1>3, <1>4

\* Without a task there are no poll jobs.
LEMMA NoTaskNoLook == ASSUME McpTypeInv, task = "none" PROVE NoLook
BY SlotsAssumption DEF McpTypeInv, RowsOK, NoLook, WillLook

\* What the poll jobs lead to when one thread moves.
LEMMA LooksAround ==
  ASSUME McpTypeInv, NEW c \in Thread, \A d \in Thread \ {c} : thread'[d] = thread[d],
         NEW j \in Slot, WillLook(j)', polls'[j] = polls[j] \/ polls'[j] = c
  PROVE  \/ WillLook(j)
         \/ polls[j] = c /\ Past(c) /\ thread[c].job = j
         \/ polls'[j] = c /\ polls[j] # c
<1>1. "ready" \notin Thread
  BY SlotsAssumption
<1>2. CASE polls'[j] = polls[j] /\ polls[j] # c
  BY <1>1, <1>2 DEF WillLook, Past
<1>3. CASE polls'[j] = polls[j] /\ polls[j] = c
  BY <1>1, <1>3 DEF WillLook, Past
<1>4. QED
  BY <1>2, <1>3

\* A step that leaves the action alone and gives nobody a turn.
LEMMA TurnsLess ==
  ASSUME TurnsInv, UNCHANGED <<action, attempts, epoch>>,
         \A d \in Thread : /\ Owner(d)' => Owner(d)
                           /\ Is(d, "ended")' => Is(d, "ended")
                           /\ Is(d, "completing")' => /\ Is(d, "completing")
                                                      /\ thread'[d].job = thread[d].job,
         \A j \in Slot : WillLook(j)' => WillLook(j)
  PROVE  TurnsInv'
<1>1. action' = action /\ epoch' = epoch /\ (Open' = Open)
  BY DEF Open, LatestIs
<1>2. \A d \in Thread : Settling(d)' => Settling(d)
  BY DEF Settling
<1>3. \A d \in Thread : Owner(d)' => Open'
  BY <1>1 DEF TurnsInv
<1>4. \A d \in Thread : Is(d, "ended")' => action'[call] = "waiting_external" /\ NoLook'
  BY <1>1 DEF TurnsInv, NoLook
<1>5. \A j \in Slot : WillLook(j)' => action'[call] = "waiting_external"
  BY <1>1 DEF TurnsInv
<1>6. \A d, e \in Thread : Settling(d)' /\ Settling(e)' => d = e
  BY <1>2 DEF TurnsInv
<1>7. \A i, j \in Slot : WillLook(i)' /\ WillLook(j)' => i = j
  BY DEF TurnsInv
<1>8. \A d \in Thread : Is(d, "completing")' /\ thread'[d].job # 0 => epoch'[call] = 1
  BY <1>1 DEF TurnsInv
<1>9. QED
  BY <1>3, <1>4, <1>5, <1>6, <1>7, <1>8 DEF TurnsInv

\* A step of a thread that makes no job ready leads to no new look, unless it
\* leaves the last part of its way with the job that it holds.
Stays(c) ==
  /\ \A d \in Thread \ {c} : thread'[d] = thread[d]
  /\ \A j \in Slot : polls'[j] \in {polls[j], "done"}
  /\ Past(c) => \/ Past(c)' /\ thread'[c].job = thread[c].job
                \/ thread[c].job = 0
                \/ polls'[thread[c].job] = "done"

\* Such a step leads to no new look.
LEMMA StaysLooks ==
  ASSUME McpTypeInv, NEW c \in Thread, Stays(c)
  PROVE  \A j \in Slot : WillLook(j)' => WillLook(j)
<1> SUFFICES ASSUME NEW j \in Slot, WillLook(j)' PROVE WillLook(j)
  OBVIOUS
<1>1. polls'[j] # "done" /\ polls'[j] = polls[j] /\ 0 \notin Slot
  BY SlotsAssumption DEF WillLook, Stays, Slot
<1>2. CASE polls[j] = c /\ Past(c) /\ thread[c].job = j
  <2>1. Past(c)' /\ thread'[c].job = j /\ polls'[j] = c
    BY <1>1, <1>2 DEF Stays
  <2>2. QED
    BY <2>1, SlotsAssumption DEF WillLook, Past
<1>3. QED
  BY <1>1, <1>2, LooksAround DEF Stays

\* A step that gives its thread no turn, and leads to no new look.
LEMMA TurnsKept ==
  ASSUME McpTypeInv, TurnsInv, UNCHANGED <<action, attempts, epoch>>, NEW c \in Thread, Stays(c),
         Owner(c)' => Owner(c) /\ ~Is(c, "completing")', ~Is(c, "ended")'
  PROVE  TurnsInv'
<1>1. \A d \in Thread \ {c} :
        /\ Owner(d)' = Owner(d) /\ Is(d, "ended")' = Is(d, "ended")
        /\ Is(d, "completing")' = Is(d, "completing") /\ thread'[d].job = thread[d].job
  BY DEF Owner, Is, Way, Stays
<1>2. Is(c, "completing")' => Owner(c)'
  BY DEF Owner
<1>3. \A j \in Slot : WillLook(j)' => WillLook(j)
  BY StaysLooks
<1>4. \A d \in Thread : /\ Owner(d)' => Owner(d)
                        /\ Is(d, "ended")' => Is(d, "ended")
                        /\ Is(d, "completing")' => /\ Is(d, "completing")
                                                   /\ thread'[d].job = thread[d].job
  BY <1>1, <1>2
<1>5. QED
  BY <1>3, <1>4, TurnsLess

\* A thread before the last part of its way that rests or is answered.
LEMMA TurnsAnswered ==
  ASSUME McpTypeInv, TurnsInv, UNCHANGED <<action, attempts, epoch>>, UNCHANGED polls,
         NEW c \in Thread, MovesOf(c), ~Past(c), ~Is(c, "idle"),
         Is(c, "idle")' \/ (Is(c, "replied")' /\ thread[c].pc \in {"begun", "sent", "replied"})
  PROVE  TurnsInv'
<1>1. Owner(c)' => Owner(c) /\ ~Is(c, "completing")'
  BY KeepsItsWay DEF Owner, Is, Way
<1>2. ~Is(c, "ended")'
  BY DEF Is
<1>3. Stays(c)
  BY OneMoves DEF Stays
<1>4. QED
  BY <1>1, <1>2, <1>3, TurnsKept

\* The turn of a thread ends, and another begins or none.
LEMMA TurnEnds ==
  ASSUME McpTypeInv, NoLook, NEW c \in Thread, \A d \in Thread \ {c} : ~Settling(d), Stays(c)
  PROVE  /\ NoLook' /\ \A d \in Thread \ {c} : ~Settling(d)'
         /\ ~Settling(c)' => TurnsInv'
         /\ action'[call] = "waiting_external" /\ ~Owner(c)' => TurnsInv'
         /\ Owner(c)' /\ Open' /\ (Is(c, "completing")' /\ thread'[c].job # 0 => epoch'[call] = 1)
              => TurnsInv'
<1>1. NoLook'
  BY StaysLooks DEF NoLook
<1>2. \A d \in Thread \ {c} : ~Settling(d)'
  BY DEF Stays, Settling, Owner, Is, Way
<1>3. ~Settling(c)' => NoTurn'
  BY <1>1, <1>2 DEF NoTurn
<1>4. Owner(c)' => ~Is(c, "ended")'
  BY DEF Owner, Is
<1>5. NoTurn' => TurnsInv'
  BY DEF TurnsInv, NoTurn, NoLook, Settling, Owner
<1>6. ASSUME action'[call] = "waiting_external", ~Owner(c)' PROVE TurnsInv'
  BY <1>1, <1>2, <1>6 DEF TurnsInv, NoLook, Settling, Owner, Is
<1>7. ASSUME Owner(c)', Open', Is(c, "completing")' /\ thread'[c].job # 0 => epoch'[call] = 1
      PROVE  TurnsInv'
  <2>1. \A d \in Thread : Settling(d)' => d = c
    BY <1>2
  <2>2. \A d \in Thread : Is(d, "ended")' => FALSE
    BY <1>4, <1>7, <2>1 DEF Settling
  <2>3. \A d \in Thread : Is(d, "completing")' => d = c
    BY <2>1 DEF Settling, Owner
  <2>4. \A j \in Slot : ~WillLook(j)'
    BY <1>1 DEF NoLook
  <2>5. QED
    BY <1>7, <2>1, <2>2, <2>3, <2>4 DEF TurnsInv, Settling
<1>8. QED
  BY <1>1, <1>2, <1>3, <1>5, <1>6, <1>7

\* The steps of a thread between the transactions pass no turn on.
LEMMA TurnsAround ==
  ASSUME McpTypeInv, TurnsInv, LeasesInv, LeasesInv', [MNext]_mcpVars, Single',
         NEW c \in Thread, MovesOf(c),
         \/ SendRequest(c) \/ Serve(c) \/ Fault(c) \/ LoseReply(c) \/ Abandon(c) \/ Close(c)
         \/ ThreadCrash(c) \/ Is(c, "idle")
  PROVE  TurnsInv'
<1>1. UNCHANGED <<action, attempts, epoch>>
  <2>1. Is(c, "idle") => Apart
    BY IdleMoves DEF Apart
  <2>2. Apart
    BY <2>1 DEF Apart
  <2>3. QED
    BY <2>2, ApartFromKernel DEF vars
<1>2. \A d \in Thread \ {c} : thread'[d] = thread[d]
  BY OneMoves
<1>3. /\ Rest(c) => Is(c, "idle")'
      /\ \A pc : ~Is(c, "idle") /\ GoOn(c, pc)
           => thread'[c].pc = pc /\ thread'[c].way = Way(c) /\ thread'[c].job = thread[c].job
      /\ \A r, k : ~Is(c, "idle") /\ Answer(c, r, k) => Is(c, "replied")'
  BY AfterMove DEF Is
<1>4. CASE SendRequest(c)
  <2>1. Is(c, "begun") /\ ~Is(c, "idle") /\ ~Past(c) /\ UNCHANGED polls
    BY <1>4 DEF SendRequest, Is, Past
  <2>2. CASE GoOn(c, "sent")
    <3>1. Owner(c)' => Owner(c) /\ ~Is(c, "completing")'
      BY <1>3, <2>1, <2>2 DEF Owner, Is, Way
    <3>2. ~Is(c, "ended")' /\ Stays(c)
      BY <1>2, <1>3, <2>1, <2>2 DEF Is, Stays
    <3>3. QED
      BY <1>1, <3>1, <3>2, TurnsKept
  <2>3. CASE Rest(c)
    BY <1>1, <1>3, <2>1, <2>3, TurnsAnswered
  <2>4. CASE Become(c, [thread[c] EXCEPT !.pc = "replied", !.reply = "rejected"])
    <3>1. thread[c] \in AtWork /\ thread \in [Thread -> {Resting} \cup AtWork]
      BY <2>1, Working DEF McpTypeInv, ThreadsOK
    <3>2. Is(c, "replied")'
      BY <2>4, <3>1 DEF Become, AtWork, Is
    <3>3. QED
      BY <1>1, <2>1, <3>2, TurnsAnswered DEF Is
  <2>5. QED
    BY <1>4, <2>2, <2>3, <2>4 DEF SendRequest
<1>5. CASE Serve(c) \/ Fault(c) \/ LoseReply(c)
  <2>1. Is(c, "sent") /\ ~Is(c, "idle") /\ ~Past(c) /\ UNCHANGED polls
    BY <1>5 DEF Serve, Fault, LoseReply, Is, Past, mcpRows
  <2>2. \E r, k : Answer(c, r, k)
    BY <1>5 DEF Serve, Fault, LoseReply
  <2>3. QED
    BY <1>1, <1>3, <2>1, <2>2, TurnsAnswered DEF Is
<1>6. CASE Abandon(c)
  <2>1. Is(c, "replied") /\ ~Is(c, "idle") /\ ~Past(c) /\ UNCHANGED polls /\ Rest(c)
    BY <1>6 DEF Abandon, Replied, Is, Past, mcpRows
  <2>2. QED
    BY <1>1, <1>3, <2>1, TurnsAnswered
<1>7. CASE Close(c)
  <2>1. Is(c, "closing") /\ ~Is(c, "idle") /\ LeaseHeld(c) /\ Is(c, "idle")'
    BY <1>3, <1>7 DEF Close, Is, LeasesInv
  <2>2. polls' = [polls EXCEPT ![thread[c].job] = "done"] /\ polls \in [Slot -> {"ready", "done"} \cup Thread]
    BY <1>7, <2>1 DEF Close, McpTypeInv, RowsOK
  <2>3. thread[c].job # 0 => thread[c].job \in Slot
    BY <2>1, Working, SlotsAssumption DEF McpTypeInv, AtWork, Slot
  <2>4. Stays(c)
    BY <1>2, <2>2, <2>3 DEF Stays
  <2>5. ~Owner(c)' /\ ~Is(c, "ended")'
    BY <2>1 DEF Owner, Is
  <2>6. QED
    BY <1>1, <2>4, <2>5, TurnsKept
<1>8. CASE ThreadCrash(c)
  <2>1. Disturb /\ Is(c, "idle")' /\ UNCHANGED polls
    BY <1>3, <1>8 DEF ThreadCrash, mcpRows
  <2>2. task = "none"
    BY <2>1, SingleBefore, DisturbancesStay
  <2>3. polls \in [Slot -> {"ready", "done"} \cup Thread] /\ \A j \in Slot : polls[j] = "done"
    BY <2>2 DEF McpTypeInv, RowsOK
  <2>4. thread[c].job # 0 => thread[c].job \in Slot
    BY <1>8, Working, SlotsAssumption DEF ThreadCrash, McpTypeInv, AtWork, Slot
  <2>5. Stays(c)
    BY <1>2, <2>1, <2>3, <2>4 DEF Stays
  <2>6. ~Owner(c)' /\ ~Is(c, "ended")'
    BY <2>1 DEF Owner, Is
  <2>7. QED
    BY <1>1, <2>5, <2>6, TurnsKept
<1>9. CASE Is(c, "idle") /\ ~AskCancel(c)
  <2>1. CASE Is(c, "looked")' /\ UNCHANGED polls
    <3>1. ~Owner(c)' /\ ~Is(c, "ended")' /\ Stays(c)
      BY <1>2, <1>9, <2>1 DEF Owner, Is, Stays, Past
    <3>2. QED
      BY <1>1, <3>1, TurnsKept
  <2>2. ASSUME NEW j \in Slot, ClaimPoll(c, j), Is(c, "begun")', thread'[c].way = "poll"
        PROVE  TurnsInv'
    <3>1. polls[j] = "ready" /\ polls' = [polls EXCEPT ![j] = c]
          /\ polls \in [Slot -> {"ready", "done"} \cup Thread]
      BY <2>2 DEF ClaimPoll, McpTypeInv, RowsOK
    <3>2. \A i \in Slot : WillLook(i)' => WillLook(i)
      <4>1. WillLook(j)
        BY <3>1 DEF WillLook
      <4>2. \A i \in Slot \ {j} : polls'[i] = polls[i]
        BY <3>1
      <4>3. ~Past(c)
        BY <1>9 DEF Past, Is
      <4>4. QED
        BY <1>2, <4>1, <4>2, <4>3, LooksAround
    <3>3. \A d \in Thread : /\ Owner(d)' => Owner(d)
                            /\ Is(d, "ended")' => Is(d, "ended")
                            /\ Is(d, "completing")' => /\ Is(d, "completing")
                                                       /\ thread'[d].job = thread[d].job
      BY <1>2, <2>2 DEF Owner, Is, Way
    <3>4. QED
      BY <1>1, <3>2, <3>3, TurnsLess
  <2>3. QED
    BY <1>9, <2>1, <2>2, TakesItsWay
<1>10. ~AskCancel(c)
  <2>1. ASSUME AskCancel(c) PROVE FALSE
    <3>1. Disturb /\ task # "none"
      BY <2>1 DEF AskCancel
    <3>2. QED
      BY <3>1, DisturbancesStay, SingleBefore
  <2>2. QED
    BY <2>1
<1>11. QED
  BY <1>4, <1>5, <1>6, <1>7, <1>8, <1>9, <1>10

\* A new attempt is open.
LEMMA StartOpens ==
  ASSUME McpTypeInv, NEW e \in 0..MaxEpoch, StartAttempt(call, e, attempts[call])
  PROVE  Open' /\ epoch'[call] = e
<1>1. TypeOK /\ attempts[call] \in Seq(AttemptStatus) /\ "started" \in AttemptStatus
  BY CallAssumption DEF McpTypeInv, TypeOK, AttemptStatus
<1>2. action'[call] = "running"
  BY <1>1, McpMoves
<1>3. epoch'[call] = e /\ attempts'[call] = Append(attempts[call], "started")
  BY <1>1, CallAssumption DEF StartAttempt, TypeOK
<1>4. attempts'[call] # <<>> /\ Last(attempts'[call]) = "started"
  BY <1>1, <1>3, AppendProperties DEF Last
<1>5. QED
  BY <1>2, <1>3, <1>4 DEF Open, LatestIs

\* A thread that has the only turn, or the only look, commits the next look.
LEMMA LookBegins ==
  ASSUME McpTypeInv, EnqueuePoll, NEW c \in Thread, MovesOf(c), ~Past(c),
         \A d \in Thread \ {c} : ~Settling(d), ~Settling(c)', action'[call] = "waiting_external",
         \A k \in Slot : WillLook(k) => polls[k] = c /\ Past(c)' /\ thread'[c].job = k
  PROVE  TurnsInv'
<1>1. PICK j \in Slot : polls[j] = "done" /\ polls' = [polls EXCEPT ![j] = "ready"]
  BY PollEnqueued DEF McpTypeInv
<1>2. \A d \in Thread \ {c} : thread'[d] = thread[d]
  BY OneMoves
<1>3. polls \in [Slot -> {"ready", "done"} \cup Thread] /\ c # "ready" /\ c # "done"
  BY SlotsAssumption DEF McpTypeInv, RowsOK
<1>4. \A i \in Slot \ {j} : polls'[i] = polls[i]
  BY <1>1, <1>3
<1>5. ASSUME NEW i \in Slot \ {j}, WillLook(i)' PROVE FALSE
  <2>1. WillLook(i)
    BY <1>2, <1>4, <1>5, LooksAround
  <2>2. polls'[i] = c /\ Past(c)' /\ thread'[c].job = i
    BY <1>4, <2>1
  <2>3. QED
    BY <1>3, <1>5, <2>2 DEF WillLook, Past
<1>6. \A d \in Thread : ~Settling(d)'
  BY <1>2 DEF Settling, Owner, Is, Way
<1>7. QED
  BY <1>1, <1>5, <1>6 DEF TurnsInv, Settling, Owner

\* The only look ends: the thread that had it goes on to the last part.
LEMMA LookEnds ==
  ASSUME McpTypeInv, NEW c \in Thread, MovesOf(c), UNCHANGED polls, ~Past(c),
         \A d \in Thread \ {c} : ~Settling(d), Past(c)', ~Owner(c)',
         action'[call] = "waiting_external" \/ ~Is(c, "ended")',
         \A k \in Slot : WillLook(k) => polls[k] = c /\ thread'[c].job = k
  PROVE  TurnsInv'
<1>1. \A d \in Thread \ {c} : thread'[d] = thread[d]
  BY OneMoves
<1>2. c # "ready"
  BY SlotsAssumption
<1>3. NoLook'
  <2>1. ASSUME NEW i \in Slot, WillLook(i)' PROVE FALSE
    <3>1. WillLook(i)
      BY <1>1, <2>1, LooksAround
    <3>2. QED
      BY <1>2, <2>1, <3>1 DEF WillLook, Past
  <2>2. QED
    BY <2>1 DEF NoLook
<1>4. \A d \in Thread \ {c} : ~Settling(d)'
  BY <1>1 DEF Settling, Owner, Is, Way
<1>5. QED
  BY <1>3, <1>4 DEF TurnsInv, NoLook, Settling, Owner, Is

\* The transactions of a thread that has a reply pass the turn on.
LEMMA TurnsReplied ==
  ASSUME McpTypeInv, McpTypeInv', TurnsInv, LeasesInv, [MNext]_mcpVars, Single',
         NEW c \in Thread, MovesOf(c),
         \/ Complete(c) \/ Unknown(c) \/ RecordInputRequired(c) \/ RecordTask(c) \/ Observe(c)
         \/ UpdateAcknowledged(c)
  PROVE  TurnsInv'
<1>1. \A d \in Thread \ {c} : thread'[d] = thread[d]
  BY OneMoves
<1>2. Is(c, "replied") /\ ~Is(c, "idle") /\ ~Past(c) /\ ~Is(c, "ended")
  BY DEF Complete, Unknown, RecordInputRequired, RecordTask, Observe, UpdateAcknowledged,
         Replied, Is, Past
<1>3. /\ Rest(c) => Is(c, "idle")'
      /\ \A pc : GoOn(c, pc)
           => thread'[c].pc = pc /\ thread'[c].way = Way(c) /\ thread'[c].job = thread[c].job
      /\ \A r, k : Answer(c, r, k) => Is(c, "replied")'
  BY <1>2, AfterMove DEF Is
<1>4. ASSUME Way(c) \in {"invoke", "resume", "update"}
      PROVE  Open /\ NoLook /\ \A d \in Thread \ {c} : ~Settling(d)
  BY <1>2, <1>4, TurnsAlone DEF Owner, Is
<1>5. Is(c, "idle")' => ~Settling(c)' /\ ~Owner(c)' /\ ~Is(c, "ended")'
  BY DEF Settling, Owner, Is
<1>6. UNCHANGED polls => Stays(c)
  BY <1>1, <1>2 DEF Stays
<1>7. UNCHANGED vars => UNCHANGED <<action, attempts, epoch>>
  BY DEF vars
<1>8. UNCHANGED <<vars, mcpRows>> /\ (Rest(c) \/ Raise(c)) => TurnsInv'
  <2>1. Raise(c) => Rest(c) \/ \E r, k : Answer(c, r, k)
    BY DEF Raise
  <2>2. UNCHANGED mcpRows => UNCHANGED polls
    BY DEF mcpRows
  <2>3. QED
    BY <1>2, <1>3, <1>7, <2>1, <2>2, TurnsAnswered DEF Is
<1>9. Raise(c) => UNCHANGED <<vars, mcpRows>>
  BY DEF Raise
<1>10. ASSUME Way(c) \in {"invoke", "resume", "update"}, UNCHANGED polls, ~Settling(c)'
       PROVE  TurnsInv'
  BY <1>4, <1>6, <1>10, TurnEnds
<1>11. CASE Complete(c)
  <2>1. Way(c) \in {"invoke", "resume", "update"} /\ UNCHANGED polls
    BY <1>11 DEF Complete, Replied, mcpRows
  <2>2. PICK r : r = IF thread[c].reply = "ok" THEN "ok" ELSE "bad"
    OBVIOUS
  <2>3. Become(c, [thread[c] EXCEPT !.pc = "finish", !.reply = r])
    BY <1>4, <1>11, <2>1, <2>2 DEF Complete
  <2>4. thread[c] \in AtWork /\ thread \in [Thread -> {Resting} \cup AtWork]
    BY <1>2, Working DEF McpTypeInv, ThreadsOK
  <2>5. thread'[c].pc = "finish"
    BY <2>3, <2>4 DEF Become, AtWork
  <2>6. QED
    BY <1>10, <2>1, <2>5 DEF Settling, Owner, Is
<1>12. CASE Unknown(c)
  <2>1. Way(c) \in {"invoke", "resume", "update"}
    BY <1>12 DEF Unknown, Replied
  <2>2. CASE Raise(c)
    BY <1>8, <1>9, <2>2
  <2>3. CASE Rest(c) /\ UNCHANGED mcpRows
    BY <1>3, <1>5, <1>10, <2>1, <2>3 DEF mcpRows
  <2>4. QED
    BY <1>12, <2>2, <2>3 DEF Unknown
<1>13. CASE RecordInputRequired(c)
  <2>1. Way(c) \in {"invoke", "resume", "update"}
    BY <1>13 DEF RecordInputRequired, Replied
  <2>2. CASE Raise(c)
    BY <1>8, <1>9, <2>2
  <2>3. CASE Rest(c) /\ UNCHANGED polls
    BY <1>3, <1>5, <1>10, <2>1, <2>3
  <2>4. QED
    BY <1>13, <2>2, <2>3 DEF RecordInputRequired
<1>14. CASE RecordTask(c)
  <2>1. Way(c) \in {"invoke", "resume", "update"}
    BY <1>14 DEF RecordTask, Replied
  <2>2. CASE Raise(c) \/ (Rest(c) /\ UNCHANGED <<vars, mcpRows>>)
    BY <1>8, <1>9, <2>2
  <2>3. CASE SetAction(call, "waiting_external") /\ EnqueuePoll /\ Rest(c)
    <3>1. action'[call] = "waiting_external"
      BY <2>3, McpMoves DEF McpTypeInv
    <3>2. \A k \in Slot : ~WillLook(k)
      BY <1>4, <2>1 DEF NoLook
    <3>3. QED
      BY <1>2, <1>3, <1>4, <1>5, <2>1, <2>3, <3>1, <3>2, LookBegins
  <2>4. CASE SetAction(call, "waiting_external") /\ GoOn(c, "ended") /\ UNCHANGED polls
    <3>1. action'[call] = "waiting_external"
      BY <2>4, McpMoves DEF McpTypeInv
    <3>2. ~Owner(c)'
      BY <1>3, <2>4 DEF Owner, Is
    <3>3. QED
      BY <1>4, <1>6, <2>1, <2>4, <3>1, <3>2, TurnEnds
  <2>5. QED
    BY <1>14, <2>2, <2>3, <2>4 DEF RecordTask
<1>15. CASE UpdateAcknowledged(c)
  <2>1. Way(c) \in {"invoke", "resume", "update"} /\ Rest(c)
    BY <1>15 DEF UpdateAcknowledged, Replied
  <2>2. SetAction(call, "waiting_external") /\ EnqueuePoll
    BY <1>4, <1>15, <2>1 DEF UpdateAcknowledged, Open
  <2>3. action'[call] = "waiting_external"
    BY <2>2, McpMoves DEF McpTypeInv
  <2>4. \A k \in Slot : ~WillLook(k)
    BY <1>4, <2>1 DEF NoLook
  <2>5. QED
    BY <1>2, <1>3, <1>4, <1>5, <2>1, <2>2, <2>3, <2>4, LookBegins
<1>16. CASE Observe(c)
  <2>1. Way(c) = "poll" /\ LeaseHeld(c) /\ thread[c].job # 0 /\ thread[c].job \in 0..MaxPolls
    BY <1>2, <1>16, Working DEF Observe, Replied, LeasesInv, McpTypeInv, AtWork, ThreadOK
  <2>2. PICK j \in Slot : j = thread[c].job /\ polls[j] = c
    BY <2>1, SlotsAssumption DEF LeaseHeld, Slot
  <2>3. WillLook(j)
    BY <1>2, <2>2, SlotsAssumption DEF WillLook
  <2>4. /\ action[call] = "waiting_external" /\ \A d \in Thread : ~Settling(d)
        /\ \A i \in Slot \ {j} : ~WillLook(i)
    BY <2>3, TurnsAlone
  <2>5. \A pc : GoOn(c, pc) /\ pc \in {"closing", "ended"} =>
          /\ Past(c)' /\ ~Owner(c)' /\ thread'[c].job = j
          /\ \A k \in Slot : WillLook(k) => polls[k] = c /\ Past(c)' /\ thread'[c].job = k
          /\ pc = "closing" => ~Settling(c)' /\ ~Is(c, "ended")'
    BY <1>3, <2>2, <2>4 DEF Past, Owner, Is, Settling
  <2>6. CASE Rest(c) /\ UNCHANGED <<vars, mcpRows>>
    BY <1>8, <2>6
  <2>7. CASE EnqueuePoll /\ GoOn(c, "closing") /\ UNCHANGED vars
    <3>1. action'[call] = "waiting_external"
      BY <2>4, <2>7 DEF vars, actionVars
    <3>2. /\ \A k \in Slot : WillLook(k) => polls[k] = c /\ Past(c)' /\ thread'[c].job = k
          /\ ~Settling(c)'
      BY <2>5, <2>7
    <3>3. QED
      BY <1>2, <2>4, <2>7, <3>1, <3>2, LookBegins
  <2>8. CASE GoOn(c, "closing") /\ UNCHANGED polls
    <3>1. /\ \A k \in Slot : WillLook(k) => polls[k] = c /\ thread'[c].job = k
          /\ Past(c)' /\ ~Owner(c)' /\ ~Is(c, "ended")'
      BY <2>5, <2>8
    <3>2. QED
      BY <1>2, <2>4, <2>8, <3>1, LookEnds
  <2>9. CASE GoOn(c, "ended") /\ UNCHANGED <<vars, polls>>
    <3>1. /\ \A k \in Slot : WillLook(k) => polls[k] = c /\ thread'[c].job = k
          /\ Past(c)' /\ ~Owner(c)'
      BY <2>5, <2>9
    <3>2. action'[call] = "waiting_external"
      BY <2>4, <2>9 DEF vars, actionVars
    <3>3. QED
      BY <1>2, <2>4, <2>9, <3>1, <3>2, LookEnds
  <2>10. QED
    BY <1>16, <2>1, <2>6, <2>7, <2>8, <2>9 DEF Observe
<1>17. QED
  BY <1>11, <1>12, <1>13, <1>14, <1>15, <1>16

\* The other transactions of a thread: it takes the turn, or commits an end.
LEMMA TurnsTaken ==
  ASSUME McpTypeInv, McpTypeInv', TurnsInv, LeasesInv, [MNext]_mcpVars, Single',
         NEW c \in Thread, MovesOf(c),
         \/ Start(c) \/ BeginCompletion(c) \/ CompleteTask(c) \/ FinalizeTaskCancelled(c)
         \/ Finish(c) \/ CancelAcknowledged(c)
  PROVE  TurnsInv'
<1>1. \A d \in Thread \ {c} : thread'[d] = thread[d]
  BY OneMoves
<1>2. ~Is(c, "idle") /\ thread[c] \in AtWork /\ TypeOK /\ LeaseHeld(c) /\ Way(c) # "cancel"
  <2>1. ~Is(c, "idle")
    BY DEF Start, BeginCompletion, CompleteTask, FinalizeTaskCancelled, Finish,
           CancelAcknowledged, Replied, Is
  <2>2. QED
    BY <2>1, Working DEF McpTypeInv, LeasesInv
<1>3. /\ Rest(c) => Is(c, "idle")'
      /\ \A pc : GoOn(c, pc)
           => thread'[c].pc = pc /\ thread'[c].way = Way(c) /\ thread'[c].job = thread[c].job
      /\ \A r, k : Answer(c, r, k) => Is(c, "replied")'
  BY <1>2, AfterMove DEF Is
<1>4. Is(c, "ended")
        => action[call] = "waiting_external" /\ NoLook /\ \A d \in Thread \ {c} : ~Settling(d)
  BY TurnsAlone
<1>5. Is(c, "idle")' => ~Settling(c)' /\ ~Owner(c)' /\ ~Is(c, "ended")'
  BY DEF Settling, Owner, Is
<1>6. UNCHANGED vars => UNCHANGED <<action, attempts, epoch>>
  BY DEF vars, actionVars
<1>7. ASSUME UNCHANGED polls, ~Past(c) \/ (Past(c)' /\ thread'[c].job = thread[c].job)
      PROVE  Stays(c)
  BY <1>1, <1>7 DEF Stays
<1>8. CASE Start(c)
  <2>1. Is(c, "looked") /\ ~Past(c) /\ UNCHANGED polls
    BY <1>8 DEF Start, Is, Past, mcpRows
  <2>2. CASE EnsureRunning /\ UNCHANGED thread
    <3>1. UNCHANGED <<action, attempts, epoch>>
      BY <2>2 DEF EnsureRunning, actionVars
    <3>2. \A d \in Thread : /\ Owner(d)' => Owner(d)
                            /\ Is(d, "ended")' => Is(d, "ended")
                            /\ Is(d, "completing")' => /\ Is(d, "completing")
                                                       /\ thread'[d].job = thread[d].job
      BY <2>2 DEF Owner, Is, Way
    <3>3. \A j \in Slot : WillLook(j)' => WillLook(j)
      BY <2>1, <2>2 DEF WillLook, Past
    <3>4. QED
      BY <3>1, <3>2, <3>3, TurnsLess
  <2>3. CASE BeginDispatch(call, 0) /\ GoOn(c, "begun")
    <3>1. action[call] = "ready" /\ StartAttempt(call, 0, attempts[call])
      BY <2>3 DEF BeginDispatch
    <3>2. NoLook /\ \A d \in Thread : ~Settling(d)
      BY <3>1, TurnsAlone DEF NoTurn
    <3>3. Open'
      BY <3>1, StartOpens, BoundsAssumption
    <3>4. Is(c, "begun")' /\ ~Is(c, "completing")' /\ ~Is(c, "ended")'
      BY <1>3, <2>3 DEF Is
    <3>5. Stays(c)
      BY <1>7, <2>1
    <3>6. QED
      BY <3>2, <3>3, <3>4, <3>5, TurnEnds DEF Settling
  <2>4. CASE Rest(c) /\ UNCHANGED vars
    BY <1>2, <1>3, <1>6, <2>1, <2>4, TurnsAnswered
  <2>5. QED
    BY <1>8, <2>2, <2>3, <2>4 DEF Start
<1>9. CASE BeginCompletion(c)
  <2>1. Is(c, "ended") /\ Past(c)
    BY <1>9 DEF BeginCompletion, Is, Past
  <2>2. PICK e : e = IF thread[c].job = 0 THEN epoch[call] ELSE 1
    OBVIOUS
  <2>3. StartAttempt(call, e, attempts[call]) /\ GoOn(c, "completing") /\ UNCHANGED polls
    BY <1>2, <1>4, <1>9, <2>1, <2>2 DEF BeginCompletion, mcpRows
  <2>4. e \in 0..MaxEpoch
    BY <1>2, <2>2, BoundsAssumption, CallAssumption DEF TypeOK
  <2>5. Open' /\ epoch'[call] = e
    BY <2>3, <2>4, StartOpens
  <2>6. Is(c, "completing")' /\ thread'[c].job = thread[c].job /\ Past(c)' /\ Owner(c)'
    BY <1>3, <2>3 DEF Is, Past, Owner
  <2>7. Stays(c)
    BY <1>7, <2>3, <2>6
  <2>8. QED
    BY <1>4, <2>1, <2>2, <2>5, <2>6, <2>7, TurnEnds
<1>10. CASE CompleteTask(c)
  <2>1. Is(c, "completing") /\ Owner(c) /\ Past(c) /\ UNCHANGED polls
    BY <1>10 DEF CompleteTask, Is, Owner, Past, mcpRows
  <2>2. Open /\ NoLook /\ \A d \in Thread \ {c} : ~Settling(d)
    BY <2>1, TurnsAlone
  <2>3. thread[c].job = 0 \/ epoch[call] = 1
    BY <2>1 DEF TurnsInv
  <2>4. GoOn(c, "finish")
    BY <1>2, <1>10, <2>2, <2>3 DEF CompleteTask
  <2>5. Past(c)' /\ thread'[c].job = thread[c].job /\ ~Settling(c)'
    BY <1>3, <2>4 DEF Past, Settling, Owner, Is
  <2>6. QED
    BY <1>7, <2>1, <2>2, <2>5, TurnEnds
<1>11. CASE FinalizeTaskCancelled(c)
  <2>1. Is(c, "ended") /\ Past(c) /\ UNCHANGED polls
    BY <1>11 DEF FinalizeTaskCancelled, Is, Past, mcpRows
  <2>2. CASE GoOn(c, "finish")
    <3>1. Past(c)' /\ thread'[c].job = thread[c].job /\ ~Settling(c)'
      BY <1>3, <2>2 DEF Past, Settling, Owner, Is
    <3>2. QED
      BY <1>4, <1>7, <2>1, <3>1, TurnEnds
  <2>3. CASE Rest(c) /\ UNCHANGED vars
    <3>1. \A d \in Thread : ~Settling(d)'
      BY <1>1, <1>3, <1>4, <1>5, <2>1, <2>3 DEF Settling, Owner, Is, Way
    <3>2. ASSUME NEW i \in Slot, WillLook(i)' PROVE i = thread[c].job
      BY <1>1, <1>4, <2>1, <3>2, LooksAround DEF NoLook
    <3>3. action'[call] = "waiting_external"
      BY <1>4, <1>6, <2>1, <2>3
    <3>4. QED
      BY <3>1, <3>2, <3>3 DEF TurnsInv, Settling, Owner
  <2>4. QED
    BY <1>11, <2>2, <2>3 DEF FinalizeTaskCancelled
<1>12. CASE Finish(c)
  <2>1. Is(c, "finish") /\ Past(c)
    BY <1>12 DEF Finish, Is, Past
  <2>2. UNCHANGED <<action, attempts, epoch>>
    BY <1>6, <1>12 DEF Finish, FinishImplicit, EndRun, actionVars
  <2>3. \A j \in Slot : polls'[j] \in {polls[j], "done"}
    BY <1>12 DEF Finish, RetirePolls
  <2>4. CASE thread[c].job = 0 /\ Rest(c)
    <3>1. ~Owner(c)' /\ ~Is(c, "ended")'
      BY <1>3, <1>5, <2>4
    <3>2. Stays(c)
      BY <1>1, <2>3, <2>4 DEF Stays
    <3>3. QED
      BY <2>2, <3>1, <3>2, TurnsKept
  <2>5. CASE GoOn(c, "closing")
    <3>1. ~Owner(c)' /\ ~Is(c, "ended")' /\ Past(c)' /\ thread'[c].job = thread[c].job
      BY <1>3, <2>5 DEF Owner, Is, Past
    <3>2. Stays(c)
      BY <1>1, <2>3, <3>1 DEF Stays
    <3>3. QED
      BY <2>2, <3>1, <3>2, TurnsKept
  <2>6. QED
    BY <1>12, <2>4, <2>5 DEF Finish
<1>13. ~CancelAcknowledged(c)
  BY <1>2 DEF CancelAcknowledged, Replied
<1>14. QED
  BY <1>8, <1>9, <1>10, <1>11, <1>12, <1>13

\* The steps of nobody pass no turn on.
LEMMA TurnsOfNobody ==
  ASSUME McpTypeInv, McpTypeInv', TurnsInv, PendingInv, [MNext]_mcpVars, Single', MovesOfNone
  PROVE  TurnsInv'
<1>1. UNCHANGED thread
  BY DEF MovesOfNone, Lapse, Progress, User, Interfere, Finalize
<1>2. TypeOK /\ RowsOK /\ polls \in [Slot -> {"ready", "done"} \cup Thread]
  BY DEF McpTypeInv, RowsOK
<1>3. \A d \in Thread : /\ Owner(d)' = Owner(d) /\ Is(d, "ended")' = Is(d, "ended")
                        /\ Is(d, "completing")' = Is(d, "completing")
                        /\ thread'[d].job = thread[d].job /\ Settling(d)' = Settling(d)
  BY <1>1 DEF Settling, Owner, Is, Way
<1>4. UNCHANGED polls \/ RetirePolls => \A j \in Slot : WillLook(j)' => WillLook(j)
  BY <1>1, <1>2, SlotsAssumption DEF RetirePolls, WillLook, Past
<1>5. ASSUME UNCHANGED <<action, attempts, epoch>>, UNCHANGED polls \/ RetirePolls
      PROVE  TurnsInv'
  BY <1>3, <1>4, <1>5, TurnsLess
<1>6. ASSUME NoTurn, UNCHANGED polls \/ RetirePolls PROVE TurnsInv'
  <2>1. \A j \in Slot : ~WillLook(j)'
    BY <1>4, <1>6 DEF NoTurn, NoLook
  <2>2. \A d \in Thread : ~Settling(d)'
    BY <1>3, <1>6 DEF NoTurn
  <2>3. QED
    BY <2>1, <2>2 DEF TurnsInv, NoLook, Settling, Owner
<1>7. action[call] \notin {"running", "waiting_external"} => NoTurn
  BY TurnsAlone
<1>8. ASSUME NEW j \in Slot, Lapse(j) PROVE TurnsInv'
  <2>1. polls[j] \in Thread /\ polls' = [polls EXCEPT ![j] = "ready"] /\ UNCHANGED vars
    BY <1>8 DEF Lapse
  <2>2. ~Holds(polls[j], j)
    <3>1. task # "none"
      BY <1>2, <2>1, SlotsAssumption DEF RowsOK
    <3>2. ~Disturb
      BY <3>1, DisturbancesStay, SingleBefore
    <3>3. QED
      BY <1>8, <3>2 DEF Lapse
  <2>3. WillLook(j)
    BY <2>1, <2>2 DEF WillLook, Holds, Past, Is
  <2>4. \A i \in Slot : WillLook(i)' => WillLook(i)
    BY <1>1, <1>2, <2>1, <2>3 DEF WillLook, Past
  <2>5. QED
    BY <1>3, <2>1, <2>4, TurnsLess DEF vars, actionVars
<1>9. CASE \E k \in DOMAIN server : Progress(k)
  BY <1>5, <1>9 DEF Progress, vars, actionVars, mcpRows
<1>10. CASE User
  <2>1. UNCHANGED polls
    BY <1>10 DEF User, mcpRows
  <2>2. CASE AdmitAction(call)
    BY <1>6, <1>7, <2>1, <2>2 DEF AdmitAction
  <2>3. CASE RespondAnswer(call)
    BY <1>6, <1>7, <2>1, <2>3 DEF RespondAnswer, PendingInv
  <2>4. CASE RespondExpired(call) \/ TimePasses(call)
    BY <1>5, <2>1, <2>4 DEF RespondExpired, TimePasses, actionVars
  <2>5. QED
    BY <1>10, <2>2, <2>3, <2>4 DEF User
<1>11. CASE Interfere
  <2>1. task = "none"
    BY <1>11, DisturbancesStay, SingleBefore DEF Interfere
  <2>2. NoLook
    BY <2>1, NoTaskNoLook
  <2>3. UNCHANGED polls \/ RetirePolls
    BY <1>11 DEF Interfere
  <2>4. \A d \in Thread : thread[d].pc \notin {"ended", "completing"}
    BY <2>1 DEF McpTypeInv, ThreadsOK, ThreadOK, Is
  <2>5. CASE RequestCancellation \/ TerminateRun
    <3>1. action' = SettleUndispatched /\ UNCHANGED <<attempts, epoch>>
      BY <2>5 DEF RequestCancellation, TerminateRun
    <3>2. action[call] \in Undispatched => NoTurn
      BY <1>7 DEF Undispatched
    <3>3. action[call] \notin Undispatched => action'[call] = action[call]
      BY <3>1, CallAssumption DEF SettleUndispatched
    <3>4. CASE action'[call] = action[call]
      <4>1. \A j \in Slot : ~WillLook(j)'
        BY <1>4, <2>2, <2>3 DEF NoLook
      <4>2. \A d \in Thread : ~Is(d, "ended")' /\ ~Is(d, "completing")'
        BY <1>1, <2>4 DEF Is
      <4>3. Open' = Open
        BY <3>1, <3>4 DEF Open, LatestIs
      <4>4. \A d \in Thread : Owner(d)' => Open'
        BY <1>3, <4>3 DEF TurnsInv
      <4>5. \A d, e \in Thread : Settling(d)' /\ Settling(e)' => d = e
        BY <1>3 DEF TurnsInv
      <4>6. QED
        BY <4>1, <4>2, <4>4, <4>5 DEF TurnsInv
    <3>5. QED
      BY <1>6, <2>3, <3>2, <3>3, <3>4
  <2>6. CASE BlockRun \/ FailRun
    BY <1>5, <2>3, <2>6 DEF BlockRun, FailRun, EndRun, actionVars
  <2>7. ASSUME NEW fact, Reconcile(call, version[call], fact) PROVE TurnsInv'
    <3>1. action[call] # "running"
      BY <2>7 DEF Reconcile
    <3>2. \A d \in Thread : ~Owner(d)
      BY <3>1 DEF TurnsInv, Open
    <3>3. NoTurn
      BY <2>2, <2>4, <3>2 DEF NoTurn, Settling, Is
    <3>4. QED
      BY <1>6, <2>3, <3>3
  <2>8. QED
    BY <1>11, <2>5, <2>6, <2>7 DEF Interfere
<1>12. CASE Finalize
  BY <1>5, <1>12 DEF Finalize, FinalizeCancellation, actionVars
<1>13. QED
  BY <1>8, <1>9, <1>10, <1>11, <1>12 DEF MovesOfNone

\* One thread or one poll job has the action, as long as nothing disturbs.
LEMMA TurnsStep ==
  ASSUME McpTypeInv, McpTypeInv', TurnsInv, LeasesInv, PendingInv, [MNext]_mcpVars, Single'
  PROVE  TurnsInv'
<1>1. CASE UNCHANGED mcpVars
  <2>1. UNCHANGED <<action, attempts, epoch, polls, thread>>
    BY <1>1 DEF mcpVars, vars, actionVars, mcpRows
  <2>2. \A d \in Thread : /\ Owner(d)' => Owner(d)
                          /\ Is(d, "ended")' => Is(d, "ended")
                          /\ Is(d, "completing")' => /\ Is(d, "completing")
                                                     /\ thread'[d].job = thread[d].job
    BY <2>1 DEF Owner, Is, Way
  <2>3. \A j \in Slot : WillLook(j)' => WillLook(j)
    BY <2>1 DEF WillLook, Past
  <2>4. QED
    BY <2>1, <2>2, <2>3, TurnsLess
<1>2. CASE MovesOfNone
  BY <1>2, TurnsOfNobody
<1>3. ASSUME NEW c \in Thread, MovesOf(c) PROVE TurnsInv'
  <2>1. LeasesInv'
    BY LeasesStep
  <2>2. ThreadStep(c) \/ Fault(c) \/ LoseReply(c) \/ ThreadCrash(c) \/ Is(c, "idle")
    BY <1>3 DEF MovesOf, ToInvoke, ToResume, ToUpdate, AskCancel, ClaimPoll, Taking
  <2>3. QED
    BY <1>3, <2>1, <2>2, TurnsAround, TurnsReplied, TurnsTaken DEF ThreadStep
<1>4. QED
  BY <1>1, <1>2, <1>3, McpNextMoves

\* Where a thread gets to by a step, and by which.
LEMMA Arrives ==
  ASSUME McpTypeInv, [MNext]_mcpVars, NEW c \in Thread, MovesOf(c)
  PROVE  \/ thread'[c].pc \in {"idle", "looked", "closing"}
         \/ Is(c, "begun")' /\ Start(c) /\ BeginDispatch(call, 0) /\ thread'[c].way = Way(c)
         \/ Is(c, "begun")' /\ thread'[c].way \in {"poll", "cancel"}
         \/ Is(c, "sent")' /\ SendRequest(c)
         \/ Is(c, "replied")' /\ (Serve(c) \/ Fault(c) \/ LoseReply(c))
         \/ /\ Is(c, "replied")' /\ thread'[c].reply = "rejected" /\ thread'[c].way = "invoke"
            /\ \/ /\ SendRequest(c) /\ Way(c) = "invoke"
                  /\ ~(action[call] \in {"running", "waiting_external"} /\ LeaseHeld(c))
               \/ /\ Raise(c) /\ Way(c) = "invoke"
                  /\ \/ Unknown(c) \/ RecordInputRequired(c) \/ RecordTask(c)
                     \/ BeginCompletion(c)
         \/ /\ Is(c, "ended")' /\ thread'[c].reply = Reply(c)
            /\ \/ RecordTask(c) /\ Open /\ task = "none" /\ Reply(c) = "completed"
               \/ Observe(c)
         \/ Is(c, "completing")' /\ thread'[c].reply = Reply(c) /\ BeginCompletion(c)
         \/ /\ Is(c, "finish")'
            /\ \/ (Complete(c) \/ CompleteTask(c)) /\ Open
               \/ FinalizeTaskCancelled(c)
<1>1. thread \in [Thread -> {Resting} \cup AtWork]
  BY DEF McpTypeInv, ThreadsOK
<1>2. /\ Rest(c) => Is(c, "idle")'
      /\ \A pc : ~Is(c, "idle") /\ GoOn(c, pc)
           => thread'[c].pc = pc /\ thread'[c].way = Way(c) /\ thread'[c].reply = Reply(c)
      /\ \A r, k : ~Is(c, "idle") /\ Answer(c, r, k)
           => Is(c, "replied")' /\ thread'[c].way = Way(c) /\ thread'[c].reply = r
  BY AfterMove DEF Is
<1>3. ~Is(c, "idle") /\ Raise(c)
        => \/ Is(c, "idle")'
           \/ /\ Is(c, "replied")' /\ thread'[c].reply = "rejected" /\ thread'[c].way = "invoke"
              /\ Way(c) = "invoke"
  BY <1>2 DEF Raise
<1>4. CASE Is(c, "idle")
  <2>1. CASE AskCancel(c)
    BY <1>1, <2>1 DEF AskCancel, Become, On, Is
  <2>2. CASE ~AskCancel(c)
    BY <1>4, <2>2, TakesItsWay DEF Is
  <2>3. QED
    BY <2>1, <2>2
<1>5. CASE Start(c)
  <2>1. Is(c, "looked") /\ ~Is(c, "idle")
    BY <1>5 DEF Start, Is
  <2>2. QED
    BY <1>2, <1>5, <2>1 DEF Start, Is
<1>6. CASE SendRequest(c)
  <2>1. ~Is(c, "idle") /\ thread[c] \in AtWork
    BY <1>6, Working DEF SendRequest, Is, McpTypeInv
  <2>2. Become(c, [thread[c] EXCEPT !.pc = "replied", !.reply = "rejected"])
          => Is(c, "replied")' /\ thread'[c].reply = "rejected" /\ thread'[c].way = Way(c)
    BY <1>1, <2>1 DEF Become, AtWork, Is, Way
  <2>3. QED
    BY <1>2, <1>6, <2>1, <2>2 DEF SendRequest, Is
<1>7. CASE Serve(c) \/ Fault(c) \/ LoseReply(c)
  <2>1. ~Is(c, "idle") /\ \E r, k : Answer(c, r, k)
    BY <1>7 DEF Serve, Fault, LoseReply, Is
  <2>2. QED
    BY <1>2, <1>7, <2>1
<1>8. CASE Complete(c)
  <2>1. ~Is(c, "idle") /\ thread[c] \in AtWork
    BY <1>8, Working DEF Complete, Replied, Is, McpTypeInv
  <2>2. PICK r : r = IF thread[c].reply = "ok" THEN "ok" ELSE "bad"
    OBVIOUS
  <2>3. Become(c, [thread[c] EXCEPT !.pc = "finish", !.reply = r]) => Is(c, "finish")'
    BY <1>1, <2>1 DEF Become, AtWork, Is
  <2>4. (Open /\ Become(c, [thread[c] EXCEPT !.pc = "finish", !.reply = r])) \/ Rest(c)
    BY <1>8, <2>2 DEF Complete
  <2>5. QED
    BY <1>2, <1>8, <2>3, <2>4 DEF Is
<1>9. CASE Unknown(c) \/ RecordInputRequired(c)
  <2>1. ~Is(c, "idle") /\ (Raise(c) \/ Rest(c))
    BY <1>9 DEF Unknown, RecordInputRequired, Replied, Is
  <2>2. QED
    BY <1>2, <1>3, <1>9, <2>1 DEF Is
<1>10. CASE RecordTask(c)
  <2>1. ~Is(c, "idle")
    BY <1>10 DEF RecordTask, Replied, Is
  <2>2. \/ Raise(c) \/ Rest(c)
        \/ GoOn(c, "ended") /\ Open /\ task = "none" /\ Reply(c) = "completed"
    BY <1>10 DEF RecordTask, Replied
  <2>3. QED
    BY <1>2, <1>3, <1>10, <2>1, <2>2 DEF Is
<1>11. CASE Observe(c)
  <2>1. ~Is(c, "idle") /\ (Rest(c) \/ GoOn(c, "closing") \/ GoOn(c, "ended"))
    BY <1>11 DEF Observe, Replied, Is
  <2>2. QED
    BY <1>2, <1>11, <2>1 DEF Is
<1>12. CASE BeginCompletion(c)
  <2>1. ~Is(c, "idle") /\ (Raise(c) \/ GoOn(c, "completing"))
    BY <1>12 DEF BeginCompletion, Is
  <2>2. QED
    BY <1>2, <1>3, <1>12, <2>1 DEF Is
<1>13. CASE CompleteTask(c) \/ FinalizeTaskCancelled(c)
  <2>1. ~Is(c, "idle") /\ (Rest(c) \/ (GoOn(c, "finish") /\ (CompleteTask(c) => Open)))
    BY <1>13 DEF CompleteTask, FinalizeTaskCancelled, Is
  <2>2. QED
    BY <1>2, <1>13, <2>1 DEF Is
<1>14. CASE \/ Abandon(c) \/ Finish(c) \/ Close(c) \/ UpdateAcknowledged(c)
            \/ CancelAcknowledged(c) \/ ThreadCrash(c)
  <2>1. ~Is(c, "idle") /\ (Rest(c) \/ GoOn(c, "closing"))
    BY <1>14 DEF Abandon, Finish, Close, UpdateAcknowledged, CancelAcknowledged, ThreadCrash,
                 Replied, Is
  <2>2. QED
    BY <1>2, <2>1 DEF Is
<1>15. CASE \/ ToInvoke(c) \/ ToResume(c) \/ ToUpdate(c) \/ AskCancel(c)
            \/ \E j \in Slot : ClaimPoll(c, j)
  BY <1>4, <1>15 DEF ToInvoke, ToResume, ToUpdate, AskCancel, ClaimPoll, Taking
<1>16. QED
  BY <1>5, <1>6, <1>7, <1>8, <1>9, <1>10, <1>11, <1>12, <1>13, <1>14, <1>15
     DEF MovesOf, ThreadStep

\* The action fails by a reply that is not a good one.
LEMMA FailsBy ==
  ASSUME McpTypeInv, [MNext]_mcpVars, action'[call] = "failed"
  PROVE  \/ action[call] = "failed"
         \/ \E c \in Thread : \/ Complete(c) /\ Reply(c) # "ok"
                              \/ CompleteTask(c) /\ Reply(c) # "completed"
<1>1. TypeOK
  BY DEF McpTypeInv
<1>2. \A s : SetAction(call, s) => s = "failed"
  BY <1>1, McpMoves
<1>3. \A ok, e : CompleteAction(call, ok, e) => ~ok
  BY <1>2 DEF CompleteAction
<1>4. \A e, earlier : ~StartAttempt(call, e, earlier)
  BY <1>1, McpMoves
<1>5. UNCHANGED vars => UNCHANGED action
  BY DEF vars
<1>7. ASSUME NEW c \in Thread, MovesOf(c), ~UNCHANGED action
      PROVE  \/ Complete(c) /\ Reply(c) # "ok"
             \/ CompleteTask(c) /\ Reply(c) # "completed"
  <2>1. ~Apart
    BY <1>5, <1>7, ApartFromKernel
  <2>2. ThreadStep(c)
    BY <1>7, <2>1 DEF MovesOf, Apart
  <2>3. ~Raise(c)
    BY <1>5, <1>7 DEF Raise
  <2>4. CASE Complete(c) \/ CompleteTask(c)
    BY <1>3, <1>5, <1>7, <2>4 DEF Complete, CompleteTask
  <2>5. CASE Start(c) \/ BeginCompletion(c) \/ Finish(c)
    BY <1>4, <1>5, <1>7, <2>3, <2>5
       DEF Start, EnsureRunning, BeginDispatch, BeginCompletion, Finish, FinishImplicit, EndRun,
           actionVars
  <2>6. CASE Unknown(c) \/ RecordInputRequired(c) \/ RecordTask(c) \/ UpdateAcknowledged(c)
    BY <1>2, <1>5, <1>7, <2>3, <2>6
       DEF Unknown, MarkOutcomeUnknown, RecordInputRequired, RecordTask, UpdateAcknowledged
  <2>7. CASE Observe(c) \/ FinalizeTaskCancelled(c) \/ CancelAcknowledged(c)
    BY <1>2, <1>5, <1>7, <2>7 DEF Observe, FinalizeTaskCancelled, CancelAcknowledged
  <2>8. QED
    BY <2>1, <2>2, <2>4, <2>5, <2>6, <2>7 DEF ThreadStep, Apart
<1>8. ASSUME MovesOfNone PROVE action[call] = "failed"
  <2>1. CASE \/ \E j \in Slot : Lapse(j)
             \/ \E k \in DOMAIN server : Progress(k)
    BY <1>5, <2>1 DEF Lapse, Progress
  <2>2. CASE User
    BY <1>1, <1>2, <2>2, CallAssumption
       DEF User, AdmitAction, RespondAnswer, RespondExpired, TimePasses, actionVars, TypeOK
  <2>3. \A act : act = SettleUndispatched => act[call] \in {action[call], "cancelled"}
    BY CallAssumption DEF SettleUndispatched
  <2>4. CASE Finalize
    BY <2>4 DEF Finalize, FinalizeCancellation, actionVars
  <2>5. CASE Interfere
    BY <1>2, <2>3, <2>5
       DEF Interfere, RequestCancellation, TerminateRun, BlockRun, FailRun, EndRun, Reconcile,
           ResolvedStatus, actionVars
  <2>6. QED
    BY <1>8, <2>1, <2>2, <2>4, <2>5 DEF MovesOfNone
<1>9. UNCHANGED mcpVars => UNCHANGED action
  BY DEF mcpVars, vars
<1>10. QED
  BY <1>7, <1>8, <1>9, McpNextMoves

\* Once there is a task, nothing disturbs it, and its run is the only one.
LEMMA TaskAlone ==
  ASSUME McpTypeInv, McpTypeInv', [MNext]_mcpVars, Single', task # "none"
  PROVE  /\ handle = 1 /\ handle' = 1 /\ Len(server) = 1 /\ Len(server') = 1
         /\ server[1] # "asked" /\ ~Disturb
         /\ \A s \in Ended : server[handle] = s => server'[handle'] = s
<1>1. /\ Len(server) \in Nat /\ Len(server') \in Nat /\ Len(server) <= Len(server')
      /\ \A k \in 1..Len(server) : server[k] \in Ended => server'[k] = server[k]
  BY EndedRunsStay
<1>2. handle' = handle /\ handle \in Nat /\ handle <= Len(server) /\ handle # 0
      /\ server[handle] # "asked"
  BY DisturbancesStay DEF McpTypeInv, RowsOK
<1>3. Len(server') <= 1 /\ ~Disturb
  BY DisturbancesStay, SingleBefore DEF Single
<1>4. handle = 1 /\ Len(server) = 1 /\ Len(server') = 1
  BY <1>1, <1>2, <1>3
<1>5. QED
  BY <1>1, <1>2, <1>3, <1>4

\* Nobody is called, and nobody is answered but by the task.
LEMMA FollowedAnswers ==
  ASSUME McpTypeInv, McpTypeInv', [MNext]_mcpVars, Single', TurnsInv, LeasesInv, FollowedInv,
         task # "none", NEW c \in Thread, MovesOf(c), Is(c, "replied")'
  PROVE  /\ thread'[c].way # "invoke"
         /\ thread'[c].way = "resume" => thread'[c].reply \in NoReply
         /\ thread'[c].way = "poll" /\ thread'[c].reply = "failed" => server'[handle'] = "failed"
<1>1. /\ handle = 1 /\ handle' = 1 /\ Len(server) = 1 /\ Len(server') = 1
      /\ server[1] # "asked" /\ ~Disturb
  BY TaskAlone
<1>2. ~LoseReply(c)
  BY <1>1 DEF LoseReply
<1>3. Understood(c) => Way(c) # "resume" \/ Is(c, "idle")
  <2>1. ASSUME Understood(c), Way(c) = "resume", ~Is(c, "idle") PROVE FALSE
    <3>1. thread[c].cont \in 1..Len(conts)
      BY <2>1, Working DEF McpTypeInv, ThreadOK
    <3>2. conts[thread[c].cont].run = 1
      <4>1. conts[thread[c].cont] \in RunRow
        BY <3>1, ElementOfSeq DEF McpTypeInv, RowsOK
      <4>2. conts[thread[c].cont].run <= 1
        BY <1>1, <3>1 DEF McpTypeInv, RowsOK
      <4>3. QED
        BY <4>1, <4>2, SlotsAssumption DEF RunRow
    <3>3. server[1] = "asked"
      BY <2>1, <3>2 DEF Understood, RunOf
    <3>4. QED
      BY <1>1, <3>3
  <2>2. QED
    BY <2>1
<1>4. CASE Fault(c)
  <2>1. Is(c, "sent") /\ ~Understood(c) /\ ~Is(c, "idle")
    BY <1>1, <1>4 DEF Fault, Is
  <2>2. PICK r \in {"fault", "rejected"} : Answer(c, r, 0)
    BY <1>4 DEF Fault
  <2>3. thread'[c].way = Way(c) /\ thread'[c].reply = r
    BY <2>1, <2>2, AfterMove
  <2>4. Way(c) \notin {"invoke", "poll"}
    BY <2>1 DEF Understood
  <2>5. QED
    BY <2>3, <2>4 DEF NoReply
<1>5. CASE Serve(c)
  <2>1. Is(c, "sent") /\ Understood(c) /\ ~Is(c, "idle")
    BY <1>5 DEF Serve, Is
  <2>2. PICK o \in Results(c) : ServerHandles(c, o) /\ \E k : Answer(c, o.reply, k)
    BY <1>5 DEF Serve
  <2>3. thread'[c].way = Way(c) /\ thread'[c].reply = o.reply
    BY <2>1, <2>2, AfterMove
  <2>4. Way(c) # "invoke"
    <3>1. ASSUME Way(c) = "invoke" PROVE FALSE
      <4>1. server' = Append(server, o.now) /\ server \in Seq(ServerRun)
        BY <2>2, <3>1 DEF ServerHandles, McpTypeInv, RowsOK
      <4>2. Len(server') = Len(server) + 1
        BY <2>1, <2>2, <3>1, <4>1 DEF ServerHandles
      <4>3. QED
        BY <1>1, <4>2
    <3>2. QED
      BY <3>1
  <2>5. CASE Way(c) = "poll"
    <3>1. o.reply = server[handle]
      BY <2>5 DEF Results, Outcome
    <3>2. server[handle] = "failed" => server'[handle'] = "failed"
      BY TaskAlone DEF Ended
    <3>3. QED
      BY <2>3, <2>5, <3>1, <3>2
  <2>6. QED
    BY <1>3, <2>1, <2>3, <2>4, <2>5
<1>6. CASE SendRequest(c) /\ Way(c) = "invoke"
        /\ ~(action[call] \in {"running", "waiting_external"} /\ LeaseHeld(c))
  <2>1. Is(c, "begun") /\ ~Is(c, "idle")
    BY <1>6 DEF SendRequest, Is
  <2>2. Open /\ LeaseHeld(c)
    BY <1>6, <2>1 DEF TurnsInv, LeasesInv, Owner, Is
  <2>3. QED
    BY <1>6, <2>2 DEF Open
<1>7. CASE /\ Raise(c) /\ Way(c) = "invoke"
           /\ Unknown(c) \/ RecordInputRequired(c) \/ RecordTask(c) \/ BeginCompletion(c)
  <2>1. CASE Unknown(c) \/ RecordInputRequired(c) \/ RecordTask(c)
    <3>1. Is(c, "replied")
      BY <2>1 DEF Unknown, RecordInputRequired, RecordTask, Replied
    <3>2. QED
      BY <1>7, <3>1 DEF FollowedInv, FollowedThread
  <2>2. CASE BeginCompletion(c)
    <3>1. Is(c, "ended") /\ ~Is(c, "idle")
      BY <2>2 DEF BeginCompletion, Is
    <3>2. action[call] = "waiting_external" /\ LeaseHeld(c)
      BY <3>1 DEF TurnsInv, LeasesInv
    <3>3. GoOn(c, "completing")
      BY <2>2, <3>2 DEF BeginCompletion
    <3>4. Is(c, "completing")'
      BY <3>1, <3>3, AfterMove DEF Is
    <3>5. QED
      BY <3>4 DEF Is
  <2>3. QED
    BY <1>7, <2>1, <2>2
<1>8. QED
  BY <1>2, <1>4, <1>5, <1>6, <1>7, Arrives DEF Is

\* The row of the task is written, and the thread that writes it is the only one
\* that has a reply.
LEMMA TaskOpens ==
  ASSUME McpTypeInv, [MNext]_mcpVars, task = "none", task' # "none"
  PROVE  \E c \in Thread : /\ MovesOf(c) /\ RecordTask(c) /\ Open
                           /\ SetAction(call, "waiting_external")
                           /\ Rest(c) \/ (GoOn(c, "ended") /\ Reply(c) = "completed")
<1>1. ~MovesOfNone /\ ~UNCHANGED mcpVars
  BY DEF MovesOfNone, Lapse, Progress, User, Interfere, Finalize, mcpRows, mcpVars
<1>2. PICK c \in Thread : MovesOf(c)
  BY <1>1, McpNextMoves
<1>3. ThreadStep(c)
  BY <1>2 DEF MovesOf, ToInvoke, ToResume, ToUpdate, AskCancel, Fault, LoseReply, ThreadCrash,
              ClaimPoll, Taking, mcpRows
<1>4. ~(\/ Start(c) \/ SendRequest(c) \/ Serve(c) \/ Complete(c) \/ Unknown(c) \/ Abandon(c)
        \/ RecordInputRequired(c) \/ BeginCompletion(c) \/ CompleteTask(c)
        \/ FinalizeTaskCancelled(c) \/ Finish(c) \/ Close(c) \/ CancelAcknowledged(c))
  BY DEF Start, SendRequest, Serve, Complete, Unknown, Abandon, RecordInputRequired,
         BeginCompletion, CompleteTask, FinalizeTaskCancelled, Finish, Close,
         CancelAcknowledged, mcpRows, Raise
<1>5. ASSUME Observe(c) \/ UpdateAcknowledged(c) PROVE FALSE
  <2>1. Way(c) \in {"poll", "update"} /\ ~Is(c, "idle")
    BY <1>5 DEF Observe, UpdateAcknowledged, Replied, Is
  <2>2. QED
    BY <2>1, Working DEF McpTypeInv, ThreadOK
<1>6. RecordTask(c) /\ ~Raise(c)
  BY <1>3, <1>4, <1>5 DEF ThreadStep, Raise, mcpRows
<1>7. QED
  BY <1>2, <1>6 DEF RecordTask, Replied

\* What the calls of a task have done, as the thread or the row tells it.
LEMMA FollowedStep ==
  ASSUME McpTypeInv, McpTypeInv', [MNext]_mcpVars, Single', TurnsInv, LeasesInv, FollowedInv
  PROVE  FollowedInv'
<1> SUFFICES ASSUME task' # "none" PROVE FollowedInv'
  BY DEF FollowedInv
<1>1. CASE task = "none"
  <2>1. PICK c \in Thread : /\ MovesOf(c) /\ RecordTask(c) /\ Open
                            /\ SetAction(call, "waiting_external")
                            /\ Rest(c) \/ (GoOn(c, "ended") /\ Reply(c) = "completed")
    BY <1>1, TaskOpens
  <2>2. action'[call] = "waiting_external"
    BY <2>1, McpMoves DEF McpTypeInv
  <2>3. Is(c, "replied") /\ Way(c) \in {"invoke", "resume"} /\ Owner(c) /\ ~Is(c, "idle")
    BY <2>1 DEF RecordTask, Replied, Owner, Is
  <2>4. \/ Is(c, "idle")'
        \/ Is(c, "ended")' /\ thread'[c].reply = "completed"
    BY <2>1, <2>3, AfterMove DEF Is
  <2>5. ASSUME NEW d \in Thread \ {c}
        PROVE  ~Is(d, "replied")' /\ ~Is(d, "ended")' /\ ~Is(d, "completing")'
    <3>1. thread'[d] = thread[d] /\ ~Settling(d)
      BY <2>1, <2>3, OneMoves, TurnsAlone
    <3>2. ASSUME Is(d, "replied") PROVE FALSE
      <4>1. ~Is(d, "idle") /\ thread[d] \in AtWork /\ ThreadOK(d)
        BY <3>2, Working DEF Is, McpTypeInv
      <4>2. Way(d) \in {"invoke", "resume"}
        BY <1>1, <4>1 DEF ThreadOK
      <4>3. QED
        BY <3>1, <3>2, <4>2 DEF Settling, Owner, Is
    <3>3. QED
      BY <3>1, <3>2 DEF Settling, Owner, Is
  <2>6. \A d \in Thread : ~Is(d, "replied")' /\ ~Is(d, "completing")'
    BY <2>4, <2>5 DEF Is
  <2>7. \A d \in Thread : thread'[d].pc \in {"ended", "completing"} => thread'[d].reply # "failed"
    BY <2>4, <2>5 DEF Is
  <2>8. QED
    BY <2>2, <2>6, <2>7 DEF FollowedInv, FollowedThread, Reply, Is
<1>2. CASE task # "none"
  <2>1. server[handle] = "failed" => server'[handle'] = "failed"
    BY <1>2, TaskAlone DEF Ended
  <2>2. ASSUME action'[call] = "failed" PROVE server[handle] = "failed"
    <3>1. CASE action[call] = "failed"
      BY <1>2, <3>1 DEF FollowedInv
    <3>2. ASSUME NEW c \in Thread, Complete(c) /\ Reply(c) # "ok"
          PROVE  server[handle] = "failed"
      <4>1. Is(c, "replied") /\ (Way(c) = "invoke" \/ (Way(c) = "resume" /\ Reply(c) = "bad"))
        BY <3>2 DEF Complete, Replied
      <4>2. QED
        BY <1>2, <4>1 DEF FollowedInv, FollowedThread, NoReply
    <3>3. ASSUME NEW c \in Thread, CompleteTask(c) /\ Reply(c) # "completed"
          PROVE  server[handle] = "failed"
      BY <1>2, <3>3 DEF FollowedInv, FollowedThread, CompleteTask, Is
    <3>4. QED
      BY <2>2, <3>1, <3>2, <3>3, FailsBy
  <2>3. ASSUME NEW c \in Thread, UNCHANGED thread[c] PROVE FollowedThread(c)'
    BY <1>2, <2>1, <2>3 DEF FollowedInv, FollowedThread, Is, Way, Reply
  <2>4. ASSUME NEW c \in Thread, MovesOf(c) PROVE FollowedThread(c)'
    <3>1. Is(c, "replied")' =>
                    /\ Way(c)' # "invoke"
                    /\ Way(c)' = "resume" => Reply(c)' \in NoReply
                    /\ Way(c)' = "poll" /\ Reply(c)' = "failed" => server'[handle'] = "failed"
      BY <1>2, <2>4, FollowedAnswers DEF Way, Reply
    <3>2. CASE Is(c, "ended")'
      <4>1. Observe(c) /\ Reply(c)' = Reply(c)
        BY <1>2, <2>4, <3>2, Arrives DEF Is, Reply
      <4>2. Reply(c) = "failed" => server[handle] = "failed"
        BY <1>2, <4>1 DEF FollowedInv, FollowedThread, Observe, Replied
      <4>3. QED
        BY <2>1, <3>2, <4>1, <4>2 DEF FollowedThread, Is
    <3>3. CASE Is(c, "completing")'
      <4>1. BeginCompletion(c) /\ Reply(c)' = Reply(c)
        BY <2>4, <3>3, Arrives DEF Is, Reply
      <4>2. Is(c, "ended") /\ Reply(c) \in {"completed", "failed"}
        BY <4>1 DEF BeginCompletion
      <4>3. Reply(c) = "failed" => server[handle] = "failed"
        BY <1>2, <4>2 DEF FollowedInv, FollowedThread, Is
      <4>4. QED
        BY <2>1, <3>3, <4>1, <4>2, <4>3 DEF FollowedThread, Is
    <3>4. QED
      BY <3>1, <3>2, <3>3 DEF FollowedThread, Is
  <2>5. ASSUME NEW c \in Thread PROVE MovesOf(c) \/ UNCHANGED thread[c]
    <3>1. CASE MovesOfNone \/ UNCHANGED mcpVars
      BY <3>1 DEF MovesOfNone, Lapse, Progress, User, Interfere, Finalize, mcpVars
    <3>2. ASSUME NEW d \in Thread, MovesOf(d) PROVE MovesOf(c) \/ UNCHANGED thread[c]
      BY <3>2, OneMoves
    <3>3. QED
      BY <3>1, <3>2, McpNextMoves
  <2>6. ASSUME NEW c \in Thread PROVE FollowedThread(c)'
    <3>1. CASE MovesOf(c)
      BY <2>4, <3>1
    <3>2. CASE UNCHANGED thread[c]
      BY <2>3, <3>2
    <3>3. QED
      BY <2>5, <3>1, <3>2
  <2>7. action'[call] = "failed" => server'[handle'] = "failed"
    BY <2>1, <2>2
  <2>8. QED
    BY <2>6, <2>7 DEF FollowedInv
<1>3. QED
  BY <1>1, <1>2

\* Before there is a task, the thread that has the action is the only one with a
\* request, a reply or an outcome.
LEMMA OwnerAlone ==
  ASSUME McpTypeInv, TurnsInv, FreshInv, task = "none"
  PROVE  /\ \A c \in Thread : /\ ~Is(c, "idle") => Way(c) \in {"invoke", "resume"}
                                                   /\ thread[c].job = 0
                              /\ thread[c].pc \notin {"ended", "completing"}
                              /\ thread[c].pc \in {"begun", "sent", "replied"} => Open
         /\ \A c \in Thread : thread[c].pc \in {"begun", "sent", "replied"}
              => \A d \in Thread \ {c} : thread[d].pc \in {"idle", "looked", "closing"}
<1>1. \A c \in Thread : ~Is(c, "idle") => /\ Way(c) \in {"invoke", "resume"}
                                          /\ thread[c].job = 0
                                          /\ thread[c] \in AtWork
  BY Working DEF McpTypeInv, ThreadOK, AtWork, Way
<1>2. \A c \in Thread : thread[c].pc \notin {"ended", "completing"}
  BY Working DEF McpTypeInv, ThreadOK, Is
<1>3. \A c \in Thread : thread[c].pc \in {"begun", "sent", "replied"} => Owner(c)
  BY <1>1 DEF Owner, Is
<1>4. \A c \in Thread : Is(c, "finish") => ~Open
  BY DEF FreshInv, FreshThread, Open
<1>5. ASSUME NEW c \in Thread, thread[c].pc \in {"begun", "sent", "replied"},
             NEW d \in Thread \ {c}
      PROVE  thread[d].pc \in {"idle", "looked", "closing"}
  <2>1. ~Settling(d) /\ Open
    BY <1>3, <1>5, TurnsAlone
  <2>2. thread[d].pc \notin {"begun", "sent", "replied", "finish", "ended", "completing"}
    BY <1>2, <1>3, <1>4, <2>1 DEF Settling, Is
  <2>3. QED
    BY <1>1, <2>2 DEF AtWork, Is
<1>6. QED
  BY <1>1, <1>2, <1>3, <1>5 DEF TurnsInv

\* The thread that has the action gives nobody else a request or an outcome.
LEMMA FreshByOwner ==
  ASSUME McpTypeInv, TurnsInv, FreshInv, task = "none", NEW c \in Thread, MovesOf(c),
         thread[c].pc \in {"begun", "sent", "replied"}, FreshAction', FreshThread(c)'
  PROVE  FreshInv'
<1>1. ASSUME NEW d \in Thread \ {c} PROVE FreshThread(d)'
  <2>1. thread'[d].pc \in {"idle", "looked", "closing"}
    BY <1>1, OwnerAlone, OneMoves
  <2>2. QED
    BY <2>1 DEF FreshThread, Is
<1>2. QED
  BY <1>1 DEF FreshInv

\* The request of the owner, before there is a task.
LEMMA FreshRequest ==
  ASSUME McpTypeInv, McpTypeInv', [MNext]_mcpVars, Single', TurnsInv, LeasesInv, FreshInv,
         task = "none", NEW c \in Thread, MovesOf(c),
         SendRequest(c) \/ Serve(c) \/ Fault(c) \/ LoseReply(c)
  PROVE  FreshInv'
<1>1. thread[c].pc \in {"begun", "sent"} /\ ~Is(c, "idle") /\ Owner(c)
  BY OwnerAlone DEF SendRequest, Serve, Fault, LoseReply, Is, Owner
<1>2. UNCHANGED vars
  BY DEF SendRequest, Serve, Fault, LoseReply
<1>3. Open /\ LeaseHeld(c) /\ Way(c) \in {"invoke", "resume"}
  BY <1>1, OwnerAlone DEF LeasesInv
<1>4. OnlyAsked /\ (disturbed = 0 => run = "running")
  BY <1>1 DEF FreshInv, FreshThread
<1>5. FreshAction'
  <2>1. action'[call] = "running"
    BY <1>2, <1>3 DEF Open, vars, actionVars
  <2>2. QED
    BY <2>1 DEF FreshAction, Undispatched
<1>6. SUFFICES FreshThread(c)'
  BY <1>1, <1>5, FreshByOwner
<1>7. run' = run
  BY <1>2 DEF vars
<1>8. Disturb => disturbed = 0 /\ disturbed' = 1
  BY SingleBefore
<1>9. UNCHANGED server => (OnlyAsked' = OnlyAsked)
  BY DEF OnlyAsked
<1>10. \A r, k : Answer(c, r, k) =>
         thread'[c].pc = "replied" /\ Reply(c)' = r /\ thread'[c].of = k
  BY <1>1, AfterMove DEF Reply
<1>11. CASE SendRequest(c)
  <2>1. GoOn(c, "sent") /\ UNCHANGED <<server, disturbed>>
    BY <1>3, <1>11 DEF SendRequest, Open, serverVars
  <2>2. thread'[c].pc = "sent"
    BY <1>1, <2>1, AfterMove
  <2>3. QED
    BY <1>4, <1>7, <1>9, <2>1, <2>2 DEF FreshThread, Is
<1>12. CASE Fault(c)
  <2>1. Understood(c)
    <3>1. CASE Way(c) = "resume"
      <4>1. thread[c].cont \in 1..Len(conts)
        BY <1>1, <3>1, Working DEF McpTypeInv, ThreadOK
      <4>2. conts[thread[c].cont].run \in 1..Len(server)
        <5>1. conts[thread[c].cont] \in RunRow
          BY <4>1, ElementOfSeq DEF McpTypeInv, RowsOK
        <5>2. conts[thread[c].cont].run <= Len(server)
          BY <4>1 DEF McpTypeInv, RowsOK
        <5>3. Len(server) \in Nat
          BY EndedRunsStay
        <5>4. QED
          BY <5>1, <5>2, <5>3, SlotsAssumption DEF RunRow
      <4>3. QED
        BY <1>4, <3>1, <4>2 DEF OnlyAsked, Understood, RunOf
    <3>2. QED
      BY <1>3, <3>1 DEF Understood
  <2>2. disturbed' = 1 /\ UNCHANGED server
    BY <1>8, <1>12, <2>1 DEF Fault, serverVars
  <2>3. PICK r \in {"fault", "rejected"} : Answer(c, r, 0)
    BY <1>12 DEF Fault
  <2>4. QED
    BY <1>4, <1>9, <1>10, <2>2, <2>3 DEF FreshThread, Is
<1>13. CASE LoseReply(c)
  <2>1. Disturb /\ Answer(c, "lost", 0)
    BY <1>13 DEF LoseReply
  <2>2. QED
    BY <1>4, <1>7, <1>8, <1>10, <2>1 DEF FreshThread, Is
<1>14. CASE Serve(c)
  <2>1. Is(c, "sent") /\ Understood(c) /\ UNCHANGED disturbed
    BY <1>14 DEF Serve
  <2> DEFINE k == IF Way(c) = "invoke" THEN Len(server') ELSE RunOf(c)
  <2>2. PICK o \in Results(c) : ServerHandles(c, o) /\ Answer(c, o.reply, k)
    BY <1>14 DEF Serve
  <2>3. o.reply \in {"ok", "bad", "working", "completed", "asked"}
    BY <1>3 DEF Results, Outcome
  <2>4. /\ k \in 1..Len(server') /\ (o.reply = "bad" => server'[k] = "failed")
        /\ o.reply = "asked" => server'[k] = "asked"
    BY <1>3, <2>1, <2>2, <2>3, ServerMoves DEF NoReply, ServerRun, Ended
  <2> HIDE DEF k
  <2>5. o.reply = "asked" => OnlyAsked'
    <3>1. Len(server') <= 1 /\ Len(server') \in Nat
      BY EndedRunsStay DEF Single
    <3>2. \A i \in 1..Len(server') : i = k
      BY <2>4, <3>1
    <3>3. QED
      BY <2>4, <3>2 DEF OnlyAsked
  <2>6. QED
    BY <1>4, <1>7, <1>10, <2>1, <2>2, <2>3, <2>4, <2>5 DEF FreshThread, Is
<1>15. QED
  BY <1>11, <1>12, <1>13, <1>14

\* What the owner makes of the reply, before there is a task.
LEMMA FreshReply ==
  ASSUME McpTypeInv, McpTypeInv', [MNext]_mcpVars, Single', TurnsInv, FreshInv,
         task = "none", task' = "none", NEW c \in Thread, MovesOf(c),
         \/ Complete(c) \/ Unknown(c) \/ Abandon(c) \/ RecordInputRequired(c) \/ RecordTask(c)
  PROVE  FreshInv'
<1>1. Is(c, "replied") /\ ~Is(c, "idle") /\ Still
  BY DEF Complete, Unknown, Abandon, RecordInputRequired, RecordTask, Replied, Is
<1>2. Open /\ Way(c) \in {"invoke", "resume"}
  BY <1>1, OwnerAlone DEF Is
<1>3. /\ Reply(c) \in {"asked", "fault", "rejected"} => OnlyAsked
      /\ Reply(c) \in {"lost", "fault"} => disturbed = 1
      /\ Reply(c) = "bad" => server[thread[c].of] = "failed"
      /\ disturbed = 0 \/ Reply(c) = "lost" => run = "running"
  BY <1>1 DEF FreshInv, FreshThread
<1>4. server' = server /\ disturbed' = disturbed /\ (OnlyAsked' = OnlyAsked)
  BY <1>1 DEF Still, serverVars, OnlyAsked
<1>5. SUFFICES FreshAction' /\ FreshThread(c)'
  BY <1>1, FreshByOwner DEF Is
<1>6. Rest(c) => FreshThread(c)'
  BY AfterMove DEF FreshThread, Is
<1>7. \A s : action'[call] = s /\ s \in {"running", "succeeded"} => FreshAction'
  BY DEF FreshAction, Undispatched
<1>8. TypeOK
  BY DEF McpTypeInv
<1>9. CASE UNCHANGED <<vars, mcpRows>> /\ Rest(c)
  <2>1. action'[call] = "running"
    BY <1>2, <1>9 DEF Open, vars, actionVars
  <2>2. QED
    BY <1>6, <1>7, <1>9, <2>1
<1>10. CASE Complete(c)
  <2>1. /\ CompleteAction(call, Reply(c) = "ok", 0)
        /\ \E r : Become(c, [thread[c] EXCEPT !.pc = "finish", !.reply = r])
    <3>1. PICK r : r = IF thread[c].reply = "ok" THEN "ok" ELSE "bad"
      OBVIOUS
    <3>2. QED
      BY <1>2, <1>10, <3>1 DEF Complete
  <2>2. Is(c, "finish")'
    BY <1>1, <2>1, Working DEF Become, AtWork, McpTypeInv, ThreadsOK, Is
  <2>3. action'[call] = IF Reply(c) = "ok" THEN "succeeded" ELSE "failed"
    BY <1>8, <2>1, McpMoves DEF CompleteAction
  <2>4. Reply(c) # "ok" => \A k \in 1..Len(server) : server[k] \in {"asked", "failed"}
    <3>1. CASE Reply(c) = "bad"
      <4>1. thread[c].of \in 1..Len(server)
        BY <1>1, <1>2, <3>1, Working DEF McpTypeInv, ThreadOK, CallReply
      <4>2. Len(server) <= 1 /\ Len(server) \in Nat
        BY EndedRunsStay, SingleBefore DEF Single
      <4>3. \A k \in 1..Len(server) : k = thread[c].of
        BY <4>1, <4>2
      <4>4. QED
        BY <1>3, <3>1, <4>3
    <3>2. CASE Reply(c) \in {"fault", "rejected"}
      BY <1>3, <3>2 DEF OnlyAsked
    <3>3. QED
      BY <1>10, <3>1, <3>2 DEF Complete, Replied
  <2>5. FreshAction'
    BY <1>4, <2>3, <2>4 DEF FreshAction, Undispatched
  <2>6. FreshThread(c)'
    BY <2>2, <2>3 DEF FreshThread, Is
  <2>7. QED
    BY <2>5, <2>6
<1>11. CASE Unknown(c)
  <2>1. Reply(c) = "lost" \/ (Way(c) = "resume" /\ Reply(c) = "fault")
    BY <1>2, <1>11 DEF Unknown, Replied
  <2>2. CASE MarkOutcomeUnknown(call) /\ Rest(c)
    <3>1. action'[call] = "outcome_unknown"
      BY <1>8, <2>2, McpMoves DEF MarkOutcomeUnknown
    <3>2. FreshAction'
      BY <1>3, <1>4, <2>1, <3>1 DEF FreshAction, Undispatched
    <3>3. QED
      BY <1>6, <2>2, <3>2
  <2>3. CASE Raise(c)
    <3>1. CASE Way(c) = "resume"
      BY <1>9, <2>3, <3>1 DEF Raise
    <3>2. CASE Way(c) = "invoke"
      <4>1. run = "running"
        BY <1>3, <2>1, <3>2
      <4>2. CanBlock
        BY <1>8, <4>1, McpMoves DEF CanBlock
      <4>3. Rest(c)
        BY <1>2, <1>11, <4>2 DEF Unknown
      <4>4. QED
        BY <1>9, <2>3, <4>3 DEF Raise
    <3>3. QED
      BY <1>2, <3>1, <3>2
  <2>4. QED
    BY <1>11, <2>2, <2>3 DEF Unknown
<1>12. CASE Abandon(c)
  BY <1>9, <1>12 DEF Abandon
<1>13. CASE RecordInputRequired(c)
  <2>1. OnlyAsked /\ Reply(c) = "asked"
    BY <1>3, <1>13 DEF RecordInputRequired, Replied
  <2>2. CASE SetAction(call, "waiting_input") /\ Rest(c)
    <3>1. action'[call] = "waiting_input"
      BY <1>8, <2>2, McpMoves
    <3>2. FreshAction'
      BY <1>4, <2>1, <3>1 DEF FreshAction
    <3>3. QED
      BY <1>6, <2>2, <3>2
  <2>3. CASE Raise(c) /\ ~Rest(c)
    <3>1. Answer(c, "rejected", 0) /\ UNCHANGED vars
      BY <2>3 DEF Raise
    <3>2. thread'[c].pc = "replied" /\ Reply(c)' = "rejected"
      BY <1>1, <3>1, AfterMove DEF Reply
    <3>3. run' = run /\ action'[call] = "running"
      BY <1>2, <3>1 DEF Open, vars, actionVars
    <3>4. FreshThread(c)'
      BY <1>3, <1>4, <2>1, <3>2, <3>3 DEF FreshThread, Is
    <3>5. QED
      BY <1>7, <3>3, <3>4
  <2>4. CASE Raise(c) /\ Rest(c)
    BY <1>9, <2>4 DEF Raise
  <2>5. QED
    BY <1>13, <2>2, <2>3, <2>4 DEF RecordInputRequired
<1>14. ~RecordTask(c)
  <2>1. ASSUME RecordTask(c) PROVE FALSE
    <3>1. task' = Reply(c) /\ Reply(c) \in {"working", "completed"}
      BY <1>2, <2>1 DEF RecordTask, Replied
    <3>2. QED
      BY <3>1
  <2>2. QED
    BY <2>1
<1>15. QED
  BY <1>10, <1>11, <1>12, <1>13, <1>14

\* The other steps of a thread, before there is a task.
LEMMA FreshTaken ==
  ASSUME McpTypeInv, McpTypeInv', [MNext]_mcpVars, Single', TurnsInv, LeasesInv, FreshInv,
         task = "none", task' = "none", NEW c \in Thread, MovesOf(c),
         \/ Start(c) \/ Finish(c) \/ Close(c) \/ ThreadCrash(c) \/ Is(c, "idle")
  PROVE  FreshInv'
<1>1. \A d \in Thread \ {c} : thread'[d] = thread[d]
  BY OneMoves
<1>2. UNCHANGED server /\ (OnlyAsked' = OnlyAsked)
  <2>1. UNCHANGED server
    <3>1. CASE Start(c) \/ Finish(c) \/ Close(c) \/ ThreadCrash(c)
      BY <3>1 DEF Start, Finish, Close, ThreadCrash, Still, serverVars
    <3>2. CASE Is(c, "idle")
      BY <3>2, IdleMoves
         DEF ToInvoke, ToResume, ToUpdate, Taking, AskCancel, ClaimPoll, serverVars
    <3>3. QED
      BY <3>1, <3>2
  <2>2. QED
    BY <2>1 DEF OnlyAsked
<1>3. Disturb => disturbed = 0 /\ disturbed' = 1
  BY SingleBefore
<1>4. FreshAction /\ \A d \in Thread : FreshThread(d)
  BY DEF FreshInv
<1>5. UNCHANGED <<action, disturbed>> => FreshAction'
  BY <1>2, <1>4 DEF FreshAction
<1>6. UNCHANGED <<action, run, disturbed>> => \A d \in Thread \ {c} : FreshThread(d)'
  <2>1. ASSUME UNCHANGED <<action, run, disturbed>>, NEW d \in Thread \ {c}
        PROVE  FreshThread(d)'
    <3>1. FreshThread(d) /\ thread'[d] = thread[d]
      BY <1>1, <1>4
    <3>2. QED
      BY <1>2, <2>1, <3>1 DEF FreshThread, Is, Reply
  <2>2. QED
    BY <2>1
<1>7. thread'[c].pc \in {"idle", "looked", "closing"} => FreshThread(c)'
  BY DEF FreshThread, Is
<1>8. CASE Start(c)
  <2>1. UNCHANGED disturbed /\ Is(c, "looked") /\ ~Is(c, "idle")
    BY <1>8 DEF Start, Is
  <2>2. CASE EnsureRunning /\ UNCHANGED thread
    <3>1. run' = "running" /\ UNCHANGED action
      BY <2>2 DEF EnsureRunning, Move, actionVars
    <3>2. \A d \in Thread : FreshThread(d)'
      BY <1>2, <1>4, <2>1, <2>2, <3>1 DEF FreshThread, Is, Reply
    <3>3. QED
      BY <1>5, <2>1, <3>1, <3>2 DEF FreshInv
  <2>3. CASE BeginDispatch(call, 0) /\ GoOn(c, "begun")
    <3>1. action[call] = "ready" /\ run = "running" /\ run' = run
          /\ StartAttempt(call, 0, attempts[call])
      BY <2>3 DEF BeginDispatch, StartAttempt
    <3>2. action'[call] = "running"
      BY <3>1, McpMoves DEF McpTypeInv
    <3>3. OnlyAsked
      BY <1>4, <3>1 DEF FreshAction, Undispatched
    <3>4. thread'[c].pc = "begun"
      BY <2>1, <2>3, AfterMove
    <3>5. FreshThread(c)'
      BY <1>2, <3>1, <3>3, <3>4 DEF FreshThread, Is
    <3>6. FreshAction'
      BY <3>2 DEF FreshAction, Undispatched
    <3>7. ASSUME NEW d \in Thread \ {c} PROVE FreshThread(d)'
      <4>1. ~Is(d, "finish")
        BY <1>4, <3>1 DEF FreshThread
      <4>2. thread[d].pc \notin {"begun", "sent", "replied"}
        BY <3>1, OwnerAlone DEF Open
      <4>3. QED
        BY <1>1, <4>1, <4>2 DEF FreshThread, Is
    <3>8. QED
      BY <3>5, <3>6, <3>7 DEF FreshInv
  <2>4. CASE Rest(c) /\ UNCHANGED vars
    <3>1. Is(c, "idle")' /\ UNCHANGED <<action, run>>
      BY <2>4, AfterMove DEF vars, actionVars
    <3>2. QED
      BY <1>5, <1>6, <1>7, <2>1, <3>1 DEF FreshInv, Is
  <2>5. QED
    BY <1>8, <2>2, <2>3, <2>4 DEF Start
<1>9. CASE Finish(c)
  <2>1. UNCHANGED <<action, disturbed>> /\ Is(c, "finish") /\ ~Is(c, "idle")
    BY <1>9 DEF Finish, FinishImplicit, EndRun, Still, vars, actionVars, Is
  <2>2. thread'[c].pc \in {"idle", "closing"}
    BY <1>9, <2>1, AfterMove DEF Finish, Is
  <2>3. action[call] \in {"succeeded", "failed"}
    BY <1>4, <2>1 DEF FreshThread
  <2>4. ASSUME NEW d \in Thread \ {c} PROVE FreshThread(d)'
    <3>1. thread[d].pc \notin {"begun", "sent", "replied"}
      BY <2>3, OwnerAlone DEF Open
    <3>2. QED
      BY <1>1, <1>4, <2>1, <3>1 DEF FreshThread, Is
  <2>5. QED
    BY <1>5, <1>7, <2>1, <2>2, <2>4 DEF FreshInv
<1>10. CASE Close(c)
  <2>1. UNCHANGED <<action, run, disturbed>> /\ Is(c, "idle")'
    BY <1>10, AfterMove DEF Close, Still, vars, actionVars
  <2>2. QED
    BY <1>5, <1>6, <1>7, <2>1 DEF FreshInv, Is
<1>11. CASE ThreadCrash(c)
  <2>1. UNCHANGED <<action, run>> /\ Is(c, "idle")' /\ disturbed = 0 /\ disturbed' = 1
    BY <1>3, <1>11, AfterMove DEF ThreadCrash, vars, actionVars
  <2>2. FreshAction'
    BY <1>2, <1>4, <2>1 DEF FreshAction
  <2>3. ASSUME NEW d \in Thread \ {c} PROVE FreshThread(d)'
    <3>1. FreshThread(d) /\ thread'[d] = thread[d]
      BY <1>1, <1>4
    <3>2. QED
      BY <1>2, <2>1, <3>1 DEF FreshThread, Is, Reply
  <2>4. QED
    BY <1>7, <2>1, <2>2, <2>3 DEF FreshInv, Is
<1>12. CASE Is(c, "idle")
  <2>1. ~AskCancel(c) /\ \A j \in Slot : ~ClaimPoll(c, j)
    <3>1. \A j \in Slot : polls[j] = "done"
      BY DEF McpTypeInv, RowsOK
    <3>2. QED
      BY <3>1 DEF AskCancel, ClaimPoll
  <2>2. Is(c, "looked")'
    BY <1>12, <2>1, TakesItsWay
  <2>3. UNCHANGED <<action, run, disturbed>>
    <3>1. ToInvoke(c) \/ ToResume(c) \/ ToUpdate(c)
      BY <1>12, <2>1, IdleMoves
    <3>2. QED
      BY <3>1 DEF ToInvoke, ToResume, ToUpdate, Taking, vars, actionVars
  <2>4. QED
    BY <1>5, <1>6, <1>7, <2>2, <2>3 DEF FreshInv, Is
<1>13. QED
  BY <1>8, <1>9, <1>10, <1>11, <1>12

\* The steps of nobody's thread, before there is a task.
LEMMA FreshOfNobody ==
  ASSUME McpTypeInv, McpTypeInv', [MNext]_mcpVars, Single', TurnsInv, PendingInv, FreshInv,
         task = "none", MovesOfNone
  PROVE  FreshInv'
<1>1. UNCHANGED thread /\ TypeOK
  BY DEF MovesOfNone, Lapse, Progress, User, Interfere, Finalize, McpTypeInv
<1>2. FreshAction /\ \A c \in Thread : FreshThread(c)
  BY DEF FreshInv
<1>3. UNCHANGED server => (OnlyAsked' = OnlyAsked)
  BY DEF OnlyAsked
<1>4. ASSUME UNCHANGED <<server, action, disturbed>>, UNCHANGED run \/ run = "cancelling"
      PROVE  FreshInv'
  BY <1>1, <1>2, <1>3, <1>4 DEF FreshInv, FreshAction, FreshThread, Is, Reply
\* The action is not running, and becomes ready or is settled.
<1>5. ASSUME UNCHANGED server, action[call] \in Undispatched \cup {"none", "cancelled"},
             action'[call] \in Undispatched \cup {"none", "cancelled"}
      PROVE  FreshInv'
  <2>1. \A c \in Thread : thread[c].pc \notin {"begun", "sent", "replied", "finish"}
    BY <1>2, <1>5, OwnerAlone DEF Open, FreshThread, Undispatched, Is
  <2>2. \A c \in Thread : FreshThread(c)'
    BY <1>1, <2>1 DEF FreshThread, Is
  <2>3. FreshAction'
    BY <1>2, <1>3, <1>5 DEF FreshAction, Undispatched
  <2>4. QED
    BY <2>2, <2>3 DEF FreshInv
<1>6. \A j \in Slot : ~Lapse(j)
  BY SlotsAssumption DEF McpTypeInv, RowsOK, Lapse
<1>7. ASSUME NEW k \in DOMAIN server, Progress(k) PROVE FreshInv'
  <2>1. k \in 1..Len(server) /\ server[k] = "working"
    BY <1>7, LenProperties DEF Progress, McpTypeInv, RowsOK
  <2>2. UNCHANGED <<action, run, disturbed>>
    BY <1>7 DEF Progress, vars, actionVars
  <2>3. ~OnlyAsked /\ action[call] # "failed"
    BY <1>2, <2>1 DEF OnlyAsked, FreshAction
  <2>4. FreshAction'
    BY <1>2, <2>2, <2>3 DEF FreshAction
  <2>5. ASSUME NEW c \in Thread PROVE FreshThread(c)'
    <3>1. CASE Is(c, "replied") /\ Reply(c) = "bad"
      <4>1. Way(c) \in {"invoke", "resume"} /\ server[thread[c].of] = "failed"
        BY <1>2, <3>1, OwnerAlone DEF Is, FreshThread
      <4>2. thread[c].of \in 1..Len(server)
        BY <3>1, <4>1, Working DEF McpTypeInv, ThreadOK, CallReply, Is
      <4>3. server'[thread[c].of] = "failed"
        BY <4>1, <4>2, EndedRunsStay DEF Ended
      <4>4. QED
        BY <1>1, <1>2, <2>2, <3>1, <4>3 DEF FreshThread, Is, Reply
    <3>2. CASE ~(Is(c, "replied") /\ Reply(c) = "bad")
      BY <1>1, <1>2, <2>2, <2>3, <3>2 DEF FreshThread, Is, Reply
    <3>3. QED
      BY <3>1, <3>2
  <2>6. QED
    BY <2>4, <2>5 DEF FreshInv
<1>8. CASE User
  <2>1. UNCHANGED <<server, disturbed>>
    BY <1>8 DEF User, serverVars
  <2>2. CASE AdmitAction(call)
    <3>1. action[call] = "none" /\ action'[call] = "ready"
      BY <1>1, <2>2, CallAssumption DEF AdmitAction, TypeOK
    <3>2. QED
      BY <1>5, <2>1, <3>1 DEF Undispatched
  <2>3. CASE RespondAnswer(call)
    <3>1. action[call] \in {"waiting_input", "cancelled"}
      BY <2>3 DEF RespondAnswer, PendingInv
    <3>2. action'[call] = "ready"
      BY <1>1, <2>3, CallAssumption, McpMoves DEF RespondAnswer
    <3>3. QED
      BY <1>5, <2>1, <3>1, <3>2 DEF Undispatched
  <2>4. CASE RespondExpired(call) \/ TimePasses(call)
    BY <1>4, <2>1, <2>4 DEF RespondExpired, TimePasses, actionVars
  <2>5. QED
    BY <1>8, <2>2, <2>3, <2>4 DEF User
<1>9. CASE Interfere
  <2>1. disturbed = 0 /\ disturbed' = 1 /\ UNCHANGED server
    BY <1>9, SingleBefore DEF Interfere, serverVars
  <2>2. CASE action'[call] = action[call]
    <3>1. FreshAction'
      BY <1>2, <1>3, <2>1, <2>2 DEF FreshAction
    <3>2. \A c \in Thread : FreshThread(c)'
      BY <1>1, <1>2, <1>3, <2>1, <2>2 DEF FreshThread, Is, Reply
    <3>3. QED
      BY <3>1, <3>2 DEF FreshInv
  <2>3. CASE RequestCancellation \/ TerminateRun
    <3>1. action' = SettleUndispatched
      BY <2>3 DEF RequestCancellation, TerminateRun
    <3>2. \/ action'[call] = action[call]
          \/ action[call] \in Undispatched /\ action'[call] = "cancelled"
      BY <3>1, CallAssumption DEF SettleUndispatched
    <3>3. QED
      BY <1>5, <2>1, <2>2, <3>2
  <2>4. CASE BlockRun \/ FailRun
    BY <2>2, <2>4 DEF BlockRun, FailRun, EndRun, actionVars
  <2>5. \A fact : ~Reconcile(call, version[call], fact)
    BY <1>2, <2>1 DEF Reconcile, FreshAction
  <2>6. QED
    BY <1>9, <2>3, <2>4, <2>5 DEF Interfere
<1>10. CASE Finalize
  BY <1>4, <1>10 DEF Finalize, FinalizeCancellation, serverVars, actionVars
<1>11. QED
  BY <1>6, <1>7, <1>8, <1>9, <1>10 DEF MovesOfNone

\* What the only call has done, before there is a task.
LEMMA FreshStep ==
  ASSUME McpTypeInv, McpTypeInv', [MNext]_mcpVars, Single', TurnsInv, LeasesInv, PendingInv,
         FreshInv
  PROVE  FreshInv'
<1> SUFFICES ASSUME task' = "none" PROVE FreshInv'
  BY DEF FreshInv
<1>1. task = "none"
  BY DisturbancesStay
<1>2. CASE UNCHANGED mcpVars
  BY <1>1, <1>2 DEF mcpVars, vars, actionVars, mcpRows, serverVars, FreshInv, FreshAction,
                    FreshThread, OnlyAsked, Is, Reply
<1>3. CASE MovesOfNone
  BY <1>1, <1>3, FreshOfNobody
<1>4. ASSUME NEW c \in Thread, MovesOf(c) PROVE FreshInv'
  <2>1. ~Is(c, "idle") => Way(c) \in {"invoke", "resume"}
    BY <1>1, OwnerAlone
  <2>2. ~Is(c, "ended") /\ ~Is(c, "completing")
    BY <1>1, OwnerAlone DEF Is
  <2>3. ~(\/ Observe(c) \/ BeginCompletion(c) \/ CompleteTask(c) \/ FinalizeTaskCancelled(c)
          \/ UpdateAcknowledged(c) \/ CancelAcknowledged(c))
    BY <2>1, <2>2 DEF Observe, BeginCompletion, CompleteTask, FinalizeTaskCancelled,
                      UpdateAcknowledged, CancelAcknowledged, Replied, Is
  <2>4. ThreadStep(c) \/ Fault(c) \/ LoseReply(c) \/ ThreadCrash(c) \/ Is(c, "idle")
    BY <1>4 DEF MovesOf, ToInvoke, ToResume, ToUpdate, AskCancel, ClaimPoll, Taking
  <2>5. QED
    BY <1>1, <1>4, <2>3, <2>4, FreshRequest, FreshReply, FreshTaken DEF ThreadStep
<1>5. QED
  BY <1>2, <1>3, <1>4, McpNextMoves

\* With one call, every step keeps the account of it.
LEMMA SingleStep == McpTypeInv /\ McpTypeInv' /\ SingleInv /\ [MNext]_mcpVars => SingleInv'
<1> SUFFICES ASSUME McpTypeInv, McpTypeInv', SingleInv, [MNext]_mcpVars, Single'
             PROVE  (TurnsInv /\ LeasesInv /\ PendingInv /\ FreshInv /\ FollowedInv)'
  BY DEF SingleInv
<1>1. TurnsInv /\ LeasesInv /\ PendingInv /\ FreshInv /\ FollowedInv
  BY SingleBefore DEF SingleInv
<1>2. LeasesInv'
  BY <1>1, LeasesStep
<1>3. PendingInv'
  BY <1>1, PendingStep
<1>4. TurnsInv'
  BY <1>1, TurnsStep
<1>5. FreshInv'
  BY <1>1, FreshStep
<1>6. FollowedInv'
  BY <1>1, FollowedStep
<1>7. QED
  BY <1>2, <1>3, <1>4, <1>5, <1>6

\* What the action says of the tool is what the server did: a succeeded action has
\* a call that completed, and a call that is the only one does not fail although
\* it completed, as long as nothing disturbs a task, and at most one crash, lost
\* reply, fault or interference a call that has not become a task.
THEOREM CallsAreToldTruly == MSpec => []CallOutcomeIsTrue
<1>1. MInit => AppliedInv /\ SingleInv
  <2> SUFFICES ASSUME MInit PROVE AppliedInv /\ SingleInv
    OBVIOUS
  <2>1. /\ task = "none" /\ Len(server) = 0 /\ disturbed = 0
        /\ action[call] = "none" /\ request[call] = "none"
        /\ \A j \in Slot : polls[j] = "done"
        /\ \A c \in Thread : Is(c, "idle")
    BY CallAssumption DEF MInit, Init, Request, Resting, Is
  <2>2. AppliedInv
    BY <2>1 DEF AppliedInv, Good
  <2>3. NoTurn
    BY <2>1, SlotsAssumption DEF NoTurn, NoLook, WillLook, Settling, Owner, Is
  <2>4. TurnsInv
    BY <2>3 DEF TurnsInv, NoTurn, NoLook, Settling, Owner
  <2>5. OnlyAsked
    BY <2>1 DEF OnlyAsked
  <2>6. FreshInv
    BY <2>1, <2>5 DEF FreshInv, FreshAction, FreshThread, Is
  <2>7. QED
    BY <2>1, <2>2, <2>4, <2>6 DEF SingleInv, LeasesInv, PendingInv, FollowedInv
<1>2. ASSUME McpTypeInv, AppliedInv, SingleInv PROVE CallOutcomeIsTrue
  <2>1. DOMAIN server = 1..Len(server) /\ Len(server) \in Nat
    BY <1>2, LenProperties DEF McpTypeInv, RowsOK
  <2>2. action[call] = "succeeded" => \E k \in DOMAIN server : server[k] = "completed"
    BY <1>2, <2>1 DEF AppliedInv, ToolCompleted
  <2>3. ASSUME action[call] = "failed", Single, NEW k \in DOMAIN server
        PROVE  server[k] # "completed"
    <3>1. CASE task = "none"
      BY <1>2, <2>1, <2>3, <3>1 DEF SingleInv, FreshInv, FreshAction
    <3>2. CASE task # "none"
      <4>1. server[handle] = "failed"
        BY <1>2, <2>3, <3>2 DEF SingleInv, FollowedInv
      <4>2. handle \in Nat /\ handle # 0 /\ handle <= Len(server)
        BY <1>2, <3>2 DEF McpTypeInv, RowsOK
      <4>3. k = handle
        BY <2>1, <2>3, <4>2 DEF Single
      <4>4. QED
        BY <4>1, <4>3
    <3>3. QED
      BY <3>1, <3>2
  <2>4. QED
    BY <2>2, <2>3 DEF CallOutcomeIsTrue, Single
<1>3. (McpTypeInv /\ AppliedInv /\ SingleInv) /\ [MNext]_mcpVars
        => (McpTypeInv /\ AppliedInv /\ SingleInv)'
  BY McpTypeStep, GoodStep, SingleStep
<1>4. QED
  BY <1>1, <1>2, <1>3, McpInitType, PTL DEF MSpec
=============================================================================
