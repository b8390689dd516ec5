------------------------------- MODULE McpTask -------------------------------
(***************************************************************************)
(* A tool of an MCP server called through the gateway of a direct HTTP     *)
(* operation: application/mcp.py and the MCP transactions of               *)
(* run_controller.py, composed with the kernel of an implicit Run that has *)
(* one action.  A call is answered at once, asks the user for input (a     *)
(* continuation) or opens a task, which poll jobs observe until it ends.   *)
(* Threads of the process run the coordinator; between two transactions    *)
(* they wait for the server, hold a reply that grows old, or crash.        *)
(*                                                                         *)
(* An RPC row is read and settled only by the thread that opened it, so it *)
(* has no variable; the reads by which a thread chooses its way are one    *)
(* step.  A task that completes with isError is one that failed here.      *)
(***************************************************************************)
EXTENDS RunKernel, FiniteSets

CONSTANTS
  call,         \* the one action of the implicit Run
  Thread,       \* threads: gateway calls, poll workers, cancelling users
  MaxRuns,      \* bound: calls the server has accepted
  MaxAsks,      \* bound: times the server asks for input
  MaxPolls,     \* bound: poll jobs not done at a time
  MaxDisturbed  \* bound: disturbances (see Disturb)

ASSUME CallAssumption  == call \in Action /\ MaxEpoch # 0   \* a poll job carries lease 1
ASSUME SlotsAssumption == /\ MaxRuns \in Nat /\ MaxAsks \in Nat
                          /\ MaxPolls \in Nat /\ MaxDisturbed \in Nat
                          /\ Thread \cap {"ready", "done"} = {}

VARIABLES
  task,       \* status of the task row of the action; "none" before there is one
  handle,     \* the server run the row names; 0 before there is one
  acked,      \* cancel_acknowledged of the task row
  conts,      \* the continuations, oldest first
  polls,      \* the poll jobs: "ready", "done", or the thread that leases it
  thread,     \* what each thread is doing
  server,     \* the server's runs of the tool, oldest first
  asks,       \* times the server has asked for input
  disturbed   \* disturbances so far

mcpRows    == <<task, handle, acked, conts, polls>>
serverVars == <<server, asks>>
mcpVars    == <<vars, mcpRows, thread, serverVars, disturbed>>

TaskStatus == {"working", "input_required", "completed", "failed", "cancelled"}
Ended      == {"completed", "failed", "cancelled"}
Slot       == 1..MaxPolls

\* way is the method of the coordinator, cont the continuation it resumes, job
\* the poll job it claimed, reply what the server answered, run the server run
\* it answered for.
Resting == [pc |-> "idle"]
On(way, cont, job) ==
  [pc |-> "looked", way |-> way, cont |-> cont, job |-> job, reply |-> "none", of |-> 0]
Is(c, pc) == thread[c].pc = pc
Way(c)    == thread[c].way
Reply(c)  == thread[c].reply
Become(c, state) == thread' = [thread EXCEPT ![c] = state]
GoOn(c, pc)      == Become(c, [thread[c] EXCEPT !.pc = pc])
Rest(c)          == Become(c, Resting)

\* What the protocol itself does not do costs one of MaxDisturbed: a crash, a
\* lapsed lease, an unreachable server, a cancellation, a worker that takes the
\* wakeup of the implicit Run and ends or blocks it.
Disturb == disturbed < MaxDisturbed /\ disturbed' = disturbed + 1

MInit ==
  /\ Init
  /\ task = "none" /\ handle = 0 /\ acked = FALSE /\ conts = <<>>
  /\ polls = [j \in Slot |-> "done"]
  /\ thread = [c \in Thread |-> Resting]
  /\ server = <<>> /\ asks = 0 /\ disturbed = 0

\* JobRecord of kind mcp_task_poll, committed with the observation that needs it.
FreeSlots == {j \in Slot : polls[j] = "done"}
EnqueuePoll_Forgets == UNCHANGED polls   \* mutant: no next look
EnqueuePoll ==
  /\ FreeSlots # {}
  /\ LET j == CHOOSE i \in FreeSlots : \A k \in FreeSlots : i <= k
     IN  polls' = [polls EXCEPT ![j] = "ready"]

\* The terminal transitions retire the ready jobs of the Run, polls included.
RetirePolls_NoStatus ==   \* mutant: a status that is no status of a job
  polls' = [j \in Slot |-> IF polls[j] = "ready" THEN "none" ELSE polls[j]]
RetirePolls == polls' = [j \in Slot |-> IF polls[j] = "ready" THEN "done" ELSE polls[j]]

\* _require_claimed_job_locked: a thread without a job passes.
LeaseHeld(c) == thread[c].job = 0 \/ polls[thread[c].job] = c

\* The guard of every transaction that settles what a running attempt did.
Open == action[call] = "running" /\ LatestIs(call, "started")
CanBlock == run = "blocked" \/ CanMove(run, "blocked")

-----------------------------------------------------------------------------
(* Choosing a way: ActionGateway.execute, resume_if_ready, process_poll_job *)

Taking(c, way, cont) ==
  /\ Is(c, "idle") /\ action[call] = "ready" /\ Become(c, On(way, cont, 0))
  /\ UNCHANGED <<vars, mcpRows, serverVars, disturbed>>

\* No task and no continuation: the gateway goes on to invoke.
ToInvoke(c) == task = "none" /\ conts = <<>> /\ Taking(c, "invoke", 0)

\* resume_input of the latest continuation, if it is answered and not resumed.
ToResume(c) ==
  /\ task = "none" /\ conts # <<>> /\ ~Last(conts).resumed /\ request[call] = "answered"
  /\ Taking(c, "resume", Len(conts))

\* update_task, which looks at the answer of the latest request.
ToUpdate(c) == task # "none" /\ request[call] = "answered" /\ Taking(c, "update", 0)

\* claim_job of a poll job.
ClaimPoll(c, j) ==
  /\ Is(c, "idle") /\ polls[j] = "ready"
  /\ polls' = [polls EXCEPT ![j] = c]
  /\ Become(c, [On("poll", 0, j) EXCEPT !.pc = "begun"])
  /\ UNCHANGED <<vars, task, handle, acked, conts, serverVars, disturbed>>

\* cancel_task: it looks at the task row and at nothing else.
AskCancel(c) ==
  /\ Is(c, "idle") /\ task # "none" /\ Disturb
  /\ Become(c, [On("cancel", 0, 0) EXCEPT !.pc = "begun"])
  /\ UNCHANGED <<vars, mcpRows, serverVars>>

\* ensure_run_running, then begin_action_dispatch, whose refusal ends the call.
Start(c) ==
  /\ Is(c, "looked")
  /\ CASE run = "queued" -> EnsureRunning /\ UNCHANGED thread
       [] run = "running" /\ action[call] = "ready" ->
            BeginDispatch(call, 0) /\ GoOn(c, "begun")
       [] OTHER -> Rest(c) /\ UNCHANGED vars
  /\ UNCHANGED <<mcpRows, serverVars, disturbed>>

\* begin_mcp_rpc and, for a continuation, mark_mcp_continuation_resumed, which
\* returns at once when the row is resumed already.  A refusal of begin_mcp_rpc
\* inside the gateway is an error it records; anywhere else it ends the thread.
SendRequest(c) ==
  /\ Is(c, "begun")
  /\ IF action[call] \in {"running", "waiting_external"} /\ LeaseHeld(c)
     THEN /\ GoOn(c, "sent")
          /\ conts' = IF Way(c) = "resume"
                      THEN [conts EXCEPT ![thread[c].cont].resumed = TRUE] ELSE conts
     ELSE /\ IF Way(c) = "invoke"
             THEN Become(c, [thread[c] EXCEPT !.pc = "replied", !.reply = "rejected"])
             ELSE Rest(c)
          /\ UNCHANGED conts
  /\ UNCHANGED <<vars, task, handle, acked, polls, serverVars, disturbed>>

-----------------------------------------------------------------------------
(* The server, as the client modules see it *)

Outcome(now, reply) == [now |-> now, reply |-> reply]
RunOf(c) == IF Way(c) = "resume" THEN conts[thread[c].cont].run ELSE handle

\* What the server may make of a request: the run it leaves and its reply.  A
\* tools/call may also be answered by a task, open or already completed.
Results(c) ==
  CASE Way(c) \in {"invoke", "resume"} ->
         {Outcome("completed", "ok"), Outcome("failed", "bad"),
          Outcome("working", "working"), Outcome("completed", "completed")}
           \cup (IF asks < MaxAsks THEN {Outcome("asked", "asked")} ELSE {})
    [] Way(c) = "update" -> {Outcome("working", "ack")}
    [] Way(c) = "poll"   -> {Outcome(server[handle], server[handle])}
    [] Way(c) = "cancel" -> {Outcome(server[handle], "ack")} \cup
         (IF server[handle] \in Ended THEN {} ELSE {Outcome("cancelled", "ack")})

\* A continuation answers the run that asked, an update the task that did.
Understood(c) ==
  CASE Way(c) = "invoke" -> TRUE
    [] Way(c) = "resume" -> server[RunOf(c)] = "asked"
    [] Way(c) = "update" -> server[RunOf(c)] = "input_required"
    [] OTHER -> TRUE

ServerHandles(c, o) ==
  /\ IF Way(c) = "invoke"
     THEN Len(server) < MaxRuns /\ server' = Append(server, o.now)
     ELSE server' = [server EXCEPT ![RunOf(c)] = o.now]
  /\ asks' = IF o.reply = "asked" THEN asks + 1 ELSE asks

Answer(c, reply, k) ==
  Become(c, [thread[c] EXCEPT !.pc = "replied", !.reply = reply, !.of = k])

Serve(c) ==
  /\ Is(c, "sent") /\ Understood(c)
  /\ \E o \in Results(c) :
       /\ ServerHandles(c, o)
       /\ Answer(c, o.reply, IF Way(c) = "invoke" THEN Len(server') ELSE RunOf(c))
  /\ UNCHANGED <<vars, mcpRows, disturbed>>

\* A JSON-RPC error, which means that the tool did nothing, or a request that
\* the client refuses to send.
Fault(c) ==
  /\ Is(c, "sent")
  /\ IF Understood(c) THEN Disturb ELSE UNCHANGED disturbed
  /\ \E reply \in {"fault", "rejected"} : Answer(c, reply, 0)
  /\ UNCHANGED <<vars, mcpRows, serverVars>>

\* The connection fails before or after the server handled the request.
LoseReply(c) ==
  /\ Is(c, "sent") /\ Disturb
  /\ \/ UNCHANGED serverVars
     \/ Understood(c) /\ \E o \in Results(c) : ServerHandles(c, o)
  /\ Answer(c, "lost", 0)
  /\ UNCHANGED <<vars, mcpRows>>

\* An open task goes on by itself.
Progress(k) ==
  /\ server[k] = "working"
  /\ \/ \E s \in {"completed", "failed"} : server' = [server EXCEPT ![k] = s]
        /\ UNCHANGED asks
     \/ /\ asks < MaxAsks /\ asks' = asks + 1
        /\ server' = [server EXCEPT ![k] = "input_required"]
  /\ UNCHANGED <<vars, mcpRows, thread, disturbed>>

-----------------------------------------------------------------------------
(* What a thread does with the reply *)

\* A HarnessError ends the thread; inside invoke the gateway records it as a
\* failed action first.
Raise(c) ==
  /\ IF Way(c) = "invoke" THEN Answer(c, "rejected", 0) ELSE Rest(c)
  /\ UNCHANGED <<vars, mcpRows>>
Replied(c, way, reply) == Is(c, "replied") /\ Way(c) \in way /\ Reply(c) \in reply
Still == UNCHANGED <<serverVars, disturbed>>

\* mutant: a lost reply fails the action.
Complete_LostFails(c) ==
  /\ Replied(c, {"invoke", "resume"}, {"ok", "bad", "fault", "rejected", "lost"}) /\ Open
  /\ CompleteAction(call, Reply(c) = "ok", 0) /\ GoOn(c, "finish")
  /\ UNCHANGED mcpRows /\ Still
\* MCPComplete, and the errors of invoke: complete_action.
Complete(c) ==
  /\ \/ Replied(c, {"invoke", "resume"}, {"ok", "bad"})
     \/ Replied(c, {"invoke"}, {"fault", "rejected"})
  /\ IF Open
     THEN /\ CompleteAction(call, Reply(c) = "ok", 0)
          /\ Become(c, [thread[c] EXCEPT !.pc = "finish",
                                         !.reply = IF @ = "ok" THEN "ok" ELSE "bad"])
     ELSE UNCHANGED vars /\ Rest(c)
  /\ UNCHANGED mcpRows /\ Still

\* _record_unknown_dispatch, and a protocol fault of a resumed action.
Unknown(c) ==
  /\ Replied(c, {"invoke", "resume", "update"}, {"lost"})
       \/ Replied(c, {"resume", "update"}, {"fault"})
  /\ IF Open /\ CanBlock
     THEN MarkOutcomeUnknown(call) /\ Rest(c) /\ UNCHANGED mcpRows
     ELSE Raise(c)
  /\ Still

\* mutant: a failed poll completes its job.
Abandon_CompletesJob(c) ==
  /\ Replied(c, {"poll"}, {"fault", "rejected", "lost"})
  /\ GoOn(c, "closing") /\ UNCHANGED <<vars, mcpRows>> /\ Still
\* A rejected resumption, and every failed poll or cancellation: the exception
\* leaves the action, and the lease of the poll job, as they are.
Abandon(c) ==
  /\ \/ Replied(c, {"resume", "update"}, {"rejected"})
     \/ Replied(c, {"poll", "cancel"}, {"fault", "rejected", "lost"})
  /\ Rest(c) /\ UNCHANGED <<vars, mcpRows>> /\ Still

\* record_mcp_input_required.
RecordInputRequired(c) ==
  /\ Replied(c, {"invoke", "resume"}, {"asked"})
  /\ IF Open /\ CanMove(run, "waiting_input")
     THEN /\ SetAction(call, "waiting_input") /\ SettleAttempt(call, "succeeded")
          /\ run' = "waiting_input"
          /\ request' = [request EXCEPT ![call] = "pending"]
          /\ overdue' = overdue \ {call}
          /\ conts' = Append(conts, [run |-> thread[c].of, resumed |-> FALSE])
          /\ Rest(c)
          /\ UNCHANGED <<intent, children, epoch, ledger, jobs, task, handle, acked, polls>>
     ELSE Raise(c)
  /\ Still

\* record_mcp_task: a row that exists already is returned as it is.
RecordTask(c) ==
  /\ Replied(c, {"invoke", "resume"}, {"working", "completed"})
  /\ IF Open /\ task = "none"
     THEN /\ SetAction(call, "waiting_external") /\ SettleAttempt(call, "succeeded")
          /\ task' = Reply(c) /\ handle' = thread[c].of
          /\ IF Reply(c) = "working" THEN EnqueuePoll /\ Rest(c)
                                     ELSE GoOn(c, "ended") /\ UNCHANGED polls
          /\ UNCHANGED <<run, intent, children, epoch, request, overdue, ledger, jobs,
                         acked, conts>>
     ELSE IF Open /\ task \in {"working", "input_required"}
     THEN Rest(c) /\ UNCHANGED <<vars, mcpRows>>
     ELSE Raise(c)
  /\ Still

\* record_mcp_task_observation: no condition on the action.
Observe(c) ==
  /\ Replied(c, {"poll"}, TaskStatus)
  /\ IF ~LeaseHeld(c) THEN Rest(c) /\ UNCHANGED <<vars, mcpRows>>
     ELSE CASE Reply(c) = "working" ->
                 /\ task' = "working" /\ EnqueuePoll /\ GoOn(c, "closing")
                 /\ UNCHANGED <<vars, handle, acked, conts>>
            [] Reply(c) = "input_required" /\ request[call] = "pending" ->
                 /\ task' = "input_required" /\ GoOn(c, "closing")
                 /\ UNCHANGED <<vars, handle, acked, conts, polls>>
            [] Reply(c) = "input_required" /\ request[call] # "pending" ->
                 IF CanMove(run, "waiting_input")
                 THEN /\ task' = "input_required" /\ GoOn(c, "closing")
                      /\ SetAction(call, "waiting_input") /\ Ask(call)
                      /\ UNCHANGED <<handle, acked, conts, polls>>
                 ELSE Rest(c) /\ UNCHANGED <<vars, mcpRows>>
            [] OTHER ->
                 /\ task' = Reply(c) /\ GoOn(c, "ended")
                 /\ UNCHANGED <<vars, handle, acked, conts, polls>>
  /\ Still

\* mutant: it takes the action to be running still.
BeginCompletion_Running(c) ==
  /\ Is(c, "ended") /\ Reply(c) \in {"completed", "failed"}
  /\ IF LeaseHeld(c) /\ action[call] = "running"
     THEN GoOn(c, "completing") /\ UNCHANGED <<vars, mcpRows>> ELSE Raise(c)
  /\ Still
\* begin_mcp_task_completion: a new attempt for the local commit.
BeginCompletion(c) ==
  /\ Is(c, "ended") /\ Reply(c) \in {"completed", "failed"}
  /\ IF LeaseHeld(c) /\ action[call] = "waiting_external"
     THEN /\ StartAttempt(call, IF thread[c].job = 0 THEN epoch[call] ELSE 1, attempts[call])
          /\ GoOn(c, "completing") /\ UNCHANGED mcpRows
     ELSE Raise(c)
  /\ Still

\* complete_action of a task, fenced by the poll job.
CompleteTask(c) ==
  /\ Is(c, "completing")
  /\ IF Open /\ LeaseHeld(c) /\ (thread[c].job = 0 \/ epoch[call] = 1)
     THEN CompleteAction(call, Reply(c) = "completed", epoch[call]) /\ GoOn(c, "finish")
     ELSE UNCHANGED vars /\ Rest(c)
  /\ UNCHANGED mcpRows /\ Still

\* finalize_mcp_task_cancelled.
FinalizeTaskCancelled(c) ==
  /\ Is(c, "ended") /\ Reply(c) = "cancelled"
  /\ IF ~LeaseHeld(c) \/ task # "cancelled" \/ action[call] \notin {"cancelled", "waiting_external"}
     THEN Rest(c) /\ UNCHANGED vars
     ELSE /\ GoOn(c, "finish")
          /\ IF action[call] = "cancelled" THEN UNCHANGED vars
             ELSE /\ SetAction(call, "cancelled")
                  /\ IF run = "cancelling" THEN CancelIfSettled ELSE UNCHANGED run
                  /\ UNCHANGED <<intent, children, epoch, attempts, request, overdue,
                                 ledger, jobs>>
  /\ UNCHANGED mcpRows /\ Still

\* finish_implicit_run: of a running Run, or of any Run when the gateway records
\* the outcome itself.
Finish(c) ==
  /\ Is(c, "finish")
  /\ LET ok == Reply(c) \in {"ok", "completed"}
         byGateway == Way(c) = "invoke" /\ Reply(c) \in {"ok", "bad"}
         ends == (run = "running" \/ byGateway)
                 /\ CanMove(run, IF ok THEN "succeeded" ELSE "failed") /\ ~children
     IN  IF ends THEN FinishImplicit(ok) /\ RetirePolls ELSE UNCHANGED <<vars, polls>>
  /\ IF thread[c].job = 0 THEN Rest(c) ELSE GoOn(c, "closing")
  /\ UNCHANGED <<task, handle, acked, conts>> /\ Still

\* complete_job; a lost lease leaves the job to its new holder.
Close(c) ==
  /\ Is(c, "closing") /\ Rest(c)
  /\ polls' = IF LeaseHeld(c) THEN [polls EXCEPT ![thread[c].job] = "done"] ELSE polls
  /\ UNCHANGED <<vars, task, handle, acked, conts>> /\ Still

\* mark_mcp_task_update_acknowledged.
UpdateAcknowledged(c) ==
  /\ Replied(c, {"update"}, {"ack"})
  /\ IF action[call] = "running"
     THEN /\ SetAction(call, "waiting_external") /\ SettleAttempt(call, "succeeded")
          /\ task' = "working" /\ EnqueuePoll
          /\ UNCHANGED <<run, intent, children, epoch, request, overdue, ledger, jobs,
                         handle, acked, conts>>
     ELSE UNCHANGED <<vars, mcpRows>>
  /\ Rest(c) /\ Still

\* mark_mcp_task_cancel_acknowledged: no condition on the action.
CancelAcknowledged(c) ==
  /\ Replied(c, {"cancel"}, {"ack"}) /\ Rest(c)
  /\ acked' = TRUE
  /\ IF action[call] = "waiting_external" THEN UNCHANGED <<action, version>>
                                          ELSE SetAction(call, "waiting_external")
  /\ UNCHANGED <<run, intent, children, epoch, attempts, request, overdue, ledger, jobs,
                 task, handle, conts, polls>>
  /\ Still

-----------------------------------------------------------------------------
(* Crashes, the user, and the rest of the process *)

ThreadCrash(c) ==
  /\ ~Is(c, "idle") /\ Disturb /\ Rest(c)
  /\ UNCHANGED <<vars, mcpRows, serverVars>>

\* The lease of a poll job expires: of a thread that is still at work, or of one
\* that an exception or a crash took from it.
Holds(c, j) == ~Is(c, "idle") /\ thread[c].job = j
Lapse(j) ==
  /\ polls[j] \in Thread
  /\ IF Holds(polls[j], j) THEN Disturb ELSE UNCHANGED disturbed
  /\ polls' = [polls EXCEPT ![j] = "ready"]
  /\ UNCHANGED <<vars, task, handle, acked, conts, thread, serverVars>>

\* Evidence for the reconciliation endpoint, true when it is given.
ServerEvidence ==
  IF \E k \in DOMAIN server : server[k] = "completed" THEN {"confirmed_applied"}
  ELSE IF /\ \A k \in DOMAIN server : server[k] \in {"asked", "failed", "cancelled"}
          /\ \A c \in Thread : ~Is(c, "sent")
  THEN {"confirmed_not_applied", "confirmed_stopped"} ELSE {}

User ==
  /\ \/ AdmitAction(call) \/ RespondAnswer(call) \/ RespondExpired(call) \/ TimePasses(call)
  /\ UNCHANGED <<mcpRows, thread, serverVars, disturbed>>

\* Who cancels the Run, and the worker that claims its wakeup.
Interfere ==
  /\ Disturb
  /\ \/ RequestCancellation /\ UNCHANGED polls
     \/ BlockRun /\ UNCHANGED polls
     \/ (\E fact \in ServerEvidence : Reconcile(call, version[call], fact)) /\ UNCHANGED polls
     \/ FailRun /\ RetirePolls
     \/ TerminateRun /\ RetirePolls
  /\ UNCHANGED <<task, handle, acked, conts, thread, serverVars>>
Finalize ==
  /\ FinalizeCancellation /\ RetirePolls
  /\ UNCHANGED <<task, handle, acked, conts, thread, serverVars, disturbed>>

ThreadStep(c) ==
  \/ Start(c) \/ SendRequest(c) \/ Serve(c) \/ Complete(c) \/ Unknown(c) \/ Abandon(c)
  \/ RecordInputRequired(c) \/ RecordTask(c) \/ Observe(c) \/ BeginCompletion(c)
  \/ CompleteTask(c) \/ FinalizeTaskCancelled(c) \/ Finish(c) \/ Close(c)
  \/ UpdateAcknowledged(c) \/ CancelAcknowledged(c)

MNext ==
  \/ \E c \in Thread : ThreadStep(c) \/ ToInvoke(c) \/ ToResume(c) \/ ToUpdate(c)
                       \/ AskCancel(c)
                       \/ Fault(c) \/ LoseReply(c) \/ ThreadCrash(c)
  \/ \E c \in Thread, j \in Slot : ClaimPoll(c, j)
  \/ \E j \in Slot : Lapse(j)
  \/ \E k \in DOMAIN server : Progress(k)
  \/ User \/ Interfere \/ Finalize

MSpec == MInit /\ [][MNext]_mcpVars

\* A thread goes on, a free thread claims a ready poll job, and the lease of a
\* job that nobody works on runs out.  Server, user and faults are free.
FairMSpec ==
  /\ MSpec
  /\ \A c \in Thread : WF_mcpVars(ThreadStep(c))
  /\ WF_mcpVars(\E c \in Thread, j \in Slot : ClaimPoll(c, j))
  /\ \A j \in Slot : WF_mcpVars(Lapse(j))

-----------------------------------------------------------------------------
(* Properties *)

\* The kernel's and the MCP tables keep their types.
MTypeOK ==
  /\ TypeOK
  /\ task \in TaskStatus \cup {"none"} /\ handle \in 0..MaxRuns /\ acked \in BOOLEAN
  /\ conts \in Seq([run : 1..MaxRuns, resumed : BOOLEAN])
  /\ polls \in [Slot -> {"ready", "done"} \cup Thread]
  /\ server \in Seq(Ended \cup {"asked", "working", "input_required"})
  /\ asks \in 0..MaxAsks /\ disturbed \in 0..MaxDisturbed

\* The Run still follows the task: nothing has ended, blocked or cancelled it.
Following == run \in {"queued", "running", "waiting_input"}

\* A task that is known to be working, and for which the action waits, has a
\* poll job: whoever commits an observation or an acknowledgement also commits
\* the next look, and a thread that dies leaves its job to the next one.
WorkingTaskIsPolled ==
  action[call] = "waiting_external" /\ task = "working" /\ ~acked /\ Following
    => \E j \in Slot : polls[j] # "done"

\* What the action says of the tool is what the server did, whichever thread,
\* reply or evidence settled it: a succeeded action has a call that completed,
\* and one with a single call does not fail although the call completed.  The
\* latter holds of a call that never became a task despite one disturbance, and
\* of every call without one: after a crash, a poll that is late can give the
\* action back to a gateway call that has looked before there was a task.
CallOutcomeIsTrue ==
  LET completed == \E k \in DOMAIN server : server[k] = "completed"
      single    == Len(server) <= 1 /\ disturbed <= IF task = "none" THEN 1 ELSE 0
  IN  /\ action[call] = "succeeded" => completed
      /\ action[call] = "failed" /\ single => ~completed

\* Without a disturbance, the end of the task reaches the action.
TaskIsApplied ==
  handle # 0 /\ server[handle] \in Ended
    ~> disturbed > 0 \/ Len(server) > 1 \/ action[call] \in TerminalAction

\* Also after a crash, a lapsed lease or a lost reply, the end of a task that
\* the action waits for is at least recorded in its row.
TaskEndIsObserved ==
  handle # 0 /\ server[handle] \in Ended
    ~> task \in Ended \/ action[call] # "waiting_external" \/ acked \/ ~Following

-----------------------------------------------------------------------------
(* What the repository says and the code does not do *)

\* docs/03_runtime_recovery.md section 6: an unsafe call whose outcome is not
\* known becomes outcome_unknown; so an action never fails that was executed.
LostCallIsNotFailed ==
  action[call] = "failed" /\ Len(server) <= 1
    => \A k \in DOMAIN server : server[k] # "completed"

\* docs/06_mcp_adapters.md section 6: once the handle of a task is saved, the
\* original tool is not called again.
TaskCallIsNotRepeated == [][handle # 0 => Len(server') = Len(server)]_mcpVars
=============================================================================
