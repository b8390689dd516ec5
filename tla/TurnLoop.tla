------------------------------ MODULE TurnLoop ------------------------------
(***************************************************************************)
(* Workers that advance one Run turn by turn: RunWorker.run_once           *)
(* (application/run_worker.py) around Runner.advance (application/         *)
(* runner.py), with the model calls, the budget reservations and the       *)
(* actions of application/run_controller.py.  A worker holds a claimed job *)
(* and takes one step per database transaction or read; between two of     *)
(* them any other worker, the user or a crash may step in.  pc names the   *)
(* next step of a worker.  A read is a step of its own, since what it      *)
(* returned may be stale when the next transaction commits.                *)
(***************************************************************************)
EXTENDS RunStates, Naturals, Sequences, FiniteSets, FiniteSetsExt

CONSTANTS
  Worker,
  Answer,         \* the answers the provider may give, up to response_hash
  Usage,          \* the output_tokens a provider may report
  Limit,          \* the budget of the Run in each dimension
  DefaultOutput,  \* default_max_output_tokens
  Ops,            \* operations in an answer that proposes some
  MaxRepairs,     \* max_format_repairs
  MaxNoProgress,  \* max_no_progress
  MaxTurns,       \* bound: turns a Run may begin
  MaxFaults,      \* bound: crashes, lost leases and failed calls in a behaviour
  MaxEpoch        \* bound: times one job may be claimed

Dimension == {"model_turn", "output_tokens", "tool_call"}

\* What a response proposes: reads, replayable local writes or other effects, a
\* question, a final candidate with or without evidence, an operation that
\* cannot be bound or no proposal at all, or text that is no ModelTurn.
Operations == {"read", "write", "remote"}
Shape == Operations \cup {"clarify", "final", "unsupported", "unusable", "invalid"}

ASSUME AnswerAssumption == Answer \subseteq Shape \X Nat
ASSUME LimitAssumption == Limit \in [Dimension -> Nat]
ASSUME SizesAssumption ==
  /\ Usage \subseteq Nat /\ DefaultOutput \in Nat \ {0} /\ Ops \in Nat \ {0}
  /\ MaxRepairs \in Nat \ {0} /\ MaxNoProgress \in Nat \ {0}
  /\ MaxTurns \in Nat /\ MaxFaults \in Nat /\ MaxEpoch \in Nat

Turn == 1..MaxTurns
Slot == 1..Ops
Op   == Turn \X Slot
Key  == Turn \X Dimension \X (0..Ops)   \* reservation_key: turn, dimension, call index

VARIABLES
  run,      \* status of the Run
  jobs,     \* its job rows: kind, status and lease epoch
  calls,    \* the model calls by turn: status, max_output_tokens, answer, usage
  row,      \* the budget reservation of each key: status, amount
  used,     \* the settled amount of each dimension
  question, \* status of the clarification each answer asks for
  op,       \* status of the action of each slot; "none" before admission
  opEpoch,  \* lease epoch of the last dispatch of each action
  receipts, \* local effects whose idempotency record is committed
  pc,       \* next step of each worker
  at,       \* what each worker holds in its local variables
  faults    \* faults so far

vars == <<run, jobs, calls, row, used, question, op, opEpoch, receipts, pc, at, faults>>
rows == <<row, used>>
opVars == <<question, op, opEpoch, receipts>>

Idle == [job |-> 0, epoch |-> 0, turn |-> 0, amount |-> 0, slot |-> 0,
         seen |-> "queued", flag |-> FALSE, then |-> "idle", todo |-> {}]

NewJob(kind) == [kind |-> kind, status |-> "ready", epoch |-> 0]

Init ==
  /\ run = "queued" /\ jobs = <<NewJob("advance_run")>> /\ calls = <<>>
  /\ row = [k \in Key |-> [status |-> "none", amount |-> 0]]
  /\ used = [d \in Dimension |-> 0]
  /\ question = [a \in Answer |-> "none"]
  /\ op = [o \in Op |-> "none"] /\ opEpoch = [o \in Op |-> 0] /\ receipts = {}
  /\ pc = [w \in Worker |-> "idle"] /\ at = [w \in Worker |-> Idle]
  /\ faults = 0

-----------------------------------------------------------------------------
(* Control *)

Goto(w, step) == pc' = [pc EXCEPT ![w] = step]
Drop(w)       == Goto(w, "idle") /\ at' = [at EXCEPT ![w] = Idle]
Hold(w, f, v, step) == at' = [at EXCEPT ![w][f] = v] /\ Goto(w, step)
Fault         == faults < MaxFaults /\ faults' = faults + 1

\* _lease_matches: the job is still leased under the epoch the worker claimed.
Fenced(w) ==
  /\ jobs[at[w].job].status = "leased"
  /\ jobs[at[w].job].epoch = at[w].epoch

Call(w)    == calls[at[w].turn]
ThisOp(w)  == <<at[w].turn, at[w].slot>>

\* A live worker still acts under the current lease of the job.
Held(j) == \E w \in Worker : pc[w] # "idle" /\ at[w].job = j /\ Fenced(w)

SetJob(j, s) == jobs' = [jobs EXCEPT ![j].status = s]
RetireReady  == jobs' = [j \in DOMAIN jobs |->
                  IF jobs[j].status = "ready" THEN [jobs[j] EXCEPT !.status = "done"]
                  ELSE jobs[j]]

\* claim_job: a due job, or one whose lease ran out.  Losing the lease of a
\* live worker (a pause longer than the lease) is a fault.
Claim(w, j) ==
  /\ pc[w] = "idle" /\ jobs[j].status # "done" /\ jobs[j].epoch < MaxEpoch
  /\ IF jobs[j].status = "leased" /\ Held(j) THEN Fault ELSE UNCHANGED faults
  /\ jobs' = [jobs EXCEPT ![j].status = "leased", ![j].epoch = @ + 1]
  /\ at' = [at EXCEPT ![w] = [Idle EXCEPT !.job = j, !.epoch = jobs[j].epoch + 1]]
  /\ Goto(w, IF jobs[j].kind = "cancel_run" THEN "finalize" ELSE "observe")
  /\ UNCHANGED <<run, calls, rows, opVars>>

\* The steps whose transaction checks the lease.
FencedStep ==
  {"ensure", "turn", "output", "release", "begin", "commit", "settle_turn",
   "settle_output", "reject", "stall", "fail", "ask", "tool", "admit", "dispatch", "complete",
   "settle_tool", "record", "processed", "block", "exhausted", "finish", "defer",
   "finalize", "reconcile", "refinalize"}

\* LeaseLost: main catches it, the worker looks for another job.
LoseLease(w) ==
  /\ pc[w] \in FencedStep /\ ~Fenced(w) /\ Drop(w)
  /\ UNCHANGED <<run, jobs, calls, rows, opVars, faults>>

Crash(w) ==
  /\ pc[w] # "idle" /\ Fault /\ Drop(w)
  /\ UNCHANGED <<run, jobs, calls, rows, opVars>>

\* A transaction of w, at step s, under its lease.
At(w, s)     == pc[w] = s /\ (s \in FencedStep => Fenced(w))
Read(w, s)   == At(w, s) /\ UNCHANGED <<run, jobs, calls, rows, opVars, faults>>

-----------------------------------------------------------------------------
(* Mutants: plausible mistakes in the definitions below, which the checked  *)
(* properties tell from the code.                                           *)

\* The overrun of a reservation is not compared with the limit.
Settling_NoLimit(k, n) ==
  CASE row[k].status = "settled"  -> "ok"
    [] row[k].status # "reserved" -> "block"
    [] OTHER                      -> "ok"

\* A settled row is charged again.
Settle_Twice(k, n) ==
  IF row[k].status \in {"reserved", "settled"}
  THEN /\ used' = [used EXCEPT ![k[2]] = @ + n]
       /\ row' = [row EXCEPT ![k].status = "settled"]
  ELSE UNCHANGED rows

\* A committed response is processed at once, or an open call is forgotten.
Latest_SkipsSettlement(w) ==
  /\ Read(w, "latest")
  /\ IF calls # <<>> /\ calls[Len(calls)].status = "response_committed"
     THEN Hold(w, "turn", Len(calls), "process")
     ELSE Goto(w, "next") /\ UNCHANGED at

Latest_DropsOpenCall(w) ==
  /\ Read(w, "latest")
  /\ IF calls # <<>> /\ calls[Len(calls)].status = "response_committed"
     THEN Hold(w, "turn", Len(calls), "settle_turn")
     ELSE Goto(w, "next") /\ UNCHANGED at

\* The answer of the last attempt wins.
CommitCall_Overwrites(w) ==
  /\ At(w, "commit")
  /\ \E a \in Answer, n \in Usage :
       calls' = [calls EXCEPT ![at[w].turn].status = "response_committed",
                   ![at[w].turn].answer = a, ![at[w].turn].usage = n]
  /\ Goto(w, "settle_turn")
  /\ UNCHANGED <<run, jobs, rows, opVars, at, faults>>

\* A lost dispatch of a local write is not taken over.
Dispatchable_OnlyReady(w, o) == op[o] = "ready"

\* The gate does not ask for unresolved actions.
Verify_IgnoresOpen(w) ==
  Read(w, "verify") /\ Hold(w, "flag", Call(w).answer[1] = "final", "record")

\* The job of a running Run is completed.
Finish_Completes(w) ==
  /\ At(w, "finish") /\ SetJob(at[w].job, "done") /\ Drop(w)
  /\ UNCHANGED <<run, calls, rows, opVars, faults>>

\* The answered Run relies on the job it had before.
RespondAnswer_NoJob(a) ==
  /\ question[a] = "pending" /\ run = "waiting_input"
  /\ question' = [question EXCEPT ![a] = "answered"] /\ run' = "queued"
  /\ UNCHANGED <<jobs, calls, rows, op, opEpoch, receipts, pc, at, faults>>

\* Actions are given a status of Runs.
SettleUndispatched_Expires ==
  op' = [o \in Op |-> IF op[o] \in Undispatched THEN "expired" ELSE op[o]]

-----------------------------------------------------------------------------
(* Budgets *)

Reserved(d) ==
  SumFunctionOnSet([k \in Key |-> row[k].amount],
                   {k \in Key : k[2] = d /\ row[k].status = "reserved"})

\* reserve_budget: the row of a key is written once, whatever became of it.
\* An outcome is "ok" or the step that handles the error it raises.
Reserving(k, n) ==
  IF row[k].status # "none"
  THEN IF row[k].amount = n THEN "ok" ELSE "block"
  ELSE IF used[k[2]] + Reserved(k[2]) + n > Limit[k[2]] THEN "exhausted" ELSE "ok"

Reserve(k, n) ==
  row' = IF row[k].status = "none" /\ Reserving(k, n) = "ok"
         THEN [row EXCEPT ![k] = [status |-> "reserved", amount |-> n]] ELSE row

\* settle_budget: a second settlement of a row changes nothing.
Settling(k, n) ==
  CASE row[k].status = "settled"    -> "ok"
    [] row[k].status # "reserved"   -> "block"
    [] used[k[2]] + (Reserved(k[2]) - row[k].amount) + n > Limit[k[2]] -> "exhausted"
    [] OTHER                        -> "ok"

Settle(k, n) ==
  IF row[k].status = "reserved" /\ Settling(k, n) = "ok"
  THEN /\ used' = [used EXCEPT ![k[2]] = @ + n]
       /\ row' = [row EXCEPT ![k].status = "settled"]
  ELSE UNCHANGED rows

\* release_budget
Release(k) == row' = [row EXCEPT ![k].status = IF @ = "reserved" THEN "released" ELSE @]

TurnKey(t)    == <<t, "model_turn", 0>>
OutputKey(t)  == <<t, "output_tokens", 0>>
ToolKey(o)    == <<o[1], "tool_call", o[2]>>

-----------------------------------------------------------------------------
(* Starting a turn: Runner.advance up to begin_model_call *)

\* get_run: only a queued or a running Run is advanced.
Observe(w) ==
  /\ Read(w, "observe")
  /\ Hold(w, "seen", run, CASE run = "queued"  -> "ensure"
                            [] run = "running" -> "latest"
                            [] OTHER           -> "finish")

\* ensure_run_running
Ensure(w) ==
  /\ At(w, "ensure")
  /\ IF run = "queued" THEN run' = "running" ELSE UNCHANGED run
  /\ Goto(w, IF run \in {"queued", "running"} THEN "latest" ELSE "block")
  /\ UNCHANGED <<jobs, calls, rows, opVars, at, faults>>

\* latest_model_call: a committed response is processed, an open call is sent
\* again with the output budget it was begun with.
Latest(w) ==
  /\ Read(w, "latest")
  /\ IF calls # <<>> /\ calls[Len(calls)].status \in {"started", "response_committed"}
     THEN LET last == calls[Len(calls)] IN
          /\ at' = [at EXCEPT ![w].turn = Len(calls), ![w].amount = last.amount]
          /\ Goto(w, IF last.status = "started" THEN "turn" ELSE "settle_turn")
     ELSE Goto(w, "next") /\ UNCHANGED at

\* next_turn_id reads the latest turn again.
NextTurn(w) ==
  /\ Read(w, "next") /\ Len(calls) < MaxTurns
  /\ Hold(w, "turn", Len(calls) + 1, "quota")

\* _available_output_budget
Quota(w) ==
  /\ Read(w, "quota")
  /\ LET taken == used["output_tokens"] + Reserved("output_tokens")
         left  == Limit["output_tokens"] - taken
     IN  IF taken >= Limit["output_tokens"]
         THEN Goto(w, "exhausted") /\ UNCHANGED at
         ELSE Hold(w, "amount", IF DefaultOutput < left THEN DefaultOutput ELSE left, "turn")

ReserveTurn(w) ==
  /\ At(w, "turn")
  /\ LET k == TurnKey(at[w].turn)
         r == Reserving(k, 1)
     IN  Reserve(k, 1) /\ Goto(w, IF r = "ok" THEN "output" ELSE r)
  /\ UNCHANGED <<run, jobs, calls, used, opVars, at, faults>>

\* When the second reservation fails the first one is released, and only then
\* is the error raised.
ReserveOutput(w) ==
  /\ At(w, "output")
  /\ LET k == OutputKey(at[w].turn)
         r == Reserving(k, at[w].amount)
     IN  /\ Reserve(k, at[w].amount)
         /\ Hold(w, "then", r, IF r = "ok" THEN "begin" ELSE "release")
  /\ UNCHANGED <<run, jobs, calls, used, opVars, faults>>

\* The database fails the second reservation: no handler of run_once takes that
\* error, and the process ends after the release.
OutputFails(w) ==
  /\ At(w, "output") /\ Fault /\ Hold(w, "then", "idle", "release")
  /\ UNCHANGED <<run, jobs, calls, rows, opVars>>

ReleaseTurn(w) ==
  /\ At(w, "release") /\ Release(TurnKey(at[w].turn))
  /\ IF at[w].then = "idle" THEN Drop(w) ELSE Goto(w, at[w].then) /\ UNCHANGED at
  /\ UNCHANGED <<run, jobs, calls, used, opVars, faults>>

\* begin_model_call: opens the call of the turn or another attempt at it.
BeginCall(w) ==
  /\ At(w, "begin")
  /\ IF run # "running" THEN Goto(w, "block") /\ UNCHANGED calls   \* AlreadyTerminal
     ELSE IF at[w].turn > Len(calls)
     THEN /\ Goto(w, "generate")
          /\ calls' = Append(calls, [status |-> "started", amount |-> at[w].amount,
                                     answer |-> <<"none", 0>>, usage |-> 0])
     ELSE /\ UNCHANGED calls
          /\ Goto(w, CASE Call(w).status = "started"            -> "generate"
                       [] Call(w).status = "response_committed" -> "settle_turn"
                       [] OTHER                                 -> "block")
  /\ UNCHANGED <<run, jobs, rows, opVars, at, faults>>

\* The provider answers, and complete_model_call commits the answer unless
\* another attempt has already committed one.
Generate(w) == Read(w, "generate") /\ Goto(w, "commit") /\ UNCHANGED at

CommitCall(w) ==
  /\ At(w, "commit")
  /\ \E a \in Answer, n \in Usage :
       calls' = IF Call(w).status # "started" THEN calls
                ELSE [calls EXCEPT ![at[w].turn].status = "response_committed",
                        ![at[w].turn].answer = a, ![at[w].turn].usage = n]
  /\ Goto(w, "settle_turn")
  /\ UNCHANGED <<run, jobs, rows, opVars, at, faults>>

\* ProviderUnavailable: the attempt fails and the job is deferred.
ProviderFails(w) ==
  /\ At(w, "generate") /\ Fault /\ Goto(w, "defer")
  /\ UNCHANGED <<run, jobs, calls, rows, opVars, at>>

\* ModelOutputInvalid of an adapter: the attempt fails and the Run is blocked.
ProviderRefuses(w) ==
  /\ At(w, "generate") /\ Fault /\ Goto(w, "block")
  /\ UNCHANGED <<run, jobs, calls, rows, opVars, at>>

\* _settle_model_usage: both reservations are looked up again by their keys
\* (rows keep their amounts, so the two lookups are one), then each is settled.
SettleUsage(w, k, actual, found, next) ==
  /\ LET r == IF found = "ok" THEN Settling(k, actual) ELSE found
     IN  /\ IF found = "ok" THEN Settle(k, actual) ELSE UNCHANGED rows
         /\ Goto(w, IF r = "ok" THEN next ELSE r)
  /\ UNCHANGED <<run, jobs, calls, opVars, at, faults>>

SettleTurn(w) ==
  /\ At(w, "settle_turn")
  /\ LET turn   == Reserving(TurnKey(at[w].turn), 1)
         output == Reserving(OutputKey(at[w].turn), Call(w).amount)
     IN  SettleUsage(w, TurnKey(at[w].turn), 1, IF turn = "ok" THEN output ELSE turn,
                     "settle_output")

SettleOutput(w) ==
  /\ At(w, "settle_output")
  /\ SettleUsage(w, OutputKey(at[w].turn), Call(w).usage, "ok", "process")

-----------------------------------------------------------------------------
(* Processing a committed answer: Runner._process_committed *)

Is(w, shapes) == Call(w).answer[1] \in shapes
Repeats(w) == Cardinality({t \in DOMAIN calls : calls[t].answer = Call(w).answer})

Process(w) ==
  /\ Read(w, "process")
  /\ at' = [at EXCEPT ![w].seen = run, ![w].slot = 1, ![w].then = "tool"]
  /\ Goto(w, CASE run # "running"                    -> "finish"
               [] run = "running" /\ Is(w, {"invalid"}) -> "reject"
               [] OTHER -> IF Repeats(w) >= MaxNoProgress THEN "stall"
                           ELSE IF Is(w, {"clarify"}) THEN "ask"
                           ELSE IF Is(w, Operations) THEN "tool"
                           ELSE IF Is(w, {"unusable"}) THEN "reject" ELSE "verify")

\* mark_model_call
Mark(w, status) ==
  calls' = IF Call(w).status = "response_committed"
           THEN [calls EXCEPT ![at[w].turn].status = status] ELSE calls
Marked(w, status) == Call(w).status \in {"response_committed", status}

\* _reject_model_output and the no-progress stop: the call is marked invalid.
Reject(w, s, next) ==
  /\ At(w, s) /\ Mark(w, "invalid")
  /\ Goto(w, IF Marked(w, "invalid") THEN next ELSE "block")
  /\ UNCHANGED <<run, jobs, rows, opVars, at, faults>>

Repairs(w) ==
  /\ Read(w, "repairs")
  /\ Goto(w, IF Cardinality({t \in DOMAIN calls : calls[t].status = "invalid"}) >= MaxRepairs
             THEN "fail" ELSE "return")
  /\ UNCHANGED at

\* request_clarification: the request of a response_hash is recorded once.
Ask(w) ==
  /\ At(w, "ask")
  /\ LET a == Call(w).answer
         new == question[a] = "none"
     IN  IF new /\ run # "running"
         THEN Goto(w, "block") /\ UNCHANGED <<run, question>>
         ELSE /\ Goto(w, "processed")
              /\ run' = IF new THEN "waiting_input" ELSE run
              /\ question' = IF new THEN [question EXCEPT ![a] = "pending"] ELSE question
  /\ UNCHANGED <<jobs, calls, rows, op, opEpoch, receipts, at, faults>>

\* One tool_call is reserved for each operation, and the turn is processed
\* after the last one.
ReserveTool(w) ==
  /\ At(w, "tool")
  /\ IF at[w].slot > Ops THEN Goto(w, "processed") /\ UNCHANGED row
     ELSE LET k == ToolKey(ThisOp(w))
              r == Reserving(k, 1)
          IN  Reserve(k, 1) /\ Goto(w, IF r = "ok" THEN "admit" ELSE r)
  /\ UNCHANGED <<run, jobs, calls, used, opVars, at, faults>>

\* ActionGateway.execute.  The Runner swallows every error of it but LeaseLost
\* and settles the tool call.
AdmitOp(w) ==
  /\ At(w, "admit") /\ ~Is(w, {"remote"})
  /\ LET o == ThisOp(w)
         new == op[o] = "none"
     IN  /\ op' = IF new /\ run \in {"queued", "running"} THEN [op EXCEPT ![o] = "ready"] ELSE op
         /\ Goto(w, IF op'[o] \in {"none", "succeeded", "failed"}
                    THEN "settle_tool" ELSE "start")
  /\ UNCHANGED <<run, jobs, calls, rows, question, opEpoch, receipts, at, faults>>

\* LeaseDispatchUnsupported: no other effect is dispatched under a lease.  The
\* Runner raises it after it has settled the tool call.
RefuseOp(w) ==
  /\ At(w, "admit") /\ Is(w, {"remote"})
  /\ Hold(w, "then", "block", "settle_tool")
  /\ UNCHANGED <<run, jobs, calls, rows, opVars, faults>>

\* ensure_run_running of the gateway is not given the lease.
StartOp(w) ==
  /\ At(w, "start")
  /\ IF run = "queued" THEN run' = "running" ELSE UNCHANGED run
  /\ Goto(w, IF run \in {"queued", "running"} THEN "dispatch" ELSE "settle_tool")
  /\ UNCHANGED <<jobs, calls, rows, opVars, at, faults>>

\* begin_action_dispatch: a ready action, or a replayable local one whose
\* attempt carries an earlier epoch.
Dispatchable(w, o) ==
  \/ op[o] = "ready"
  \/ op[o] = "running" /\ Is(w, {"write"}) /\ opEpoch[o] < at[w].epoch

DispatchOp(w) ==
  /\ At(w, "dispatch")
  /\ LET o == ThisOp(w) IN
     IF Dispatchable(w, o) /\ run = "running"
     THEN /\ op' = [op EXCEPT ![o] = "running"]
          /\ opEpoch' = [opEpoch EXCEPT ![o] = at[w].epoch]
          /\ Goto(w, "execute")
     ELSE Goto(w, "settle_tool") /\ UNCHANGED <<op, opEpoch>>
  /\ UNCHANGED <<run, jobs, calls, rows, question, receipts, at, faults>>

\* execute_bound: a local write and its receipt commit together, under no
\* lease; an effect that is already in the ledger is answered from it.
ExecuteOp(w) ==
  /\ At(w, "execute")
  /\ \E ok \in BOOLEAN :
       /\ ThisOp(w) \in receipts => ok
       /\ receipts' = IF ok /\ Is(w, {"write"}) THEN receipts \cup {ThisOp(w)} ELSE receipts
       /\ Hold(w, "flag", ok, "complete")
  /\ UNCHANGED <<run, jobs, calls, rows, question, op, opEpoch, faults>>

\* complete_action: an attempt of another epoch is LeaseLost, which is raised
\* after the tool call has been settled.
CompleteOp(w) ==
  /\ At(w, "complete")
  /\ LET o == ThisOp(w)
         mine == op[o] = "running" /\ opEpoch[o] = at[w].epoch
         lost == op[o] = "running" /\ opEpoch[o] # at[w].epoch
     IN  /\ op' = IF mine
                  THEN [op EXCEPT ![o] = IF at[w].flag THEN "succeeded" ELSE "failed"] ELSE op
         /\ Hold(w, "then", IF lost THEN "idle" ELSE "tool", "settle_tool")
  /\ UNCHANGED <<run, jobs, calls, rows, question, opEpoch, receipts, faults>>

SettleTool(w) ==
  /\ At(w, "settle_tool")
  /\ LET k == ToolKey(ThisOp(w))
         r == Settling(k, 1)
     IN  /\ Settle(k, 1)
         /\ IF r # "ok" THEN Goto(w, r) /\ UNCHANGED at
            ELSE CASE at[w].then = "idle"  -> Drop(w)
                   [] at[w].then = "block" -> Goto(w, "block") /\ UNCHANGED at
                   [] at[w].then = "tool"  -> Hold(w, "slot", at[w].slot + 1, "tool")
  /\ UNCHANGED <<run, jobs, calls, opVars, faults>>

\* CompletionGate.verify reads the evidence; record_completion commits what
\* the gate has found.
Unresolved == {o \in Op : op[o] \notin TerminalAction \cup {"none"}}

Verify(w) ==
  Read(w, "verify") /\ Hold(w, "flag", Is(w, {"final"}) /\ Unresolved = {}, "record")

Record(w) ==
  /\ At(w, "record")
  /\ IF at[w].flag /\ CanMove(run, "succeeded") THEN run' = "succeeded" /\ RetireReady
     ELSE UNCHANGED <<run, jobs>>
  /\ Goto(w, IF at[w].flag => CanMove(run, "succeeded") THEN "processed" ELSE "block")
  /\ UNCHANGED <<calls, rows, opVars, at, faults>>

MarkProcessed(w) ==
  /\ At(w, "processed") /\ Mark(w, "processed")
  /\ Goto(w, IF Marked(w, "processed") THEN "return" ELSE "block")
  /\ UNCHANGED <<run, jobs, rows, opVars, at, faults>>

-----------------------------------------------------------------------------
(* The end of run_once *)

Return(w) == Read(w, "return") /\ Hold(w, "seen", run, "finish")

\* complete_job, or defer_job while the Run is running.
Finish(w) ==
  /\ At(w, "finish")
  /\ SetJob(at[w].job, IF at[w].seen = "running" THEN "ready" ELSE "done")
  /\ Drop(w)
  /\ UNCHANGED <<run, calls, rows, opVars, faults>>

Defer(w) ==
  /\ At(w, "defer") /\ SetJob(at[w].job, "ready") /\ Drop(w)
  /\ UNCHANGED <<run, calls, rows, opVars, faults>>

\* InvalidTransition in an exception handler ends the process, lease and all.
Ends(w, target) ==
  IF run = target \/ CanMove(run, target)
  THEN run' = target /\ Hold(w, "seen", target, "finish")
  ELSE Drop(w) /\ UNCHANGED run

BlockRun(w) ==
  /\ At(w, "block") /\ Ends(w, "blocked")
  /\ UNCHANGED <<jobs, calls, rows, opVars, faults>>

FailRun(w) ==
  /\ At(w, "fail")
  /\ IF run \in TerminalRun
     THEN Hold(w, "seen", run, "finish") /\ UNCHANGED <<run, jobs>>
     ELSE run' = "failed" /\ Hold(w, "seen", "failed", "finish") /\ RetireReady
  /\ UNCHANGED <<calls, rows, opVars, faults>>

SettleUndispatched ==
  op' = [o \in Op |-> IF op[o] \in Undispatched THEN "cancelled" ELSE op[o]]
Uncertainties == {o \in Op : op[o] \in Uncertain}

\* terminate_run, for BudgetExhausted.
TerminateRun(w) ==
  /\ At(w, "exhausted")
  /\ LET target == IF Uncertainties = {} THEN "failed" ELSE "blocked" IN
     IF run \in TerminalRun
     THEN Hold(w, "seen", run, "finish") /\ UNCHANGED <<run, jobs, row, op>>
     ELSE IF ~CanMove(run, target)
     THEN Drop(w) /\ UNCHANGED <<run, jobs, row, op>>
     ELSE /\ run' = target /\ RetireReady /\ SettleUndispatched
          /\ row' = [k \in Key |-> IF row[k].status = "reserved"
                                   THEN [row[k] EXCEPT !.status = "released"] ELSE row[k]]
          /\ Hold(w, "seen", target, "finish")
  /\ UNCHANGED <<calls, used, question, opEpoch, receipts, faults>>

-----------------------------------------------------------------------------
(* The user, and the cancellation job *)

\* request_cancellation
RequestCancellation ==
  /\ CanMove(run, "cancelling") /\ run' = "cancelling"
  /\ SettleUndispatched /\ jobs' = Append(jobs, NewJob("cancel_run"))
  /\ UNCHANGED <<calls, rows, question, opEpoch, receipts, pc, at, faults>>

\* respond_to_input: the Run is queued again with a job of its own.
RespondAnswer(a) ==
  /\ question[a] = "pending" /\ run = "waiting_input"
  /\ question' = [question EXCEPT ![a] = "answered"]
  /\ run' = "queued" /\ jobs' = Append(jobs, NewJob("advance_run"))
  /\ UNCHANGED <<calls, rows, op, opEpoch, receipts, pc, at, faults>>

\* finalize_run_cancellation
Finalize(w, s, refused) ==
  /\ At(w, s)
  /\ IF run = "cancelling" /\ Unresolved = {}
     THEN run' = "cancelled" /\ RetireReady ELSE UNCHANGED <<run, jobs>>
  /\ IF run' = "cancelled" THEN Hold(w, "seen", "cancelled", "finish")
     ELSE Hold(w, "todo", {o \in Op : op[o] = "running"}, refused)
  /\ UNCHANGED <<calls, rows, opVars, faults>>

\* reconcile_local_action_for_cancellation, for each action that was running.
ReconcileLocal(w) ==
  /\ At(w, "reconcile")
  /\ IF at[w].todo = {} THEN Goto(w, "refinalize") /\ UNCHANGED <<op, at>>
     ELSE \E o \in at[w].todo :
            LET proved == op[o] = "running" /\ o \in receipts IN
            IF proved /\ run # "cancelling"
            THEN Goto(w, "defer") /\ UNCHANGED <<op, at>>
            ELSE /\ op' = IF proved THEN [op EXCEPT ![o] = "succeeded"] ELSE op
                 /\ Hold(w, "todo", at[w].todo \ {o}, "reconcile")
  /\ UNCHANGED <<run, jobs, calls, rows, question, opEpoch, receipts, faults>>

-----------------------------------------------------------------------------
Begin(w) ==
  \/ Observe(w) \/ Ensure(w) \/ Latest(w) \/ NextTurn(w) \/ Quota(w)
  \/ ReserveTurn(w) \/ ReserveOutput(w) \/ ReleaseTurn(w) \/ BeginCall(w)
  \/ Generate(w) \/ CommitCall(w) \/ SettleTurn(w) \/ SettleOutput(w)

ProcessAnswer(w) ==
  \/ Process(w) \/ Reject(w, "reject", "repairs") \/ Reject(w, "stall", "fail")
  \/ Repairs(w) \/ Ask(w) \/ Verify(w) \/ Record(w) \/ MarkProcessed(w)

Operate(w) ==
  \/ ReserveTool(w) \/ AdmitOp(w) \/ RefuseOp(w) \/ StartOp(w) \/ DispatchOp(w)
  \/ ExecuteOp(w) \/ CompleteOp(w) \/ SettleTool(w)

End(w) ==
  \/ Return(w) \/ Finish(w) \/ Defer(w) \/ BlockRun(w) \/ FailRun(w) \/ TerminateRun(w)
  \/ LoseLease(w)

Cancel(w) ==
  \/ Finalize(w, "finalize", "reconcile") \/ Finalize(w, "refinalize", "defer")
  \/ ReconcileLocal(w)

WorkerStep(w) == Begin(w) \/ ProcessAnswer(w) \/ Operate(w) \/ End(w) \/ Cancel(w)

Faulty(w) == Crash(w) \/ OutputFails(w) \/ ProviderFails(w) \/ ProviderRefuses(w)

User == RequestCancellation \/ \E a \in Answer : RespondAnswer(a)

Next ==
  \/ \E w \in Worker : \/ \E j \in DOMAIN jobs : Claim(w, j)
                       \/ WorkerStep(w) \/ Faulty(w)
  \/ User

Spec == Init /\ [][Next]_vars

\* A worker that is alive keeps going, and an idle one polls for due jobs.
Fairness == \A w \in Worker :
  WF_vars(WorkerStep(w) \/ \E j \in DOMAIN jobs : ~Held(j) /\ Claim(w, j))
FairSpec == Spec /\ Fairness

-----------------------------------------------------------------------------
(* Properties *)

Row == [status : {"none", "reserved", "settled", "released"}, amount : Nat]

\* The rows and the local variables of the workers hold values of their types.
TypeOK ==
  /\ run \in RunStatus /\ faults \in 0..MaxFaults
  /\ \A j \in DOMAIN jobs :
       jobs[j] \in [kind : {"advance_run", "cancel_run"},
                    status : {"ready", "leased", "done"}, epoch : 0..MaxEpoch]
  /\ \A t \in DOMAIN calls :
       /\ calls[t].status \in {"started", "response_committed", "invalid", "processed"}
       /\ calls[t].answer \in Answer \cup {<<"none", 0>>}
  /\ row \in [Key -> Row] /\ used \in [Dimension -> Nat]
  /\ op \in [Op -> ActionStatus \cup {"none"}] /\ receipts \subseteq Op
  /\ \A w \in Worker : pc[w] \in FencedStep \cup {"idle", "observe", "latest", "next",
       "quota", "generate", "settle_turn", "process", "repairs", "start", "execute",
       "verify", "return"}

\* What is used and what is reserved never exceed the limit, whatever a
\* provider reports and however often a turn is begun again.
WithinLimit == \A d \in Dimension : used[d] + Reserved(d) <= Limit[d]

\* No question of the Run has been answered: only the job it was created with
\* advances it.  respond_to_input enqueues another advance_run job, while the
\* first may still be leased or deferred.
Unanswered == \A j \in DOMAIN jobs : jobs[j].kind = "advance_run" => j = 1

\* A turn is closed only after its answer has been paid for, and a processed one
\* only after the operations it admitted have been, also when another worker
\* finishes the turn.  A turn stopped for no progress has admitted none, unless
\* two jobs advance the Run.
ClosedTurnIsCharged ==
  \A t \in DOMAIN calls : calls[t].status \in {"processed", "invalid"} =>
    /\ row[TurnKey(t)].status = "settled" /\ row[OutputKey(t)].status = "settled"
    /\ calls[t].status = "processed" \/ Unanswered =>
         \A i \in Slot : op[<<t, i>>] # "none" => row[ToolKey(<<t, i>>)].status = "settled"

\* An answer or an operation is paid for once, however often the steps around
\* it are repeated: the used amounts are those of the settled rows.
ChargedOnce ==
  /\ used["output_tokens"] =
       SumFunctionOnSet([t \in DOMAIN calls |-> calls[t].usage],
                        {t \in DOMAIN calls : row[OutputKey(t)].status = "settled"})
  /\ used["tool_call"] =
       Cardinality({o \in Op : row[ToolKey(o)].status = "settled"})

\* complete_model_call: the first committed answer of a turn stays, whatever a
\* second attempt of the same turn is told later, and a closed turn stays as it
\* is.
AnswerIsCommittedOnce ==
  [][\A t \in DOMAIN calls :
       /\ calls[t].status # "started" => calls'[t].answer = calls[t].answer
       /\ calls[t].status \in {"processed", "invalid"} => calls'[t] = calls[t]]_calls

\* A turn is begun only after the turn before it has been closed, while one job
\* advances the Run.
TurnsInOrder ==
  Unanswered =>
    \A t \in DOMAIN calls : t < Len(calls) => calls[t].status \in {"processed", "invalid"}

\* When a turn of a running Run is closed, each local write it dispatched has an
\* outcome the next turn can observe, also if the worker that dispatched it is
\* gone: the next lease of the job takes the write over.  (A read is not taken
\* over, and a second job has no part in the leases of the first.)
ClosedTurnIsObserved ==
  [][run = "running" /\ Unanswered => \A o \in Op :
       o[1] \in DOMAIN calls /\ calls'[o[1]].status = "processed" /\ calls[o[1]].answer[1] = "write" =>
         op[o] \in TerminalAction \cup {"none"}]_calls

\* The completion gate reads the actions in one transaction and ends the Run in
\* another.  Nobody admits an action in between while one job advances the Run; with
\* two, a Run may succeed with an action open (docs/03_runtime_recovery.md section
\* 9 says it does not).
SucceededRunIsResolved == run = "succeeded" => Unresolved = {}
SuccessLeavesNothingOpen == Unanswered => SucceededRunIsResolved

\* A queued or running Run has a job that will advance it.
LiveRunHasWakeup ==
  run \in {"queued", "running"} =>
    \E j \in DOMAIN jobs : jobs[j].kind = "advance_run" /\ jobs[j].status # "done"

\* With finitely many faults the turn budget and the workers bring the Run to
\* an end, to the user or to a stop that needs one.
EventuallyRests == <>[](run \notin {"queued", "running"})

-----------------------------------------------------------------------------
(* What the repository's documents say and the code does not do *)

\* docs/03_runtime_recovery.md section 5: the model decisions of a Run are
\* serial.
Deciding(w) == pc[w] \in {"generate", "commit"} /\ Fenced(w)
DecisionsAreSerial == \A w, v \in Worker : Deciding(w) /\ Deciding(v) => w = v

\* docs/03_runtime_recovery.md section 1: blocked means an unknown result, a
\* lost dependency or a manual reconciliation; a cancellation with no uncertain
\* effect is none of these.
CancellationIsNotLost ==
  [][run = "cancelling" /\ run' = "blocked" => Uncertainties # {}]_run

\* docs/03_runtime_recovery.md section 6: a read may be repeated, so that the next
\* turn observes an outcome of it as it does of a write.
OperationsAreObserved ==
  [][run = "running" => \A o \in Op :
       o[1] \in DOMAIN calls /\ calls'[o[1]].status = "processed" =>
         op[o] \in TerminalAction \cup {"none"}]_calls

\* docs/03_runtime_recovery.md section 1: the Run stops when its budget is
\* reached.
BudgetStopMeansSpent ==
  [][\A w \in Worker :
       pc[w] = "exhausted" /\ pc'[w] = "finish" /\ run # run' =>
         \E d \in Dimension : used[d] > 0]_run
=============================================================================
