---------------------------- MODULE TurnContext ----------------------------
(***************************************************************************)
(* What the model is shown in a turn: ContextBuilder.build of              *)
(* application/context.py, with the skills a Run is pinned to, the context *)
(* snapshots, the model calls that use them, and the checkpoints, over the *)
(* log of the Run.  Workers hold a lease on a job of the Run; they may run *)
(* different releases, and one whose lease has been taken goes on until    *)
(* its next fenced transaction.                                            *)
(*                                                                         *)
(* A context is the skills and the scopes it was built for and the moment  *)
(* its reads saw, given by event_seq.  Budget, observations and recent     *)
(* events are read in several statements; here in one step.                *)
(***************************************************************************)
EXTENDS EventLog

CONSTANTS
  Worker,        \* workers
  Release,       \* skill revisions, one for each release that is deployed
  Revision,      \* revisions of checkpoints and of the code that reads them
  Scope,         \* what the subject may be granted when a worker claims
  Job,           \* advance_run jobs of the Run
  MaxTurn,       \* bound: turns
  MaxCheckpoint, \* bound: checkpoints
  MaxTakeovers   \* bound: leases lapsed, workers dead, Runs resumed, checkpoints

ASSUME ContextAssumption ==
  /\ MaxTurn \in Nat \ {0} /\ MaxCheckpoint \in Nat \ {0} /\ MaxTakeovers \in Nat
  /\ Worker \cap {"none", "ready"} = {} /\ "none" \notin Revision
  /\ "none" \notin Release

VARIABLES
  run,        \* status of the Run: "running" or "blocked"
  pinned,     \* skill_refs; "none" before they are pinned
  snap,       \* the snapshot of each turn, or Unsaved
  call,       \* the model call of each turn: "none", "started" or "answered"
  closed,     \* event_seq when each turn was answered; 0 before
  sent,       \* the requests that went to the model
  holder,     \* the worker that leases each job, "ready", or "none" before it is due
  builder,    \* what each worker is doing
  checkpoint, \* the revision of each checkpoint, or "none"
  takeovers   \* lapses, deaths, resumptions and checkpoints so far

workVars == <<pinned, snap, call, closed, sent>>
contextVars == <<run, workVars, holder, builder, checkpoint, takeovers>>
allVars     == <<eventVars, contextVars>>

Turn    == 1..MaxTurn
Unsaved == [skills |-> "none", scope |-> "none", asof |-> 0]
Free    == [pc |-> "free", job |-> "none", turn |-> 0, release |-> "none",
            scope |-> "none", view |-> Unsaved]

CInit ==
  /\ LInit
  /\ run = "running" /\ pinned = "none"
  /\ snap = [t \in Turn |-> Unsaved] /\ call = [t \in Turn |-> "none"]
  /\ closed = [t \in Turn |-> 0] /\ sent = {}
  /\ holder = [j \in Job |-> "none"]
  /\ builder = [w \in Worker |-> Free]
  /\ checkpoint = [k \in 1..MaxCheckpoint |-> "none"] /\ takeovers = 0

Is(w, pc)  == builder[w].pc = pc
Be(w, state) == builder' = [builder EXCEPT ![w] = state]
Step(w, pc)  == Be(w, [builder[w] EXCEPT !.pc = pc])

\* With a context at hand, a worker needs release and scope no more.
With(w, pc, view) ==
  [Free EXCEPT !.pc = pc, !.job = builder[w].job, !.turn = builder[w].turn, !.view = view]

\* _require_claimed_run_job_locked
Leases(w) == holder[builder[w].job] = w

\* A transaction that locks the Run and appends one event.
Record == lock = "free" /\ Append(1, seq) /\ UNCHANGED <<lock, base, readerVars>>
NoRecord == lock = "free" /\ UNCHANGED eventVars

\* The worker's exception: block_run, if it still has its lease, and no job left.
Block(w) ==
  /\ Be(w, Free) /\ UNCHANGED <<workVars, checkpoint, takeovers>>
  /\ IF Leases(w)
     THEN /\ run' = "blocked" /\ holder' = [holder EXCEPT ![builder[w].job] = "none"]
          /\ IF run = "blocked" THEN NoRecord ELSE Record
     ELSE UNCHANGED <<run, holder, eventVars>>

\* LeaseLost: the worker gives up.
GiveUp(w) == Be(w, Free) /\ UNCHANGED <<eventVars, run, workVars, holder, checkpoint, takeovers>>

-----------------------------------------------------------------------------
(* Runner.advance up to the model call *)

\* A job falls due: the first one, or the one of an answered question.
Wake(j) ==
  /\ holder[j] = "none" /\ run = "running"
  /\ holder' = [holder EXCEPT ![j] = "ready"]
  /\ UNCHANGED <<eventVars, run, workVars, builder, checkpoint, takeovers>>

\* Between two claims a worker may be deployed again, with another release.
Claim(w, j) ==
  /\ Is(w, "free") /\ holder[j] = "ready"
  /\ holder' = [holder EXCEPT ![j] = w]
  /\ \E s \in Scope, r \in Release :
       Be(w, [Free EXCEPT !.pc = "claimed", !.job = j, !.release = r, !.scope = s])
  /\ UNCHANGED <<eventVars, run, workVars, checkpoint, takeovers>>

\* The call that was started, or the next one.
Current_Next == 1 + Cardinality({t \in Turn : call[t] # "none"})   \* mutant: no second attempt
Current == IF \E t \in Turn : call[t] = "started"
           THEN Max({t \in Turn : call[t] = "started"})
           ELSE 1 + Cardinality({t \in Turn : call[t] # "none"})
PickTurn(w) ==
  /\ Is(w, "claimed") /\ Current \in Turn
  /\ IF run = "running"
     THEN Be(w, [builder[w] EXCEPT !.pc = "picked", !.turn = Current]) /\ UNCHANGED holder
     ELSE Be(w, Free) /\ holder' = [holder EXCEPT ![builder[w].job] =
                                      IF Leases(w) THEN "none" ELSE @]
  /\ UNCHANGED <<eventVars, run, workVars, checkpoint, takeovers>>

\* get_context_snapshot: a saved context is used again under the same scopes.
Look(w) ==
  /\ Is(w, "picked")
  /\ LET saved == snap[builder[w].turn]
     IN  CASE saved = Unsaved -> Step(w, "loaded") /\ UNCHANGED <<eventVars, run, workVars,
                                   holder, checkpoint, takeovers>>
           [] saved # Unsaved /\ saved.scope = builder[w].scope ->
                /\ Be(w, With(w, "built", saved))
                /\ UNCHANGED <<eventVars, run, workVars, holder, checkpoint, takeovers>>
           [] OTHER -> Block(w)

\* mutant: the last worker pins.
Pin_Overwrites(w) ==
  /\ Is(w, "loaded") /\ Leases(w)
  /\ pinned' = builder[w].release /\ Step(w, "pinned") /\ Record
  /\ UNCHANGED <<run, snap, call, closed, sent, holder, checkpoint, takeovers>>
\* pin_run_skills: the first worker pins what its release loads.
Pin(w) ==
  /\ Is(w, "loaded")
  /\ IF ~Leases(w) THEN GiveUp(w)
     ELSE IF pinned \notin {"none", builder[w].release} THEN Block(w)
     ELSE /\ pinned' = builder[w].release /\ Step(w, "pinned")
          /\ IF pinned = "none" THEN Record ELSE NoRecord
          /\ UNCHANGED <<run, snap, call, closed, sent, holder, checkpoint, takeovers>>

\* list_actions, get_recent_events and budget_status.
Read(w) ==
  /\ Is(w, "pinned")
  /\ Be(w, With(w, "read", [skills |-> builder[w].release, scope |-> builder[w].scope,
                            asof |-> seq]))
  /\ UNCHANGED <<eventVars, run, workVars, holder, checkpoint, takeovers>>

\* mutant: the last snapshot stays.
Save_Overwrites(w) ==
  /\ Is(w, "read") /\ Leases(w)
  /\ snap' = [snap EXCEPT ![builder[w].turn] = builder[w].view]
  /\ Step(w, "built") /\ NoRecord
  /\ UNCHANGED <<run, pinned, call, closed, sent, holder, checkpoint, takeovers>>
\* save_context_snapshot: the first one stays; another content is a conflict.
Save(w) ==
  /\ Is(w, "read")
  /\ LET t == builder[w].turn
     IN  IF ~Leases(w) THEN GiveUp(w)
         ELSE IF snap[t] \notin {Unsaved, builder[w].view} THEN Block(w)
         ELSE /\ snap' = [snap EXCEPT ![t] = builder[w].view]
              /\ Step(w, "built") /\ NoRecord
              /\ UNCHANGED <<run, pinned, call, closed, sent, holder, checkpoint, takeovers>>

\* begin_model_call, and the request that follows it: a started call is tried
\* again, an answered one is not.
BeginCall(w) ==
  /\ Is(w, "built")
  /\ LET t == builder[w].turn
     IN  IF ~Leases(w) THEN GiveUp(w)
         ELSE IF run # "running" THEN Block(w)
         ELSE IF call[t] = "answered"
         THEN /\ Be(w, With(w, "answered", Unsaved)) /\ NoRecord
              /\ UNCHANGED <<run, workVars, holder, checkpoint, takeovers>>
         ELSE /\ call' = [call EXCEPT ![t] = "started"] /\ Record
              /\ sent' = sent \cup {[turn |-> t, view |-> builder[w].view]}
              /\ Be(w, With(w, "called", Unsaved))
              /\ UNCHANGED <<run, pinned, snap, closed, holder, checkpoint, takeovers>>

\* complete_model_call: the first answer stays.
CompleteCall(w) ==
  /\ Is(w, "called")
  /\ LET t == builder[w].turn
     IN  IF ~Leases(w) THEN GiveUp(w)
         ELSE /\ Step(w, "answered")
              /\ IF call[t] = "answered" THEN NoRecord /\ UNCHANGED <<call, closed>>
                 ELSE /\ Record /\ call' = [call EXCEPT ![t] = "answered"]
                      /\ closed' = [closed EXCEPT ![t] = seq + 1]
              /\ UNCHANGED <<run, pinned, snap, sent, holder, checkpoint, takeovers>>

\* defer_job; the operations of the turn are those of TurnLoop.
Finish(w) ==
  /\ Is(w, "answered") /\ Be(w, Free)
  /\ holder' = [holder EXCEPT ![builder[w].job] = IF Leases(w) THEN "ready" ELSE @]
  /\ UNCHANGED <<eventVars, run, workVars, checkpoint, takeovers>>

-----------------------------------------------------------------------------
(* Leases, deaths and checkpoints *)

TakenOver == takeovers < MaxTakeovers /\ takeovers' = takeovers + 1
Lapse(j) ==
  /\ holder[j] \in Worker /\ TakenOver
  /\ holder' = [holder EXCEPT ![j] = "ready"]
  /\ UNCHANGED <<eventVars, run, workVars, builder, checkpoint>>

Crash(w) ==
  /\ ~Is(w, "free") /\ TakenOver /\ Be(w, Free)
  /\ holder' = [holder EXCEPT ![builder[w].job] = IF Leases(w) THEN "ready" ELSE @]
  /\ UNCHANGED <<eventVars, run, workVars, checkpoint>>

\* save_checkpoint: the first one with a number stays.
SaveCheckpoint(k, rev) ==
  /\ checkpoint[k] = "none" /\ NoRecord /\ TakenOver
  /\ checkpoint' = [checkpoint EXCEPT ![k] = rev]
  /\ UNCHANGED <<run, workVars, holder, builder>>

\* recover_latest_checkpoint by code of this revision: a checkpoint of another
\* one blocks the Run.
Saved == {k \in DOMAIN checkpoint : checkpoint[k] # "none"}
RecoverCheckpoint(rev) ==
  /\ Saved # {} /\ checkpoint[Max(Saved)] # rev
  /\ run' = "blocked" /\ Record
  /\ UNCHANGED <<workVars, holder, builder, checkpoint, takeovers>>

\* reconcile_action and the like take a blocked Run up again with a new job.
Resume(j) ==
  /\ run = "blocked" /\ holder[j] = "none" /\ TakenOver
  /\ run' = "running" /\ holder' = [holder EXCEPT ![j] = "ready"]
  /\ UNCHANGED <<eventVars, workVars, builder, checkpoint>>

-----------------------------------------------------------------------------
Building(w) ==
  PickTurn(w) \/ Look(w) \/ Pin(w) \/ Read(w) \/ Save(w) \/ BeginCall(w)
  \/ CompleteCall(w) \/ Finish(w)

ContextStep ==
  \/ \E w \in Worker : Building(w) \/ Crash(w) \/ \E j \in Job : Claim(w, j)
  \/ \E j \in Job : Wake(j) \/ Lapse(j) \/ Resume(j)
  \/ \E rev \in Revision :
       RecoverCheckpoint(rev) \/ \E k \in 1..MaxCheckpoint : SaveCheckpoint(k, rev)

\* Bound: a Run is either followed, and any transactions append to its log, or
\* it is worked on, and these transactions do.
CNext ==
  \/ audience # {} /\ LNext /\ UNCHANGED contextVars
  \/ audience = {} /\ ContextStep

CSpec == CInit /\ [][CNext]_allVars

\* A client goes on asking and the server goes on answering.
FairCSpec ==
  /\ CSpec
  /\ \A c \in Client :
       /\ WF_allVars(c \in audience /\ Answering(c) /\ UNCHANGED contextVars)
       /\ WF_allVars(c \in audience /\ (\E view \in DOMAIN Limit : Ask(c, view))
                       /\ UNCHANGED contextVars)

-----------------------------------------------------------------------------
(* Properties *)

CTypeOK ==
  /\ LTypeOK
  /\ run \in {"running", "blocked"}
  /\ snap \in [Turn -> [skills : {"none"} \cup Release,
                        scope : {"none"} \cup Scope, asof : 0..MaxSeq]]
  /\ call \in [Turn -> {"none", "started", "answered"}] /\ closed \in [Turn -> 0..MaxSeq]
  /\ holder \in [Job -> Worker \cup {"none", "ready"}]
  /\ checkpoint \in [1..MaxCheckpoint -> Revision \cup {"none"}]
  /\ takeovers \in 0..MaxTakeovers

\* Whatever releases its workers run, a Run is guided by one revision of its
\* skills: the pin and the snapshots, written by different transactions, agree.
SkillsArePinned == \A t \in Turn : snap[t] # Unsaved => snap[t].skills = pinned

\* Every attempt at a turn shows the model the same context, also when another
\* worker, of another release or with another job, takes the turn up; and it is
\* the context that was saved.
OneContextPerTurn == \A s \in sent : s.view = snap[s.turn]

\* The context of a turn was read after every earlier turn was answered.
ContextCoversEarlierTurns ==
  \A t \in Turn : snap[t] # Unsaved =>
    \A u \in 1..(t - 1) : closed[u] # 0 /\ closed[u] <= snap[t].asof

-----------------------------------------------------------------------------
(* What the repository says and the code does not do *)

\* docs/02_http_contract.md section 7: without a cursor, a stream begins with
\* the history that is retained.
FreshClientIsServed ==
  [][\A c \in Client : cursor[c] = 0 /\ log # {} => told'[c] = told[c]]_allVars
=============================================================================
