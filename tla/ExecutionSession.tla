-------------------------- MODULE ExecutionSession --------------------------
(***************************************************************************)
(* One execution session: ExecutionService (application/execution.py) and  *)
(* the transactions on execution_sessions and executions                   *)
(* (run_controller.py) over the sandboxes of DockerExecutionBroker.        *)
(*                                                                         *)
(* A process has an ExecutionService: its handles and its lock per session *)
(* live in memory, and its sandboxes end with it.  The threads of all      *)
(* processes share the rows.  A step of a thread is one transaction or one *)
(* call of the broker; between two of them anything may happen.  The       *)
(* generation of a sandbox stands for its handle and its sandbox_ref.      *)
(***************************************************************************)
EXTENDS Naturals, Sequences, FiniteSets

CONSTANTS
  Thread,      \* callers of the service
  Process,     \* processes that run one; a call is served by any of them
  Action,      \* actions of the capability execution.python
  None,        \* no action, no process
  Answers,     \* the results a cell may have, of those complete_execution allows
  MaxSandbox   \* bound: sandboxes started

ASSUME NoneAssumption == None \notin Action /\ None \notin Process
ASSUME SandboxAssumption == MaxSandbox \in Nat

VARIABLES
  session,  \* the row of execution_sessions
  cells,    \* the row of executions of each action
  live,     \* the Run is not terminal
  handle,   \* _handles of each process; 0 if it has none
  started,  \* the process that started each sandbox, in order
  up,       \* sandboxes that are alive and known to their broker
  thread,   \* what each thread is doing
  ran       \* the actions whose code was sent to a sandbox, in that order

rows == <<session, cells, live>>
boxes == <<handle, started, up>>
vars == <<rows, boxes, thread, ran>>

Generation == 0 .. MaxSandbox
Lost == {"timed_out", "environment_lost"}
Results == {"succeeded", "failed", "output_limit", "artifact_limit"} \cup Lost
ASSUME AnswersAssumption == Answers \subseteq Results
SessionStatus == {"ready", "busy", "lost", "stopped"}

\* generation: the handle a thread has, or the generation it read.
\* status: the status of the session as it read it, or the result of its cell.
Idle == [pc |-> "idle", process |-> None, action |-> None, generation |-> 0, status |-> "none"]
Frame ==
  [pc : {"idle", "admit", "register", "discard", "check", "mark_lost", "fetch", "begin", "launch",
         "running", "complete", "pop", "restart", "replace", "forget", "stop"},
   process : Process \cup {None}, action : Action \cup {None}, generation : Generation,
   status : {"none"} \cup SessionStatus \cup Results]

TypeOK ==
  /\ session \in [status : {"none"} \cup SessionStatus, generation : Generation,
                  cell_seq : Nat]
  /\ cells \in [Action -> [status : {"none", "running"} \cup Results,
                           generation : Generation, index : Nat]]
  /\ live \in BOOLEAN
  /\ handle \in [Process -> Generation]
  /\ started \in Seq(Process) /\ up \subseteq DOMAIN started
  /\ thread \in [Thread -> Frame]
  /\ ran \in Seq(Action)

Init ==
  /\ session = [status |-> "none", generation |-> 0, cell_seq |-> 0]
  /\ cells = [a \in Action |-> [status |-> "none", generation |-> 0, index |-> 0]]
  /\ live = TRUE
  /\ handle = [p \in Process |-> 0] /\ started = <<>> /\ up = {}
  /\ thread = [t \in Thread |-> Idle]
  /\ ran = <<>>

At(t, pc) == thread[t].pc = pc
\* Forgets what it read; it still holds the lock if it executes a cell.
Dropped(f, pc) == [pc |-> pc, process |-> f.process, action |-> f.action, generation |-> 0,
                   status |-> "none"]
Drops(t, pc) == thread' = [thread EXCEPT ![t] = Dropped(thread[t], pc)]
Goes(t, pc) == thread' = [thread EXCEPT ![t].pc = pc]
Returns(t) == thread' = [thread EXCEPT ![t] = Idle]
Calls(t, f) == thread[t] = Idle /\ thread' = [thread EXCEPT ![t] = f]
Own(t) == handle[thread[t].process]

\* Broker.start: a new sandbox, whose handle the thread gets.
New == Len(started) + 1
Starts(p) == New <= MaxSandbox /\ started' = Append(started, p)

\* _locks: execute_cell holds the lock of the session to its end.
LockIsFree(p) == \A t \in Thread : thread[t].process = p => thread[t].action = None

-----------------------------------------------------------------------------
(* create_session.  All calls come from the action that created the session. *)

CreateSession(t, p) ==
  /\ Calls(t, [Idle EXCEPT !.pc = "admit", !.process = p, !.generation = New])
  /\ Starts(p) /\ up' = up \cup {New}
  /\ UNCHANGED <<rows, handle, ran>>

\* admit_execution_session: the row that exists, AlreadyTerminal or a new row.
Admit(t) ==
  /\ At(t, "admit")
  /\ \/ /\ session.status = "none" /\ live
        /\ session' = [status |-> "ready", generation |-> thread[t].generation, cell_seq |-> 0]
        /\ Goes(t, "register")
     \/ /\ session.status # "none" \/ ~live
        /\ Goes(t, "discard") /\ UNCHANGED session
  /\ UNCHANGED <<cells, live, boxes, ran>>

Register(t) ==
  /\ At(t, "register")
  /\ handle' = [handle EXCEPT ![thread[t].process] = thread[t].generation]
  /\ Returns(t) /\ UNCHANGED <<rows, started, up, ran>>

\* The sandbox was not taken: broker.stop.
Discard(t) ==
  /\ At(t, "discard") /\ up' = up \ {thread[t].generation}
  /\ Returns(t) /\ UNCHANGED <<rows, handle, started, ran>>

-----------------------------------------------------------------------------
(* reconcile_session, alone or as the first part of execute_cell. *)

Look(t, p, a) ==
  /\ Calls(t, [pc |-> "check", process |-> p, action |-> a, generation |-> session.generation,
               status |-> session.status])
  /\ session.status \in {"ready", "busy"}
  /\ UNCHANGED <<rows, boxes, ran>>

ReconcileSession(t, p) == Look(t, p, None)

\* A session that is lost or stopped raises EnvironmentLost at once.
ExecuteCell(t, p) == LockIsFree(p) /\ \E a \in Action : Look(t, p, a)

\* The handle of this process against the generation that was read, and is_alive.
Check(t) ==
  /\ At(t, "check")
  /\ IF Own(t) = thread[t].generation /\ Own(t) \in up
     THEN IF thread[t].action # None /\ thread[t].status = "ready"
          THEN Goes(t, "fetch")
          ELSE Returns(t)
     ELSE Drops(t, "mark_lost")
  /\ UNCHANGED <<rows, boxes, ran>>

\* mark_execution_session_lost; execute_cell then raises EnvironmentLost.
MarkLost(t) ==
  /\ At(t, "mark_lost")
  /\ session' = [session EXCEPT !.status = "lost"]
  /\ Returns(t) /\ UNCHANGED <<cells, live, boxes, ran>>

\* The handle is read once more, and then used.
Fetch(t) ==
  /\ At(t, "fetch")
  /\ IF Own(t) = thread[t].generation THEN Goes(t, "begin") ELSE Returns(t)
  /\ UNCHANGED <<rows, boxes, ran>>

-----------------------------------------------------------------------------
(* execute_cell. *)

\* Mutants: no look for a row of the action, and none at the generation.
CanBegin_NoReplay(t, a) ==
  session.generation = thread[t].generation /\ session.status = "ready" /\ live
CanBegin_AnyGeneration(t, a) ==
  cells[a].status = "none" /\ session.status = "ready" /\ live

CanBegin(t, a) ==
  /\ cells[a].status = "none"
  /\ session.generation = thread[t].generation /\ session.status = "ready" /\ live
NewCell(t) == [status |-> "running", generation |-> thread[t].generation,
               index |-> session.cell_seq + 1]

\* Mutant: the index of a cell does not advance.
Begin_SameIndex(t) ==
  /\ At(t, "begin")
  /\ LET a == thread[t].action IN
       IF CanBegin(t, a)
       THEN /\ session' = [session EXCEPT !.status = "busy"]
            /\ cells' = [cells EXCEPT ![a] = NewCell(t)]
            /\ Goes(t, "launch")
       ELSE Returns(t) /\ UNCHANGED <<session, cells>>
  /\ UNCHANGED <<live, boxes, ran>>

\* begin_execution; a row of the action is replayed, all else raises.
Begin(t) ==
  /\ At(t, "begin")
  /\ LET a == thread[t].action IN
       IF CanBegin(t, a)
       THEN /\ session' = [session EXCEPT !.status = "busy", !.cell_seq = @ + 1]
            /\ cells' = [cells EXCEPT ![a] = NewCell(t)]
            /\ Goes(t, "launch")
       ELSE Returns(t) /\ UNCHANGED <<session, cells>>
  /\ UNCHANGED <<live, boxes, ran>>

\* Broker.execute: a sandbox that ended raises, and the rows stay as they are.
Launch(t) ==
  /\ At(t, "launch")
  /\ IF thread[t].generation \in up
     THEN Goes(t, "running") /\ ran' = Append(ran, thread[t].action)
     ELSE Returns(t) /\ UNCHANGED ran
  /\ UNCHANGED <<rows, boxes>>

\* An answer, also one sent before the sandbox ended; after a timeout or a broken
\* answer the broker stops the sandbox.
Answer(t) ==
  /\ At(t, "running")
  /\ \E r \in Answers :
       /\ thread' = [thread EXCEPT ![t].pc = "complete", ![t].status = r]
       /\ up' = IF r \in Lost THEN up \ {thread[t].generation} ELSE up
  /\ UNCHANGED <<rows, handle, started, ran>>

\* An answer the broker or complete_execution refuses with an exception.
Unusable(t) == At(t, "running") /\ Returns(t) /\ UNCHANGED <<rows, boxes, ran>>

\* Mutant: only a success makes the session ready.
StatusAfter_Success(result) ==
  IF result \in Lost THEN "lost" ELSE IF result = "succeeded" THEN "ready" ELSE "busy"

\* Mutant: the result of the cell is written into the session.
StatusAfter_Result(result) == result

StatusAfter(result) == IF result \in Lost THEN "lost" ELSE "ready"

\* complete_execution: it looks at the row of the cell, not at the generation.
Complete(t) ==
  /\ At(t, "complete")
  /\ LET r == thread[t].status
         a == thread[t].action
     IN /\ IF cells[a].status = "running"
           THEN /\ cells' = [cells EXCEPT ![a].status = r]
                /\ session' = [session EXCEPT !.status = StatusAfter(r)]
           ELSE UNCHANGED <<session, cells>>
        /\ IF r \in Lost THEN Drops(t, "pop") ELSE Returns(t)
  /\ UNCHANGED <<live, boxes, ran>>

Pop(t) ==
  /\ At(t, "pop") /\ handle' = [handle EXCEPT ![thread[t].process] = 0]
  /\ Returns(t) /\ UNCHANGED <<rows, started, up, ran>>

-----------------------------------------------------------------------------
(* replace_session and stop_session: neither takes the lock. *)

ReplaceSession(t, p) ==
  /\ session.status # "none"
  /\ Calls(t, [Idle EXCEPT !.pc = "restart", !.process = p, !.generation = handle[p]])
  /\ UNCHANGED <<rows, boxes, ran>>

Brought(f) == [Idle EXCEPT !.pc = "replace", !.process = f.process, !.generation = New]

\* The old handle is stopped before the status of the session is known; broker.start
\* may raise ExecutionUnavailable.
Restart(t) ==
  /\ At(t, "restart")
  /\ \/ /\ Starts(thread[t].process)
        /\ thread' = [thread EXCEPT ![t] = Brought(thread[t])]
        /\ up' = (up \ {thread[t].generation}) \cup {New}
     \/ /\ Returns(t) /\ UNCHANGED started
        /\ up' = up \ {thread[t].generation}
  /\ UNCHANGED <<rows, handle, ran>>

\* replace_execution_session, or VersionConflict.
Replace(t) ==
  /\ At(t, "replace")
  /\ IF session.status \in {"lost", "stopped"}
     THEN /\ session' = [session EXCEPT !.status = "ready",
                                        !.generation = thread[t].generation]
          /\ Goes(t, "register")
     ELSE Goes(t, "discard") /\ UNCHANGED session
  /\ UNCHANGED <<cells, live, boxes, ran>>

\* The status is read, then the handle is stopped.
StopSession(t, p) ==
  /\ session.status # "none"
  /\ Calls(t, [Idle EXCEPT !.pc = "forget", !.process = p, !.status = session.status])
  /\ up' = up \ {handle[p]}
  /\ UNCHANGED <<rows, handle, started, ran>>

Forget(t) ==
  /\ At(t, "forget") /\ handle' = [handle EXCEPT ![thread[t].process] = 0]
  /\ IF thread[t].status = "lost" THEN Returns(t) ELSE Drops(t, "stop")
  /\ UNCHANGED <<rows, started, up, ran>>

Stop(t) ==
  /\ At(t, "stop")
  /\ session' = [session EXCEPT !.status = "stopped"]
  /\ Returns(t) /\ UNCHANGED <<cells, live, boxes, ran>>

-----------------------------------------------------------------------------
(* The environment. *)

\* The sandbox ends by itself: killed for its memory, or its daemon exits.
SandboxEnds ==
  /\ \E g \in up : up' = up \ {g}
  /\ UNCHANGED <<rows, handle, started, thread, ran>>

\* close, or the end of a process: threads, handles and sandboxes go with it.
Restarts(p) ==
  /\ handle' = [handle EXCEPT ![p] = 0]
  /\ up' = {g \in up : started[g] # p}
  /\ thread' = [t \in Thread |-> IF thread[t].process = p THEN Idle ELSE thread[t]]
  /\ UNCHANGED <<rows, started, ran>>

RunEnds == live /\ live' = FALSE /\ UNCHANGED <<session, cells, boxes, thread, ran>>

\* What a thread does once it has been called.
Continue(t) ==
  \/ Admit(t) \/ Register(t) \/ Discard(t)
  \/ Check(t) \/ MarkLost(t) \/ Fetch(t)
  \/ Begin(t) \/ Launch(t) \/ Answer(t) \/ Unusable(t) \/ Complete(t) \/ Pop(t)
  \/ Restart(t) \/ Replace(t) \/ Forget(t) \/ Stop(t)

Next ==
  \/ \E t \in Thread, p \in Process :
       \/ CreateSession(t, p) \/ ReconcileSession(t, p) \/ ExecuteCell(t, p)
       \/ ReplaceSession(t, p) \/ StopSession(t, p)
  \/ \E t \in Thread : Continue(t)
  \/ SandboxEnds \/ RunEnds
  \/ \E p \in Process : Restarts(p)

Spec == Init /\ [][Next]_vars

-----------------------------------------------------------------------------
(* What a session promises. *)

\* The code of an action is sent to a sandbox at most once, however many threads of
\* however many processes are called with it, and whatever is replaced in between.
ActionRunsOnce ==
  \A i, j \in DOMAIN ran : ran[i] = ran[j] => i = j

\* A sandbox is asked for its cells in the order of their indices.
CellsRunInOrder ==
  \A i, j \in DOMAIN ran :
    i < j /\ cells[ran[i]].generation = cells[ran[j]].generation =>
      cells[ran[i]].index < cells[ran[j]].index

\* The cells of a sandbox follow each other in the session: what one of them defined
\* is there for the next, and no cell of another sandbox comes in between.
CellsOfASandboxAreConsecutive ==
  \A a, b \in Action :
    /\ cells[a].status # "none" /\ cells[b].status # "none"
    /\ cells[a].index < cells[b].index /\ cells[a].generation = session.generation
    => cells[b].generation = session.generation

\* A busy session waits for its latest cell, and for one that will be heard of: the
\* row of the cell is still running, in the generation of the session.
BusySessionHasRunningCell ==
  session.status = "busy" =>
    \E a \in Action :
      /\ cells[a].status = "running" /\ cells[a].index = session.cell_seq
      /\ cells[a].generation = session.generation

\* The recovery document invalidates the generation of a process that has exited.
\* That does not hold for the row: a cell that answered before completes after the
\* session was lost or stopped, and makes it ready in the old generation.
InvalidGenerationStaysInvalid ==
  [][session.status \in {"lost", "stopped"} /\ session'.status \in {"ready", "busy"}
       => session'.generation # session.generation]_vars

\* Cells of a session are serial by default, says the strategy document.  They are in
\* one process; a session replaced by another process has two cells under way.
CellsAreSerial ==
  \A s, t \in Thread : At(s, "running") /\ At(t, "running") => s = t

\* A sandbox that is up can be reached, or is about to be.  It cannot always: a cell
\* of the old generation that ends late drops the handle of the new sandbox.
SandboxIsReachable ==
  \A g \in up : \/ \E p \in Process : handle[p] = g
               \/ \E t \in Thread : thread[t].generation = g /\ thread[t].pc \in
                                       {"admit", "register", "discard", "replace"}
=============================================================================
