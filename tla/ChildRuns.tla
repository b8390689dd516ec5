------------------------------ MODULE ChildRuns ------------------------------
(***************************************************************************)
(* Runs that admit child Runs: the lineage, quota and cancellation         *)
(* transactions of application/run_controller.py over a tree of Runs.  The *)
(* database runs them at READ COMMITTED.  A transaction locks the row of   *)
(* the Run it decides on, so most are one step; a cancellation also locks  *)
(* the row of every child Run of its owner, one after the other, and is    *)
(* one step per lock.  Of the actions of a Run only the one effect that    *)
(* may still be unsettled matters here, of its budget one dimension.       *)
(***************************************************************************)
EXTENDS RunStates, Naturals, FiniteSets, FiniteSetsExt

CONSTANTS
  Run,         \* identifiers of Runs, given out in order
  Caller,      \* calls of request_cancellation, each made once
  Root,        \* bound: the Runs that are admitted without a parent
  MaxDepth,    \* max_depth of admit_child_run
  MaxChildren, \* max_children of admit_child_run
  RootLimit,   \* the limit of the budget of a Run without a parent
  Quotas,      \* the limits a child may be given
  MaxEffects   \* bound: effects dispatched in all

ASSUME RunAssumption    == Run \subseteq Nat \ {0} /\ Root \subseteq Run
ASSUME CallerAssumption == Caller \cap {"free"} = {}
ASSUME LimitAssumption  == /\ MaxDepth \in Nat /\ MaxChildren \in Nat
                           /\ RootLimit \in Nat /\ Quotas \subseteq Nat
                           /\ MaxEffects \in Nat

VARIABLES
  status,   \* status of each Run; "absent" before it is admitted
  parent,   \* parent_run_id; 0 for a root
  depth,    \* child_depth
  limit,    \* the limit of the budget of each Run
  used,     \* what it has used
  quota,    \* children whose reservation in the parent's budget is "reserved"
  effect,   \* the unsettled effect of each Run: "none", "open" or "unknown"
  effects,  \* effects dispatched so far
  wake,     \* Runs with a cancel_run job that is not done
  lock,     \* the cancellation that holds the row of each Run, or "free"
  caller    \* how far each cancellation has come

rows    == <<parent, depth, limit>>
budgets == <<used, quota>>
work    == <<effect, effects>>
locks   == <<lock, caller>>
vars    == <<status, rows, budgets, work, wake, locks>>

Start  == [pc |-> "idle", root |-> 0, snap |-> {}]
Done   == [pc |-> "done", root |-> 0, snap |-> {}]
Live(r) == status[r] \notin TerminalRun \cup {"absent"}
Free(r) == lock[r] = "free"
Children(r) == {x \in Run : parent[x] = r}

\* _has_nonterminal_children
HasLiveChild(r) == \E x \in Children(r) : Live(x)

\* The active reservations of children, which count against the limit.
Reserved_Later(r) == 0   \* mutant: a child counts when it has used something
Reserved(r) == SumFunctionOnSet(limit, quota \cap Children(r))

\* A Run and what a walk over these rows finds below it: rows come by depth, each
\* after its parent.
Closed(s, found) == \A x \in found : parent[x] \in s => x \in s
Below(r, found) ==
  {x \in Run : \A s \in SUBSET Run : r \in s /\ Closed(s, found) => x \in s}

Set(r, s) == status' = [status EXCEPT ![r] = s]
Move(r, s) == Live(r) /\ Free(r) /\ CanMove(status[r], s) /\ Set(r, s)

Init ==
  /\ status = [r \in Run |-> "absent"]
  /\ parent = [r \in Run |-> 0] /\ depth = [r \in Run |-> 0]
  /\ limit = [r \in Run |-> 0] /\ used = [r \in Run |-> 0]
  /\ quota = {} /\ effect = [r \in Run |-> "none"] /\ effects = 0
  /\ wake = {}
  /\ lock = [r \in Run |-> "free"] /\ caller = [c \in Caller |-> Start]

-----------------------------------------------------------------------------
(* Admission and budgets *)

\* A new row.
Insert(r, p, d, n) ==
  /\ status[r] = "absent" /\ \A x \in Run : x < r => status[x] # "absent"
  /\ Set(r, "queued")
  /\ parent' = [parent EXCEPT ![r] = p] /\ depth' = [depth EXCEPT ![r] = d]
  /\ limit' = [limit EXCEPT ![r] = n]
  /\ UNCHANGED <<used, work, wake, locks>>

\* admit_run
AdmitRun(r) == r \in Root /\ Insert(r, 0, 0, RootLimit) /\ UNCHANGED quota

\* admit_child_run: lineage and quota reservation commit together.
AdmitChild(p, r, n) ==
  /\ Free(p) /\ status[p] \in {"queued", "running"}
  /\ depth[p] < MaxDepth /\ Cardinality(Children(p)) < MaxChildren
  /\ used[p] + Reserved(p) + n <= limit[p]
  /\ Insert(r, p, depth[p] + 1, n)
  /\ quota' = quota \cup {r}

\* reserve_budget and settle_budget of one unit of the Run's own work.
Spend(r) ==
  /\ status[r] = "running"
  /\ used[r] + Reserved(r) + 1 <= limit[r]
  /\ used' = [used EXCEPT ![r] = @ + 1]
  /\ UNCHANGED <<status, rows, quota, work, wake, locks>>

-----------------------------------------------------------------------------
(* The life of one Run *)

EnsureRunning(r) ==
  /\ status[r] = "queued" /\ Move(r, "running")
  /\ UNCHANGED <<rows, budgets, work, wake, locks>>

\* begin_action_dispatch
Dispatch(r) ==
  /\ Free(r) /\ status[r] = "running" /\ effect[r] = "none" /\ effects < MaxEffects
  /\ effect' = [effect EXCEPT ![r] = "open"] /\ effects' = effects + 1
  /\ UNCHANGED <<status, rows, budgets, wake, locks>>

\* complete_action
Result(r) ==
  /\ Free(r) /\ effect[r] = "open" /\ effect' = [effect EXCEPT ![r] = "none"]
  /\ UNCHANGED <<status, rows, budgets, effects, wake, locks>>

\* mark_action_outcome_unknown
OutcomeUnknown(r) ==
  /\ effect[r] = "open" /\ effect' = [effect EXCEPT ![r] = "unknown"]
  /\ IF status[r] = "blocked" THEN Free(r) /\ UNCHANGED status ELSE Move(r, "blocked")
  /\ UNCHANGED <<rows, budgets, effects, wake, locks>>

\* reconcile_action: a blocked Run is queued, a cancelling one may be settled.
Reconcile(r) ==
  /\ Free(r) /\ effect[r] = "unknown" /\ effect' = [effect EXCEPT ![r] = "none"]
  /\ CASE status[r] = "blocked" -> Set(r, "queued")
       [] status[r] = "cancelling" /\ ~HasLiveChild(r) -> Set(r, "cancelled")
       [] OTHER -> UNCHANGED status
  /\ UNCHANGED <<rows, budgets, effects, wake, locks>>

\* block_run
Block(r) ==
  /\ Move(r, "blocked")
  /\ UNCHANGED <<rows, budgets, work, wake, locks>>

\* mutant: only the Run's own work is looked at.
EndRun_IgnoresChildren(r, s) ==
  /\ s = "succeeded" => effect[r] = "none"
  /\ Move(r, s) /\ wake' = wake \ {r}
  /\ UNCHANGED <<rows, budgets, work, locks>>
\* fail_run, and record_completion of a Run without an open action: a terminal
\* Run retires its ready jobs.
EndRun(r, s) ==
  /\ s = "succeeded" => effect[r] = "none"
  /\ Move(r, s) /\ ~HasLiveChild(r)
  /\ wake' = wake \ {r}
  /\ UNCHANGED <<rows, budgets, work, locks>>

\* terminate_run: every reservation of the Run is released, its children's too,
\* also when an uncertain effect or a live child keeps the Run open.
TerminateRun(r) ==
  /\ Live(r)
  /\ quota' = quota \ Children(r)
  /\ IF effect[r] = "none" THEN Move(r, "failed") /\ ~HasLiveChild(r)
                           ELSE Move(r, "blocked")
  /\ wake' = wake \ {r}
  /\ UNCHANGED <<rows, used, work, locks>>

\* mutant: the job is done also when its transaction is refused.
Finalize_OneTry(r) ==
  /\ r \in wake /\ wake' = wake \ {r}
  /\ IF status[r] = "cancelling" /\ effect[r] = "none" /\ ~HasLiveChild(r)
     THEN Move(r, "cancelled") ELSE Free(r) /\ UNCHANGED status
  /\ UNCHANGED <<rows, budgets, work, locks>>
\* finalize_run_cancellation, called for a cancel_run job, which comes back as
\* long as it is refused.
Finalize(r) ==
  /\ r \in wake /\ wake' = wake \ {r}
  /\ \/ /\ status[r] = "cancelling" /\ effect[r] = "none" /\ ~HasLiveChild(r)
        /\ Move(r, "cancelled")
     \/ status[r] = "cancelled" /\ Free(r) /\ UNCHANGED status
  /\ UNCHANGED <<rows, budgets, work, locks>>

-----------------------------------------------------------------------------
(* request_cancellation *)

At(c, pc)  == caller[c].pc = pc
Held(c)    == {r \in Run : lock[r] = c}
Release(c) == lock' = [r \in Run |-> IF lock[r] = c THEN "free" ELSE lock[r]]
Goto(c, s) == caller' = [caller EXCEPT ![c] = s]

\* The Run's own row, and the statement that selects the owner's child rows: it
\* sees those that are committed now.  On a cancelling Run nothing changes.
LockRoot(c, r) ==
  /\ At(c, "idle") /\ Free(r) /\ Live(r) /\ status[r] # "cancelling"
  /\ lock' = [lock EXCEPT ![r] = c]
  /\ Goto(c, [pc |-> "walking", root |-> r, snap |-> {x \in Run : parent[x] # 0}])
  /\ UNCHANGED <<status, rows, budgets, work, wake>>

\* ORDER BY child_depth, id ... FOR UPDATE.
Before(x, y) == depth[x] < depth[y] \/ (depth[x] = depth[y] /\ x < y)
Unlocked(c)  == caller[c].snap \ Held(c)
IsNext(c, x) == x \in Unlocked(c) /\ \A y \in Unlocked(c) \ {x} : Before(x, y)

LockNext(c) ==
  /\ At(c, "walking")
  /\ \E x \in Unlocked(c) : IsNext(c, x) /\ Free(x) /\ lock' = [lock EXCEPT ![x] = c]
  /\ UNCHANGED <<status, rows, budgets, work, wake, caller>>

\* The intent of the Run and of the live descendants that were selected.
CommitCancellation(c) ==
  /\ At(c, "walking") /\ Unlocked(c) = {}
  /\ LET r == caller[c].root
         told == {x \in Run : /\ x \in Below(r, caller[c].snap)
                              /\ Live(x) /\ status[x] # "cancelling"}
     IN  /\ status' = [x \in Run |-> IF x \in told THEN "cancelling" ELSE status[x]]
         /\ wake' = wake \cup told
  /\ Release(c) /\ Goto(c, Done)
  /\ UNCHANGED <<rows, budgets, work>>

\* Two cancellations wait for each other: the database aborts one of them.
WaitsFor(c, d) == At(c, "walking") /\ \E x \in Unlocked(c) : IsNext(c, x) /\ lock[x] = d
AbortDeadlock(c) ==
  /\ \E d \in Caller \ {c} : WaitsFor(c, d) /\ WaitsFor(d, c)
  /\ Release(c) /\ Goto(c, Done)
  /\ UNCHANGED <<status, rows, budgets, work, wake>>

-----------------------------------------------------------------------------
RunStep(r) ==
  \/ AdmitRun(r) \/ \E p \in Run, n \in Quotas : AdmitChild(p, r, n)
  \/ Spend(r) \/ EnsureRunning(r) \/ Dispatch(r) \/ Result(r)
  \/ OutcomeUnknown(r) \/ Reconcile(r) \/ Block(r)
  \/ \E s \in {"succeeded", "failed"} : EndRun(r, s)
  \/ TerminateRun(r) \/ Finalize(r)

CallerStep(c) ==
  LockNext(c) \/ CommitCancellation(c) \/ AbortDeadlock(c)

Next ==
  \/ \E r \in Run : RunStep(r)
  \/ \E c \in Caller : CallerStep(c) \/ \E r \in Run : LockRoot(c, r)

Spec == Init /\ [][Next]_vars

\* Workers take their cancel_run jobs, the threads of a cancellation go on and
\* an effect that was dispatched gets its result; nobody is obliged to admit,
\* to end or to cancel a Run.
FairSpec ==
  /\ Spec
  /\ \A r \in Run : WF_vars(Finalize(r)) /\ WF_vars(Result(r))
  /\ \A c \in Caller : WF_vars(CallerStep(c))

-----------------------------------------------------------------------------
(* Properties *)

\* The columns hold values of their types.
TypeOK ==
  /\ status \in [Run -> RunStatus \cup {"absent"}]
  /\ parent \in [Run -> Run \cup {0}] /\ depth \in [Run -> 0..MaxDepth]
  /\ limit \in [Run -> Nat] /\ used \in [Run -> Nat]
  /\ quota \subseteq Run /\ effect \in [Run -> {"none", "open", "unknown"}]
  /\ effects \in 0..MaxEffects
  /\ wake \subseteq Run
  /\ lock \in [Run -> Caller \cup {"free"}]
  /\ caller \in [Caller -> [pc : {"idle", "walking", "done"}, root : Run \cup {0},
                            snap : SUBSET Run]]

\* A Run ends after its children: whichever transaction ends it, and whichever
\* admits a child at the same time, no terminal Run has a live child.
TerminalRunHasNoLiveChild ==
  \A r \in Run : status[r] \in TerminalRun => ~HasLiveChild(r)

\* A cancelling Run has a cancel_run job, also when the cancellation came from
\* above: nothing that ends or blocks a Run retires the job of one that is
\* still cancelling.
CancellingRunIsWoken == \A r \in Run : status[r] = "cancelling" => r \in wake

\* As long as no reservation has been released, what a Run and everything below
\* it has used stays within the Run's limit, although each Run of the tree is
\* checked against its own budget row only.
TreeWithinLimit ==
  \A r \in Run : Below(r, Run) \ {r} \subseteq quota =>
    SumFunctionOnSet(used, Below(r, Run)) <= limit[r]

\* A tree that is being cancelled as a whole comes to an end, from its leaves
\* to its root, unless an effect in it is unknown.
CancelledTreeSettles ==
  \A r \in Run :
    (status[r] = "cancelling"
       /\ \A x \in Below(r, Run) : Live(x) => status[x] = "cancelling")
      ~> (status[r] \in TerminalRun
            \/ \E x \in Below(r, Run) : status[x] = "blocked" \/ effect[x] = "unknown")

-----------------------------------------------------------------------------
(* What the repository says and the code does not do *)

\* application/run_controller.py:845: the cancellation of a Run is committed
\* with that of every live descendant.
CancellationReachesDescendants ==
  [][\A r \in Run : status[r] # "cancelling" /\ status'[r] = "cancelling" =>
       \A x \in Below(r, Run)' : Live(x)' => status'[x] = "cancelling"]_vars

\* docs/05_model_context_strategy.md section 7: everything the children cost
\* counts against the parent's budget.
ChildrenWithinBudget ==
  \A r \in Run : SumFunctionOnSet(used, Below(r, Run)) <= limit[r]
=============================================================================
