-------------------------- MODULE ChildRunsProofs --------------------------
(***************************************************************************)
(* Theorems about ChildRuns, for every set of Runs and of cancellations,   *)
(* every depth, breadth and limit: a tree ends from its leaves, a Run that *)
(* is being cancelled keeps its job, and nobody joins a tree from within.  *)
(***************************************************************************)
EXTENDS ChildRuns, SumTheorems

-----------------------------------------------------------------------------
(* Types *)

\* A Run moves between statuses of the table.
LEMMA MoveTypes ==
  ASSUME TypeOK, NEW r \in Run, NEW s \in RunStatus, Set(r, s)
  PROVE  status' \in [Run -> RunStatus \cup {"absent"}]
  BY DEF TypeOK, Set

\* What a step of a Run may write is of the type of its column.
LEMMA RunTypes ==
  ASSUME TypeOK, NEW r \in Run, RunStep(r)
  PROVE  TypeOK'
<1> USE DEF rows, budgets, work, locks
<1>1. {"queued", "running", "blocked", "cancelled", "succeeded", "failed"} \subseteq RunStatus
  BY DEF RunStatus, TerminalRun
<1>2. ASSUME NEW p \in Run \cup {0}, NEW d \in 0..MaxDepth, NEW n \in Nat,
             Insert(r, p, d, n), quota' \subseteq Run
      PROVE  TypeOK'
  <2>1. status' \in [Run -> RunStatus \cup {"absent"}]
    BY <1>1, <1>2, MoveTypes DEF Insert
  <2>. QED
    BY <2>1, <1>2 DEF Insert, TypeOK
<1>3. CASE AdmitRun(r)
  <2>1. 0 \in 0..MaxDepth /\ RootLimit \in Nat /\ quota' \subseteq Run
    BY <1>3, LimitAssumption DEF AdmitRun, TypeOK
  <2>. QED
    BY <2>1, <1>2, <1>3 DEF AdmitRun
<1>4. CASE \E p \in Run, n \in Quotas : AdmitChild(p, r, n)
  <2>1. PICK p \in Run, n \in Quotas : AdmitChild(p, r, n)
    BY <1>4
  <2>2. depth[p] + 1 \in 0..MaxDepth
    BY <2>1, LimitAssumption DEF AdmitChild, TypeOK
  <2>3. n \in Nat /\ quota' \subseteq Run
    BY <2>1, LimitAssumption DEF AdmitChild, TypeOK
  <2>. QED
    BY <2>1, <2>2, <2>3, <1>2 DEF AdmitChild
<1>5. CASE Spend(r)
  BY <1>5 DEF Spend, TypeOK
<1>6. CASE EnsureRunning(r) \/ Block(r)
  BY <1>1, <1>6, MoveTypes DEF EnsureRunning, Block, Move, TypeOK
<1>7. CASE Dispatch(r)
  BY <1>7, LimitAssumption DEF Dispatch, TypeOK
<1>8. CASE Result(r)
  BY <1>8 DEF Result, TypeOK
<1>9. CASE OutcomeUnknown(r)
  <2>1. status' \in [Run -> RunStatus \cup {"absent"}]
    BY <1>1, <1>9, MoveTypes DEF OutcomeUnknown, Move, TypeOK
  <2>. QED
    BY <2>1, <1>9 DEF OutcomeUnknown, TypeOK
<1>10. CASE Reconcile(r)
  <2>1. status' \in [Run -> RunStatus \cup {"absent"}]
    BY <1>1, <1>10, MoveTypes DEF Reconcile, TypeOK
  <2>. QED
    BY <2>1, <1>10 DEF Reconcile, TypeOK
<1>11. CASE \E s \in {"succeeded", "failed"} : EndRun(r, s)
  <2>1. status' \in [Run -> RunStatus \cup {"absent"}]
    BY <1>1, <1>11, MoveTypes DEF EndRun, Move
  <2>. QED
    BY <2>1, <1>11 DEF EndRun, TypeOK
<1>12. CASE TerminateRun(r)
  <2>1. status' \in [Run -> RunStatus \cup {"absent"}]
    BY <1>1, <1>12, MoveTypes DEF TerminateRun, Move
  <2>. QED
    BY <2>1, <1>12 DEF TerminateRun, TypeOK
<1>13. CASE Finalize(r)
  <2>1. status' \in [Run -> RunStatus \cup {"absent"}]
    BY <1>1, <1>13, MoveTypes DEF Finalize, Move, TypeOK
  <2>. QED
    BY <2>1, <1>13 DEF Finalize, TypeOK
<1>. QED
  BY <1>3, <1>4, <1>5, <1>6, <1>7, <1>8, <1>9, <1>10, <1>11, <1>12, <1>13 DEF RunStep

\* The commit of a cancellation moves live Runs that are not cancelling, and wakes
\* all it moves.
LEMMA Told ==
  ASSUME NEW c \in Caller, CommitCancellation(c)
  PROVE  \E told \in SUBSET {x \in Run : Live(x) /\ status[x] # "cancelling"} :
           /\ status' = [x \in Run |-> IF x \in told THEN "cancelling" ELSE status[x]]
           /\ wake' = wake \cup told
<1> DEFINE told == {x \in Run : /\ x \in Below(caller[c].root, caller[c].snap)
                               /\ Live(x) /\ status[x] # "cancelling"}
<1>1. /\ status' = [x \in Run |-> IF x \in told THEN "cancelling" ELSE status[x]]
      /\ wake' = wake \cup told
  BY DEF CommitCancellation
<1>2. told \in SUBSET {x \in Run : Live(x) /\ status[x] # "cancelling"}
  OBVIOUS
<1>. QED
  BY <1>1, <1>2

\* A cancellation locks rows, and gives them back as it ends.
LEMMA CallerTypes ==
  ASSUME TypeOK, NEW c \in Caller,
         CallerStep(c) \/ \E r \in Run : LockRoot(c, r)
  PROVE  TypeOK'
<1> USE DEF rows, budgets, work, TypeOK
<1>1. ASSUME NEW r \in Run, LockRoot(c, r) PROVE TypeOK'
  <2>1. lock' \in [Run -> Caller \cup {"free"}]
    BY <1>1 DEF LockRoot
  <2>2. caller' \in [Caller -> [pc : {"idle", "walking", "done"}, root : Run \cup {0},
                                snap : SUBSET Run]]
    BY <1>1 DEF LockRoot, Goto
  <2>. QED
    BY <2>1, <2>2, <1>1 DEF LockRoot
<1>2. CASE LockNext(c)
  BY <1>2 DEF LockNext
<1>3. ASSUME Release(c), Goto(c, Done)
      PROVE  /\ lock' \in [Run -> Caller \cup {"free"}]
             /\ caller' \in [Caller -> [pc : {"idle", "walking", "done"},
                                        root : Run \cup {0}, snap : SUBSET Run]]
  BY <1>3 DEF Release, Goto, Done
<1>4. CASE CommitCancellation(c)
  <2>1. PICK told \in SUBSET Run :
          /\ status' = [x \in Run |-> IF x \in told THEN "cancelling" ELSE status[x]]
          /\ wake' = wake \cup told
    BY <1>4, Told
  <2>2. "cancelling" \in RunStatus
    BY DEF RunStatus
  <2>. QED
    BY <2>1, <2>2, <1>3, <1>4 DEF CommitCancellation
<1>5. CASE AbortDeadlock(c)
  BY <1>3, <1>5 DEF AbortDeadlock
<1>. QED
  BY <1>1, <1>2, <1>4, <1>5 DEF CallerStep

\* Columns hold values of their types, also while several cancellations hold
\* locks on rows of one tree.
THEOREM TypeCorrect == Spec => []TypeOK
<1>1. Init => TypeOK
  BY LimitAssumption DEF Init, TypeOK, Start, rows
<1>2. TypeOK /\ [Next]_vars => TypeOK'
  <2> SUFFICES ASSUME TypeOK, [Next]_vars PROVE TypeOK'
    OBVIOUS
  <2>1. CASE \E r \in Run : RunStep(r)
    BY <2>1, RunTypes
  <2>2. CASE \E c \in Caller : CallerStep(c) \/ \E r \in Run : LockRoot(c, r)
    BY <2>2, CallerTypes
  <2>3. CASE UNCHANGED vars
    BY <2>3 DEF vars, rows, budgets, work, locks, TypeOK
  <2>. QED
    BY <2>1, <2>2, <2>3 DEF Next
<1>. QED
  BY <1>1, <1>2, PTL DEF Spec

-----------------------------------------------------------------------------
(* Ends *)

\* A step keeps the order of ends if no child changes its parent, nobody comes
\* back to life, and what ends has no live child.
LEMMA EndsInOrder ==
  ASSUME TerminalRunHasNoLiveChild, UNCHANGED parent,
         \A x \in Run : Live(x)' => Live(x),
         \A x \in Run : status'[x] \in TerminalRun =>
                          status[x] \in TerminalRun \/ ~HasLiveChild(x)
  PROVE  TerminalRunHasNoLiveChild'
  BY DEF TerminalRunHasNoLiveChild, HasLiveChild, Children

\* The same for a step that moves one live Run, at most.
LEMMA MoveInOrder ==
  ASSUME TypeOK, TerminalRunHasNoLiveChild, UNCHANGED parent, NEW r \in Run,
         UNCHANGED status
           \/ \E s : Set(r, s) /\ Live(r) /\ (s \in TerminalRun => ~HasLiveChild(r))
  PROVE  TerminalRunHasNoLiveChild'
<1>1. CASE UNCHANGED status
  BY <1>1, EndsInOrder DEF Live
<1>2. CASE \E s : Set(r, s) /\ Live(r) /\ (s \in TerminalRun => ~HasLiveChild(r))
  <2>1. \A x \in Run : x # r => status'[x] = status[x]
    BY <1>2 DEF Set, TypeOK
  <2>2. Live(r) /\ (status'[r] \in TerminalRun => ~HasLiveChild(r))
    BY <1>2 DEF Set, TypeOK
  <2>3. \A x \in Run : Live(x)' => Live(x)
    BY <2>1, <2>2 DEF Live
  <2>4. \A x \in Run : status'[x] \in TerminalRun =>
                          status[x] \in TerminalRun \/ ~HasLiveChild(x)
    BY <2>1, <2>2
  <2>. QED
    BY <2>3, <2>4, EndsInOrder
<1>. QED
  BY <1>1, <1>2

\* A Run that is admitted below a live one, or below none.
LEMMA InsertInOrder ==
  ASSUME TypeOK, TerminalRunHasNoLiveChild, NEW r \in Run, NEW p, NEW d, NEW n,
         Insert(r, p, d, n), p \in Run => status[p] \in {"queued", "running"}
  PROVE  TerminalRunHasNoLiveChild'
<1>1. {"queued", "running", "absent"} \cap TerminalRun = {}
  BY DEF TerminalRun
<1>2. /\ status'[r] = "queued" /\ parent'[r] = p
      /\ \A x \in Run : x # r => status'[x] = status[x] /\ parent'[x] = parent[x]
  BY DEF Insert, Set, TypeOK, rows
<1>3. SUFFICES ASSUME NEW q \in Run, status'[q] \in TerminalRun,
                      NEW x \in Run, parent'[x] = q, Live(x)'
               PROVE  FALSE
  BY DEF TerminalRunHasNoLiveChild, HasLiveChild, Children
<1>4. q # r /\ status[q] \in TerminalRun
  BY <1>1, <1>2, <1>3
<1>5. x # r
  BY <1>1, <1>2, <1>3, <1>4
<1>6. parent[x] = q /\ Live(x)
  BY <1>2, <1>3, <1>5 DEF Live
<1>. QED
  BY <1>4, <1>6 DEF TerminalRunHasNoLiveChild, HasLiveChild, Children

\* Whatever ends or admits a Run.
LEMMA RunInOrder ==
  ASSUME TypeOK, TerminalRunHasNoLiveChild, NEW r \in Run, RunStep(r)
  PROVE  TerminalRunHasNoLiveChild'
<1> USE DEF rows, Move
<1>1. {"queued", "running", "blocked", "cancelling"} \cap (TerminalRun \cup {"absent"}) = {}
  BY DEF TerminalRun
<1>2. CASE AdmitRun(r)
  <2>1. 0 \notin Run
    BY RunAssumption
  <2>. QED
    BY <2>1, <1>2, InsertInOrder DEF AdmitRun
<1>3. CASE \E p \in Run, n \in Quotas : AdmitChild(p, r, n)
  BY <1>3, InsertInOrder DEF AdmitChild
<1>4. CASE Spend(r) \/ Dispatch(r) \/ Result(r)
  BY <1>4, MoveInOrder DEF Spend, Dispatch, Result
<1>5. CASE EnsureRunning(r) \/ Block(r) \/ OutcomeUnknown(r)
  BY <1>1, <1>5, MoveInOrder DEF EnsureRunning, Block, OutcomeUnknown
<1>6. CASE Reconcile(r)
  BY <1>1, <1>6, MoveInOrder DEF Reconcile, Live
<1>7. CASE \E s \in {"succeeded", "failed"} : EndRun(r, s)
  BY <1>7, MoveInOrder DEF EndRun
<1>8. CASE TerminateRun(r)
  BY <1>1, <1>8, MoveInOrder DEF TerminateRun
<1>9. CASE Finalize(r)
  BY <1>9, MoveInOrder DEF Finalize
<1>. QED
  BY <1>2, <1>3, <1>4, <1>5, <1>6, <1>7, <1>8, <1>9 DEF RunStep

\* A cancellation ends nothing and moves live Runs only.
LEMMA CallerInOrder ==
  ASSUME TypeOK, TerminalRunHasNoLiveChild, NEW c \in Caller,
         CallerStep(c) \/ \E r \in Run : LockRoot(c, r)
  PROVE  TerminalRunHasNoLiveChild'
<1> USE DEF rows
<1>1. CASE CommitCancellation(c)
  <2>1. PICK told \in SUBSET {x \in Run : Live(x) /\ status[x] # "cancelling"} :
          status' = [x \in Run |-> IF x \in told THEN "cancelling" ELSE status[x]]
    BY <1>1, Told
  <2>2. \A x \in Run : Live(x)' => Live(x)
    BY <2>1 DEF Live
  <2>3. "cancelling" \notin TerminalRun
    BY DEF TerminalRun
  <2>4. \A x \in Run : status'[x] \in TerminalRun => status[x] \in TerminalRun
    BY <2>1, <2>3
  <2>5. UNCHANGED parent
    BY <1>1 DEF CommitCancellation
  <2>. QED
    BY <2>2, <2>4, <2>5, EndsInOrder
<1>2. CASE LockNext(c) \/ AbortDeadlock(c) \/ \E r \in Run : LockRoot(c, r)
  <2>1. UNCHANGED <<status, parent>>
    BY <1>2 DEF LockNext, AbortDeadlock, LockRoot
  <2>. QED
    BY <2>1, EndsInOrder DEF Live
<1>. QED
  BY <1>1, <1>2 DEF CallerStep

\* Runs end after their children: admission and every end lock the parent's row
\* and look at the statuses of its children under that lock.
THEOREM ChildrenEndFirst == Spec => []TerminalRunHasNoLiveChild
<1>1. Init => TerminalRunHasNoLiveChild
  BY DEF Init, TerminalRunHasNoLiveChild, HasLiveChild, Children, Live
<1>2. TypeOK /\ TerminalRunHasNoLiveChild /\ [Next]_vars => TerminalRunHasNoLiveChild'
  <2> SUFFICES ASSUME TypeOK, TerminalRunHasNoLiveChild, [Next]_vars
               PROVE  TerminalRunHasNoLiveChild'
    OBVIOUS
  <2>1. CASE \E r \in Run : RunStep(r)
    BY <2>1, RunInOrder
  <2>2. CASE \E c \in Caller : CallerStep(c) \/ \E r \in Run : LockRoot(c, r)
    BY <2>2, CallerInOrder
  <2>3. CASE UNCHANGED vars
    BY <2>3, EndsInOrder DEF vars, rows, Live
  <2>. QED
    BY <2>1, <2>2, <2>3 DEF Next
<1>. QED
  BY <1>1, <1>2, TypeCorrect, PTL DEF Spec

-----------------------------------------------------------------------------
(* Jobs of a cancellation *)

\* No step of a Run leaves it cancelling without its job.
LEMMA RunIsWoken ==
  ASSUME TypeOK, CancellingRunIsWoken, NEW r \in Run, RunStep(r)
  PROVE  CancellingRunIsWoken'
<1> USE DEF rows, budgets, work, locks, Move, Set, TypeOK, CancellingRunIsWoken
<1>1. CASE AdmitRun(r) \/ \E p \in Run, n \in Quotas : AdmitChild(p, r, n)
  BY <1>1 DEF AdmitRun, AdmitChild, Insert
<1>2. CASE Spend(r) \/ Dispatch(r) \/ Result(r)
  BY <1>2 DEF Spend, Dispatch, Result
<1>3. CASE EnsureRunning(r) \/ Block(r) \/ OutcomeUnknown(r) \/ Reconcile(r)
  BY <1>3 DEF EnsureRunning, Block, OutcomeUnknown, Reconcile
<1>4. CASE \E s \in {"succeeded", "failed"} : EndRun(r, s)
  BY <1>4 DEF EndRun
<1>5. CASE TerminateRun(r) \/ Finalize(r)
  BY <1>5 DEF TerminateRun, Finalize
<1>. QED
  BY <1>1, <1>2, <1>3, <1>4, <1>5 DEF RunStep

\* A Run that is being cancelled is not forgotten: whoever ordered it, its job
\* is there until the Run has left cancelling.
THEOREM CancellingIsWoken == Spec => []CancellingRunIsWoken
<1>1. Init => CancellingRunIsWoken
  BY DEF Init, CancellingRunIsWoken
<1>2. TypeOK /\ CancellingRunIsWoken /\ [Next]_vars => CancellingRunIsWoken'
  <2> SUFFICES ASSUME TypeOK, CancellingRunIsWoken, [Next]_vars
               PROVE  CancellingRunIsWoken'
    OBVIOUS
  <2>1. CASE \E r \in Run : RunStep(r)
    BY <2>1, RunIsWoken
  <2>2. ASSUME NEW c \in Caller, CommitCancellation(c) PROVE CancellingRunIsWoken'
    <3>1. PICK told \in SUBSET Run :
            /\ status' = [x \in Run |-> IF x \in told THEN "cancelling" ELSE status[x]]
            /\ wake' = wake \cup told
      BY <2>2, Told
    <3>. QED
      BY <3>1 DEF CancellingRunIsWoken
  <2>3. ASSUME NEW c \in Caller,
               LockNext(c) \/ AbortDeadlock(c) \/ \E r \in Run : LockRoot(c, r)
        PROVE  CancellingRunIsWoken'
    BY <2>3 DEF LockNext, AbortDeadlock, LockRoot, CancellingRunIsWoken
  <2>4. CASE UNCHANGED vars
    BY <2>4 DEF vars, CancellingRunIsWoken
  <2>. QED
    BY <2>1, <2>2, <2>3, <2>4 DEF Next, CallerStep
<1>. QED
  BY <1>1, <1>2, TypeCorrect, PTL DEF Spec
-----------------------------------------------------------------------------
(* The tree *)

\* Rows are admitted from the root down and a row keeps its parent.
Admitted  == {r \in Run : status[r] # "absent"}
Absent(r) == parent[r] = 0 /\ used[r] = 0 /\ limit[r] = 0 /\ r \notin quota
Linked(r) == parent[r] # 0 =>
               parent[r] \in Admitted /\ depth[r] = depth[parent[r]] + 1
TreeInv ==
  /\ IsFiniteSet(Admitted)
  /\ \A r \in Run \ Admitted : Absent(r)
  /\ \A r \in Run : Linked(r)

\* A Run's own work and the reservations of its children fit into its limit.
WithinOwnLimit(r) == used[r] + Reserved(r) <= limit[r]
OwnLimits == \A r \in Run : WithinOwnLimit(r)

Tree(r) == Below(r, Run)

LEMMA TreeClosed ==
  ASSUME NEW r \in Run
  PROVE  r \in Tree(r) /\ Tree(r) \subseteq Run /\ Closed(Tree(r), Run)
  BY DEF Tree, Below, Closed

LEMMA TreeIsLeast ==
  ASSUME NEW r \in Run, NEW s \in SUBSET Run, r \in s, Closed(s, Run)
  PROVE  Tree(r) \subseteq s
  BY DEF Tree, Below

\* A child's tree is part of its parent's.
LEMMA ChildTree ==
  ASSUME NEW r \in Run, NEW q \in Tree(r)
  PROVE  q \in Run /\ Tree(q) \subseteq Tree(r)
  BY TreeClosed, TreeIsLeast

\* The tree of a Run is the Run and the trees of its children.
LEMMA TreeParts ==
  ASSUME NEW r \in Run
  PROVE  Tree(r) = {r} \cup UNION {Tree(x) : x \in Children(r)}
<1> DEFINE s == {r} \cup UNION {Tree(x) : x \in Children(r)}
<1>1. s \subseteq Run
  BY TreeClosed DEF Children
<1>2. Closed(s, Run)
  <2> SUFFICES ASSUME NEW x \in Run, parent[x] \in s PROVE x \in s
    BY DEF Closed
  <2>1. CASE parent[x] = r
    BY <2>1, TreeClosed DEF Children
  <2>2. CASE \E y \in Children(r) : parent[x] \in Tree(y)
    BY <2>2, TreeClosed DEF Children, Closed
  <2>. QED
    BY <2>1, <2>2
<1>3. Tree(r) \subseteq s
  BY <1>1, <1>2, TreeIsLeast
<1>4. \A x \in Children(r) : x \in Tree(r)
  BY TreeClosed DEF Children, Closed
<1>5. s \subseteq Tree(r)
  BY <1>4, ChildTree, TreeClosed
<1>. QED
  BY <1>3, <1>5

\* Whoever is below a Run is deeper.
LEMMA TreeDeeper ==
  ASSUME TypeOK, TreeInv, NEW r \in Run, NEW q \in Tree(r), q # r
  PROVE  depth[q] > depth[r]
<1> DEFINE s == {x \in Run : x = r \/ depth[x] > depth[r]}
<1>1. Closed(s, Run)
  <2> SUFFICES ASSUME NEW x \in Run, parent[x] \in s PROVE x \in s
    BY DEF Closed
  <2>1. parent[x] # 0
    BY RunAssumption
  <2>2. depth[x] = depth[parent[x]] + 1
    BY <2>1 DEF TreeInv, Linked
  <2>3. depth[x] \in Nat /\ depth[parent[x]] \in Nat /\ depth[r] \in Nat
    BY LimitAssumption DEF TypeOK
  <2>. QED
    BY <2>2, <2>3
<1>. QED
  BY <1>1, TreeIsLeast

\* Below a Run every parent is there too.
LEMMA TreeUp ==
  ASSUME NEW r \in Run, NEW q \in Tree(r), q # r
  PROVE  parent[q] \in Tree(r)
<1> DEFINE s == {x \in Tree(r) : x = r \/ parent[x] \in Tree(r)}
<1>1. s \in SUBSET Run /\ r \in s
  BY TreeClosed
<1>2. Closed(s, Run)
  BY TreeClosed DEF Closed
<1>. QED
  BY <1>1, <1>2, TreeIsLeast

\* Siblings have nobody below them in common, and not their parent.
LEMMA SiblingsApart ==
  ASSUME TypeOK, TreeInv, NEW r \in Run, NEW x \in Children(r)
  PROVE  /\ x \in Run /\ x # r /\ r \notin Tree(x)
         /\ \A y \in Children(r) : x # y => Tree(x) \cap Tree(y) = {}
<1>1. x \in Run /\ parent[x] = r /\ r # 0
  BY RunAssumption DEF Children
<1>2. \A y \in Children(r) : depth[y] = depth[r] + 1
  BY <1>1 DEF TreeInv, Linked, Children
<1>3. \A y \in Run : depth[y] \in Nat
  BY LimitAssumption DEF TypeOK
<1>4. \A y \in Children(r) : y # r /\ r \notin Tree(y)
  BY <1>2, <1>3, TreeDeeper DEF Children
<1>5. ASSUME NEW y \in Children(r), x # y PROVE Tree(x) \cap Tree(y) = {}
  <2> DEFINE s == Tree(x) \ Tree(y)
  <2>1. x \notin Tree(y)
    BY <1>2, <1>3, <1>5, TreeDeeper DEF Children
  <2>2. Closed(s, Run)
    <3> SUFFICES ASSUME NEW z \in Run, parent[z] \in s PROVE z \in s
      BY DEF Closed
    <3>1. z \in Tree(x)
      BY <1>1, TreeClosed DEF Closed
    <3>2. CASE z = y
      BY <3>2, <1>4 DEF Children
    <3>3. CASE z # y
      BY <3>1, <3>3, TreeUp DEF Children
    <3>. QED
      BY <3>2, <3>3
  <2>3. x \in s /\ s \subseteq Run
    BY <2>1, <1>1, TreeClosed
  <2>. QED
    BY <1>1, <2>2, <2>3, TreeIsLeast
<1>. QED
  BY <1>1, <1>4, <1>5

LEMMA TreeIsFinite ==
  ASSUME TypeOK, TreeInv, NEW r \in Run
  PROVE  IsFiniteSet(Tree(r))
<1> DEFINE s == Admitted \cup {r}
<1>1. s \in SUBSET Run
  BY DEF Admitted
<1>2. Closed(s, Run)
  BY RunAssumption DEF Closed, TreeInv, Absent, Admitted
<1>3. IsFiniteSet(s)
  BY FS_AddElement DEF TreeInv
<1>. QED
  BY <1>1, <1>2, <1>3, TreeIsLeast, FS_Subset
\* The used amounts and the limits, as sums.
LEMMA Amounts ==
  ASSUME TypeOK, TreeInv, NEW r \in Run
  PROVE  /\ used[r] \in Nat /\ limit[r] \in Nat
         /\ IsFiniteSet(quota \cap Children(r)) /\ Reserved(r) \in Nat
<1>1. \A x \in Run : used[x] \in Nat /\ limit[x] \in Nat
  BY DEF TypeOK
<1>2. quota \cap Children(r) \subseteq Tree(r)
  BY TreeClosed DEF Children, Closed
<1>3. IsFiniteSet(quota \cap Children(r))
  BY <1>2, TreeIsFinite, FS_Subset
<1>. QED
  BY <1>1, <1>3, SumType DEF Reserved, Children

\* What is below the children D of a Run has used no more than their limits, if
\* each of them stays within its own.
LEMMA ChildrenSum ==
  ASSUME TypeOK, TreeInv, NEW r \in Run, NEW D \in SUBSET Children(r),
         \A x \in D : SumFunctionOnSet(used, Tree(x)) <= limit[x]
  PROVE  SumFunctionOnSet(used, UNION {Tree(x) : x \in D}) <= SumFunctionOnSet(limit, D)
<1> DEFINE All(E) == UNION {Tree(x) : x \in E}
           Bad == {E \in SUBSET D : ~(SumFunctionOnSet(used, All(E)) <= SumFunctionOnSet(limit, E))}
<1> SUFFICES ASSUME Bad # {} PROVE FALSE
  OBVIOUS
<1>0. /\ Bad \subseteq SUBSET D
      /\ D \subseteq Tree(r) /\ IsFiniteSet(D) /\ \A E \in SUBSET D : All(E) \subseteq Tree(r)
  <2>1. D \subseteq Tree(r)
    BY TreeClosed DEF Children, Closed
  <2>2. \A x \in D : Tree(x) \subseteq Tree(r)
    BY <2>1, ChildTree
  <2>. QED
    BY <2>1, <2>2, TreeIsFinite, FS_Subset
<1> HIDE DEF Bad
<1>1. PICK E \in Bad : \A F \in Bad : ~(F \subseteq E /\ F # E)
  BY <1>0, LeastFiniteSet
<1> USE DEF Bad
<1>2. ASSUME NEW F \in SUBSET D
      PROVE  /\ IsFiniteSet(F) /\ IsFiniteSet(All(F)) /\ F \subseteq Run /\ All(F) \subseteq Run
             /\ SumFunctionOnSet(used, All(F)) \in Nat /\ SumFunctionOnSet(limit, F) \in Nat
  <2>1. IsFiniteSet(F) /\ IsFiniteSet(All(F)) /\ F \subseteq Run /\ All(F) \subseteq Run
    BY <1>0, TreeIsFinite, TreeClosed, FS_Subset
  <2>2. (\A x \in F : limit[x] \in Nat) /\ (\A x \in All(F) : used[x] \in Nat)
    BY <2>1 DEF TypeOK
  <2> HIDE DEF All
  <2>. QED
    BY <2>1, <2>2, SumType
<1>3. E # {}
  <2>1. All({}) = {}
    OBVIOUS
  <2>2. SumFunctionOnSet(used, All({})) = 0 /\ SumFunctionOnSet(limit, {}) = 0
    BY <2>1, SumEmpty
  <2> HIDE DEF All
  <2>. QED
    BY <2>2
<1>4. PICK x \in E : TRUE
  BY <1>3
<1> DEFINE F == E \ {x}
<1>5. F \in SUBSET D /\ SumFunctionOnSet(used, All(F)) <= SumFunctionOnSet(limit, F)
  <2>1. F \in SUBSET D /\ F \subseteq E /\ F # E
    BY <1>4
  <2> HIDE DEF All, F
  <2>. QED
    BY <1>1, <2>1
<1>6. x \in Children(r) /\ SumFunctionOnSet(used, Tree(x)) <= limit[x]
  OBVIOUS
<1>7. SumFunctionOnSet(limit, E) = limit[x] + SumFunctionOnSet(limit, F)
  <2>1. \A y \in E : limit[y] \in Nat
    BY <1>2 DEF TypeOK
  <2>. QED
    BY <2>1, <1>2, SumElement
<1>8. SumFunctionOnSet(used, All(E))
        = SumFunctionOnSet(used, Tree(x)) + SumFunctionOnSet(used, All(F))
  <2>1. All(E) = Tree(x) \cup All(F)
    OBVIOUS
  <2>2. Tree(x) \cap All(F) = {}
    BY <1>5, <1>6, SiblingsApart
  <2>3. IsFiniteSet(Tree(x)) /\ Tree(x) \subseteq Run
    BY <1>6, TreeIsFinite, TreeClosed DEF Children
  <2>4. \A y \in Tree(x) \cup All(F) : used[y] \in Nat
    BY <2>3, <1>2, <1>5 DEF TypeOK
  <2> HIDE DEF All, F
  <2>. QED
    BY <2>1, <2>2, <2>3, <2>4, <1>2, <1>5, SumUnion
<1>9. SumFunctionOnSet(used, Tree(x)) \in Nat /\ limit[x] \in Nat
  <2>1. IsFiniteSet(Tree(x)) /\ Tree(x) \subseteq Run /\ x \in Run
    BY <1>6, TreeIsFinite, TreeClosed DEF Children
  <2>. QED
    BY <2>1, SumType DEF TypeOK
<1>10. ~(SumFunctionOnSet(used, All(E)) <= SumFunctionOnSet(limit, E))
  OBVIOUS
<1> HIDE DEF All, F
<1>. QED
  BY <1>2, <1>5, <1>6, <1>7, <1>8, <1>9, <1>10

\* If each Run keeps to its own limit, so does each tree whose reservations stand:
\* a least tree that does not would have children that do.
LEMMA TreeSum ==
  ASSUME TypeOK, TreeInv, OwnLimits
  PROVE  TreeWithinLimit
<1> DEFINE Cost(q) == SumFunctionOnSet(used, Tree(q))
<1> SUFFICES ASSUME NEW r \in Run, Tree(r) \ {r} \subseteq quota, ~(Cost(r) <= limit[r])
             PROVE  FALSE
  BY DEF TreeWithinLimit, Tree
<1> DEFINE Bad == {T \in SUBSET Tree(r) : \E q \in Run : T = Tree(q) /\ ~(Cost(q) <= limit[q])}
<1>0. Bad # {} /\ Bad \subseteq SUBSET Tree(r) /\ IsFiniteSet(Tree(r))
  BY TreeIsFinite
<1> HIDE DEF Bad
<1>1. PICK T \in Bad : \A U \in Bad : ~(U \subseteq T /\ U # T)
  BY <1>0, LeastFiniteSet
<1> USE DEF Bad
<1>2. PICK q \in Run : T = Tree(q) /\ ~(Cost(q) <= limit[q])
  OBVIOUS
<1>3. q \in Tree(r) /\ Tree(q) \subseteq Tree(r)
  BY <1>2, TreeClosed
<1>4. Tree(q) \ {q} \subseteq quota
  <2>1. q # r => r \notin Tree(q)
    <3> SUFFICES ASSUME q # r, r \in Tree(q) PROVE FALSE
      OBVIOUS
    <3>1. depth[q] > depth[r] /\ depth[r] > depth[q]
      BY <1>3, TreeDeeper
    <3>2. depth[q] \in Nat /\ depth[r] \in Nat
      BY LimitAssumption DEF TypeOK
    <3>. QED
      BY <3>1, <3>2
  <2>. QED
    BY <1>3, <2>1
<1>5. ASSUME NEW x \in Children(q)
      PROVE  x \in quota /\ Cost(x) <= limit[x] /\ q \notin Tree(x)
  <2>1. x \in Run /\ x # q /\ q \notin Tree(x)
    BY SiblingsApart
  <2>2. x \in Tree(q) /\ Tree(x) \subseteq Tree(q)
    BY <2>1, TreeClosed, ChildTree DEF Children, Closed
  <2>3. Tree(x) \notin Bad /\ Tree(x) \in SUBSET Tree(r)
    BY <1>1, <1>2, <1>3, <2>1, <2>2, TreeClosed
  <2> HIDE DEF Cost
  <2>. QED
    BY <1>4, <2>1, <2>2, <2>3
<1> DEFINE All == UNION {Tree(x) : x \in Children(q)}
<1>6. quota \cap Children(q) = Children(q)
  BY <1>5
<1>7. SumFunctionOnSet(used, All) <= Reserved(q)
  BY <1>5, <1>6, ChildrenSum DEF Reserved
<1>8. Tree(q) = {q} \cup All /\ q \notin All
  BY <1>5, TreeParts
<1>9. Cost(q) = used[q] + SumFunctionOnSet(used, All) /\ SumFunctionOnSet(used, All) \in Nat
  <2>1. IsFiniteSet(Tree(q)) /\ Tree(q) \subseteq Run
    BY TreeIsFinite, TreeClosed
  <2>2. \A y \in Tree(q) : used[y] \in Nat
    BY <2>1 DEF TypeOK
  <2>3. IsFiniteSet(All) /\ Tree(q) \ {q} = All
    BY <1>8, <2>1, FS_Subset
  <2> HIDE DEF All
  <2>. QED
    BY <1>8, <2>1, <2>2, <2>3, SumElement, SumType
<1>10. used[q] + Reserved(q) <= limit[q]
  BY DEF OwnLimits, WithinOwnLimit
<1>11. used[q] \in Nat /\ limit[q] \in Nat /\ Reserved(q) \in Nat
  BY Amounts
<1> HIDE DEF Cost, All
<1>. QED
  BY <1>2, <1>7, <1>9, <1>10, <1>11
\* Steps that admit nobody.
Stays ==
  /\ Admitted' = Admitted /\ UNCHANGED <<parent, depth, limit>>
  /\ quota' \subseteq quota
  /\ \A x \in Run : used'[x] = used[x] \/ x \in Admitted

LEMMA SetStays ==
  ASSUME TypeOK, NEW r \in Run, NEW s \in RunStatus, Set(r, s), r \in Admitted
  PROVE  Admitted' = Admitted
<1>1. "absent" \notin RunStatus
  BY DEF RunStatus, TerminalRun
<1>. QED
  BY <1>1 DEF Set, TypeOK, Admitted

LEMMA RunStays ==
  ASSUME TypeOK, NEW r \in Run, RunStep(r),
         ~AdmitRun(r), ~ \E p \in Run, n \in Quotas : AdmitChild(p, r, n)
  PROVE  Stays
<1> USE DEF rows, budgets, work, locks
<1>1. {"queued", "running", "blocked", "cancelled", "succeeded", "failed"} \subseteq RunStatus
  BY DEF RunStatus, TerminalRun
<1>2. Live(r) => r \in Admitted
  BY DEF Live, Admitted
<1>3. UNCHANGED status => Admitted' = Admitted
  BY DEF Admitted
<1>4. ASSUME NEW s \in RunStatus, Move(r, s) PROVE Admitted' = Admitted
  BY <1>2, <1>4, SetStays DEF Move
<1>5. CASE Spend(r)
  <2>1. r \in Admitted
    BY <1>5 DEF Spend, Admitted
  <2>2. \A x \in Run : x # r => used'[x] = used[x]
    BY <1>5 DEF Spend, TypeOK
  <2>. QED
    BY <2>1, <2>2, <1>3, <1>5 DEF Spend, Stays
<1>6. CASE EnsureRunning(r) \/ Block(r)
  BY <1>1, <1>4, <1>6 DEF EnsureRunning, Block, Stays
<1>7. CASE Dispatch(r) \/ Result(r)
  BY <1>3, <1>7 DEF Dispatch, Result, Stays
<1>8. CASE OutcomeUnknown(r)
  BY <1>1, <1>3, <1>4, <1>8 DEF OutcomeUnknown, Stays
<1>9. CASE Reconcile(r)
  <2>1. status[r] \in {"blocked", "cancelling"} => r \in Admitted
    BY DEF Admitted
  <2>2. Admitted' = Admitted
    BY <1>1, <1>3, <1>9, <2>1, SetStays DEF Reconcile
  <2>. QED
    BY <2>2, <1>9 DEF Reconcile, Stays
<1>10. CASE \E s \in {"succeeded", "failed"} : EndRun(r, s)
  BY <1>1, <1>4, <1>10 DEF EndRun, Stays
<1>11. CASE TerminateRun(r)
  BY <1>1, <1>4, <1>11 DEF TerminateRun, Stays
<1>12. CASE Finalize(r)
  BY <1>1, <1>3, <1>4, <1>12 DEF Finalize, Stays
<1>. QED
  BY <1>5, <1>6, <1>7, <1>8, <1>9, <1>10, <1>11, <1>12 DEF RunStep

LEMMA CallerStays ==
  ASSUME TypeOK, NEW c \in Caller, CallerStep(c) \/ \E r \in Run : LockRoot(c, r)
  PROVE  Stays /\ UNCHANGED <<used, quota>>
<1> USE DEF rows, budgets, work
<1>1. CASE CommitCancellation(c)
  <2>1. PICK told \in SUBSET {x \in Run : Live(x) /\ status[x] # "cancelling"} :
          status' = [x \in Run |-> IF x \in told THEN "cancelling" ELSE status[x]]
    BY <1>1, Told
  <2>2. Admitted' = Admitted
    BY <2>1 DEF Admitted, Live
  <2>. QED
    BY <2>2, <1>1 DEF CommitCancellation, Stays
<1>2. CASE LockNext(c) \/ AbortDeadlock(c) \/ \E r \in Run : LockRoot(c, r)
  BY <1>2 DEF LockNext, AbortDeadlock, LockRoot, Stays, Admitted
<1>. QED
  BY <1>1, <1>2 DEF CallerStep

LEMMA StaysTree ==
  ASSUME TypeOK, TreeInv, Stays
  PROVE  TreeInv'
  BY DEF TreeInv, Stays, Absent, Linked

\* A new row.
LEMMA InsertTree ==
  ASSUME TypeOK, TreeInv, NEW r \in Run, NEW p \in Run \cup {0}, NEW d, NEW n,
         Insert(r, p, d, n), quota' \subseteq quota \cup {r},
         p # 0 => p \in Admitted /\ d = depth[p] + 1
  PROVE  TreeInv' /\ r \notin Admitted
<1>1. r \notin Admitted /\ Absent(r)
  BY DEF Insert, Admitted, TreeInv
<1>2. /\ parent'[r] = p /\ depth'[r] = d
      /\ \A x \in Run : x # r => /\ parent'[x] = parent[x] /\ depth'[x] = depth[x]
                                 /\ limit'[x] = limit[x] /\ status'[x] = status[x]
      /\ used' = used
  BY DEF Insert, TypeOK, rows, Set
<1>3. Admitted' = Admitted \cup {r}
  <2>1. status'[r] = "queued"
    BY DEF Insert, Set, TypeOK
  <2>. QED
    BY <2>1, <1>2 DEF Admitted
<1>4. \A x \in Run : parent[x] # r
  BY <1>1, RunAssumption DEF TreeInv, Linked
<1>5. IsFiniteSet(Admitted')
  BY <1>3, FS_AddElement DEF TreeInv
<1>6. \A x \in Run \ Admitted' : Absent(x)'
  BY <1>2, <1>3 DEF TreeInv, Absent
<1>7. ASSUME NEW x \in Run PROVE Linked(x)'
  <2>1. CASE x = r
    BY <2>1, <1>1, <1>2, <1>3 DEF Linked
  <2>2. CASE x # r
    <3>1. Linked(x) /\ (parent[x] # 0 => parent[x] \in Run)
      BY DEF TreeInv, TypeOK
    <3>. QED
      BY <2>2, <3>1, <1>2, <1>3, <1>4 DEF Linked
  <2>. QED
    BY <2>1, <2>2
<1>. QED
  BY <1>1, <1>5, <1>6, <1>7 DEF TreeInv

LEMMA TreeStep ==
  ASSUME TypeOK, TreeInv, [Next]_vars
  PROVE  TreeInv'
<1>1. ASSUME NEW r \in Run, RunStep(r) PROVE TreeInv'
  <2>1. CASE AdmitRun(r)
    BY <2>1, InsertTree DEF AdmitRun
  <2>2. ASSUME NEW p \in Run, NEW n \in Quotas, AdmitChild(p, r, n) PROVE TreeInv'
    <3>1. p \in Admitted
      BY <2>2 DEF AdmitChild, Admitted
    <3>. QED
      BY <2>2, <3>1, InsertTree DEF AdmitChild
  <2>. QED
    BY <1>1, <2>1, <2>2, RunStays, StaysTree
<1>2. ASSUME NEW c \in Caller, CallerStep(c) \/ \E r \in Run : LockRoot(c, r)
      PROVE  TreeInv'
  BY <1>2, CallerStays, StaysTree
<1>3. CASE UNCHANGED vars
  BY <1>3, StaysTree DEF vars, rows, budgets, Stays, Admitted
<1>. QED
  BY <1>1, <1>2, <1>3 DEF Next

\* What is reserved depends on the children that are.
LEMMA ReservedSame ==
  ASSUME TypeOK, TreeInv, NEW r \in Run,
         (quota \cap Children(r))' = quota \cap Children(r),
         \A x \in quota \cap Children(r) : limit'[x] = limit[x]
  PROVE  Reserved(r)' = Reserved(r)
  BY Amounts, SumAgree DEF Reserved

\* An admission, with the child's reservation.
LEMMA InsertOwnLimits ==
  ASSUME TypeOK, TreeInv, OwnLimits, NEW r \in Run, NEW p \in Run \cup {0}, NEW d,
         NEW n \in Nat, Insert(r, p, d, n),
         p = 0 => UNCHANGED quota,
         p # 0 => /\ quota' = quota \cup {r} /\ p \in Admitted
                  /\ used[p] + Reserved(p) + n <= limit[p]
  PROVE  OwnLimits'
<1>1. r \notin Admitted /\ Absent(r) /\ 0 \notin Run
  BY RunAssumption DEF Insert, Admitted, TreeInv
<1>2. /\ parent'[r] = p /\ limit'[r] = n
      /\ \A x \in Run : x # r => parent'[x] = parent[x] /\ limit'[x] = limit[x]
      /\ used' = used
  BY DEF Insert, TypeOK, rows
<1>3. Children(r) = {} /\ Children(r)' = {}
  <2>1. \A x \in Run : parent[x] # r
    BY <1>1 DEF TreeInv, Linked
  <2>2. p # r
    BY <1>1
  <2>. QED
    BY <2>1, <2>2, <1>2 DEF Children
<1>4. SUFFICES ASSUME NEW q \in Run PROVE WithinOwnLimit(q)'
  BY DEF OwnLimits
<1>5. WithinOwnLimit(q)
  BY DEF OwnLimits
<1>6. CASE q = r
  <2>1. Reserved(q)' = 0
    BY <1>3, <1>6, SumEmpty DEF Reserved
  <2>. QED
    BY <2>1, <1>1, <1>2, <1>6 DEF WithinOwnLimit, Absent
<1>7. CASE q # r /\ q # p
  <2>1. (quota \cap Children(q))' = quota \cap Children(q)
    BY <1>1, <1>2, <1>7 DEF Children, Absent
  <2>2. Reserved(q)' = Reserved(q)
    <3>1. \A x \in quota \cap Children(q) : limit'[x] = limit[x]
      BY <1>1, <1>2 DEF Absent, Children
    <3>. QED
      BY <2>1, <3>1, ReservedSame
  <2>. QED
    BY <2>2, <1>2, <1>5, <1>7 DEF WithinOwnLimit
<1>8. CASE q = p
  <2> DEFINE S == quota \cap Children(p)
  <2>1. (quota \cap Children(p))' = S \cup {r} /\ r \notin S
    BY <1>1, <1>2, <1>8 DEF Children, Absent
  <2>2. IsFiniteSet(S) /\ IsFiniteSet(S \cup {r})
    BY <1>8, Amounts, FS_AddElement
  <2>3. (S \cup {r}) \ {r} = S /\ \A x \in S : x # r /\ x \in Run
    BY <2>1 DEF Children
  <2>4. \A x \in S \cup {r} : limit'[x] \in Nat
    BY <2>3, <1>2 DEF TypeOK
  <2>5. SumFunctionOnSet(limit', S \cup {r}) = limit'[r] + SumFunctionOnSet(limit', S)
    BY <2>2, <2>3, <2>4, SumElement
  <2>6. SumFunctionOnSet(limit', S) = SumFunctionOnSet(limit, S)
    <3>1. \A x \in S : limit'[x] = limit[x]
      BY <2>3, <1>2
    <3> HIDE DEF S
    <3>. QED
      BY <2>2, <3>1, SumAgree
  <2>7. Reserved(p)' = n + Reserved(p)
    BY <2>1, <2>5, <2>6, <1>2 DEF Reserved
  <2>8. used[p] \in Nat /\ limit[p] \in Nat /\ Reserved(p) \in Nat /\ p # r
    BY <1>1, <1>8, Amounts
  <2>. QED
    BY <2>7, <2>8, <1>1, <1>2, <1>8 DEF WithinOwnLimit
<1>. QED
  BY <1>6, <1>7, <1>8

\* Everything else reserves nothing.
LEMMA StaysOwnLimits ==
  ASSUME TypeOK, TypeOK', TreeInv, OwnLimits, Stays,
         \A q \in Run : used'[q] = used[q] \/ used'[q] + Reserved(q) <= limit[q],
         UNCHANGED quota \/ \E r \in Run : quota' = quota \ Children(r)
  PROVE  OwnLimits'
<1> SUFFICES ASSUME NEW q \in Run PROVE WithinOwnLimit(q)'
  BY DEF OwnLimits
<1>1. used'[q] + Reserved(q) <= limit[q]
  BY DEF OwnLimits, WithinOwnLimit
<1>2. limit' = limit /\ parent' = parent /\ Children(q)' = Children(q)
  BY DEF Stays, Children
<1>3. CASE quota' \cap Children(q) = quota \cap Children(q)
  <2>1. Reserved(q)' = Reserved(q)
    BY <1>2, <1>3, ReservedSame
  <2>. QED
    BY <2>1, <1>1, <1>2 DEF WithinOwnLimit
<1>4. CASE quota' = quota \ Children(q)
  <2>1. (quota \cap Children(q))' = {}
    BY <1>2, <1>4
  <2>2. Reserved(q)' = 0
    BY <2>1, SumEmpty DEF Reserved
  <2>3. Reserved(q) \in Nat /\ limit[q] \in Nat
    BY Amounts
  <2>4. used'[q] \in Nat
    BY DEF TypeOK
  <2>. QED
    BY <2>2, <2>3, <2>4, <1>1, <1>2 DEF WithinOwnLimit
<1>5. ASSUME NEW r \in Run, r # q, quota' = quota \ Children(r)
      PROVE  quota' \cap Children(q) = quota \cap Children(q)
  BY <1>5 DEF Children
<1>. QED
  BY <1>3, <1>4, <1>5
LEMMA OwnLimitsStep ==
  ASSUME TypeOK, TypeOK', TreeInv, OwnLimits, [Next]_vars
  PROVE  OwnLimits'
<1> USE DEF rows, budgets
<1>1. ASSUME NEW r \in Run, RunStep(r) PROVE OwnLimits'
  <2>1. CASE AdmitRun(r)
    BY <2>1, InsertOwnLimits, RunAssumption, LimitAssumption DEF AdmitRun
  <2>2. ASSUME NEW p \in Run, NEW n \in Quotas, AdmitChild(p, r, n) PROVE OwnLimits'
    <3>1. p \in Admitted /\ p # 0 /\ n \in Nat
      BY <2>2, RunAssumption, LimitAssumption DEF AdmitChild, Admitted
    <3>. QED
      BY <2>2, <3>1, InsertOwnLimits DEF AdmitChild
  <2>3. CASE Stays
    <3>1. CASE Spend(r)
      <4>1. \A q \in Run : used'[q] = used[q] \/ used'[q] + Reserved(q) <= limit[q]
        <5> SUFFICES ASSUME NEW q \in Run, q = r
                     PROVE  used'[q] + Reserved(q) <= limit[q]
          BY <3>1 DEF Spend, TypeOK
        <5>1. used[q] \in Nat /\ limit[q] \in Nat /\ Reserved(q) \in Nat
          BY Amounts
        <5>2. used'[q] = used[q] + 1 /\ used[q] + Reserved(q) + 1 <= limit[q]
          BY <3>1 DEF Spend, TypeOK
        <5>. QED
          BY <5>1, <5>2
      <4>. QED
        BY <2>3, <3>1, <4>1, StaysOwnLimits DEF Spend
    <3>2. CASE TerminateRun(r)
      BY <2>3, <3>2, StaysOwnLimits DEF TerminateRun
    <3>3. CASE UNCHANGED <<used, quota>>
      BY <2>3, <3>3, StaysOwnLimits
    <3>4. \/ AdmitRun(r) \/ \E p \in Run, n \in Quotas : AdmitChild(p, r, n)
          \/ Spend(r) \/ TerminateRun(r) \/ UNCHANGED <<used, quota>>
      BY <1>1 DEF RunStep, EnsureRunning, Dispatch, Result, OutcomeUnknown, Reconcile,
                  Block, EndRun, Finalize
    <3>. QED
      BY <2>1, <2>2, <3>1, <3>2, <3>3, <3>4
  <2>. QED
    BY <1>1, <2>1, <2>2, <2>3, RunStays
<1>2. ASSUME NEW c \in Caller, CallerStep(c) \/ \E r \in Run : LockRoot(c, r)
      PROVE  OwnLimits'
  BY <1>2, CallerStays, StaysOwnLimits
<1>3. CASE UNCHANGED vars
  <2>1. Stays /\ UNCHANGED <<used, quota>>
    BY <1>3 DEF vars, Stays, Admitted
  <2>. QED
    BY <2>1, StaysOwnLimits
<1>. QED
  BY <1>1, <1>2, <1>3 DEF Next

\* What a Run and everything below it use stays within the Run's limit while the
\* reservations of its children stand, although admit_child_run and
\* reserve_budget look at one row each: for any tree, any depth and any quotas.
THEOREM TreesKeepTheirLimits == Spec => []TreeWithinLimit
<1> DEFINE Inv == TypeOK /\ TreeInv /\ OwnLimits
<1>1. Init => Inv
  <2> SUFFICES ASSUME Init PROVE Inv
    OBVIOUS
  <2>1. TypeOK
    BY LimitAssumption DEF Init, TypeOK, Start, rows
  <2>2. Admitted = {} /\ IsFiniteSet({})
    BY FS_EmptySet DEF Init, Admitted
  <2>3. TreeInv
    BY <2>2 DEF Init, TreeInv, Absent, Linked
  <2>4. ASSUME NEW r \in Run PROVE WithinOwnLimit(r)
    <3>1. quota \cap Children(r) = {} /\ used[r] = 0 /\ limit[r] = 0
      BY DEF Init
    <3>2. Reserved(r) = 0
      BY <3>1, SumEmpty DEF Reserved
    <3>. QED
      BY <3>1, <3>2 DEF WithinOwnLimit
  <2>. QED
    BY <2>1, <2>3, <2>4 DEF OwnLimits
<1>2. TypeOK /\ TypeOK' /\ TreeInv /\ OwnLimits /\ [Next]_vars => TreeInv' /\ OwnLimits'
  BY TreeStep, OwnLimitsStep
<1>3. Inv => TreeWithinLimit
  BY TreeSum
<1>. QED
  BY <1>1, <1>2, <1>3, TypeCorrect, PTL DEF Spec
=============================================================================
